--------------------------- MODULE DownloadsProofs ---------------------------
(***************************************************************************)
(* Proofs about Downloads, for any requests, providers, thresholds, items  *)
(* and retries.                                                            *)
(***************************************************************************)
EXTENDS Downloads, SequenceTheorems, TLAPS

Ended == Sync \cup {"over"}
Awaiting == {"local", "stream", "process"}
Running == Steps \ {"none", "queued", "ended"}

JobType == [does : {"none", "stream", "local", "process"}, name : Names,
            step : Steps, how : Ends]

\* A provider that cools down has failed Threshold times, and no failure is
\* counted that did not happen.
CountInv ==
  \A p \in Providers :
    /\ health[p].cooling => health[p].failures >= Threshold
    /\ health[p].failures <= inRow[p]

\* The fields of a job fit together.
Shape(j) ==
  /\ j.step = "none" <=> j.does = "none"
  /\ j.step = "none" => j = NoJob
  /\ j.does = "local" => j.name = Local
  /\ j.does = "process" => j.name = Out
  /\ j.does = "stream" => j.name # Out

\* The coroutine waits for its own job, and no job is queued or has ended
\* otherwise.
JobInv(r) ==
  /\ job[r].step = "queued" => pc[r] \in Awaiting
  /\ job[r].step = "ended" => pc[r] \in Awaiting \cup {"fetch", "ready"}
  /\ pc[r] \in {"new", "begin"} => job[r] = NoJob
  /\ pc[r] \in {"fetch", "ready"} => job[r].step \in {"none", "ended"}
  /\ pc[r] = "local" => job[r].does \in {"local", "stream"} /\ job[r].name = Local
  /\ pc[r] = "stream" => job[r].does = "stream" /\ job[r].name \in 1 .. items[r]
  /\ pc[r] = "process" => job[r].does = "process"

\* The loop over the providers is at one, and only its result has items.
RouteInv(r) ==
  /\ pc[r] \in {"fetch", "stream"} => route[r] # <<>>
  /\ pc[r] \in {"new", "begin", "local"} => items[r] = 0

\* The token is set when the request ends; a thread that outlives it was
\* cancelled.
EndInv(r) ==
  /\ pc[r] \notin Ended => ~token[r] /\ outcome[r] = ""
  /\ pc[r] \in Ended \ {"set"} => token[r]
  /\ pc[r] \in Ended /\ outcome[r] # "cancelled" => job[r] = NoJob
  /\ pc[r] \in Ended \ {"set", "call"} => ~waiting[r]

\* What the awaited job has stored is there.
StoredInv(r) ==
  /\ pc[r] \in Awaiting /\ job[r].step \in {"read", "finish"} =>
       \/ files[r][job[r].name] = "partial"
       \/ files[r][job[r].name] = "whole" /\ job[r].does = "local"
  /\ pc[r] = "stream" => \A n \in 1 .. job[r].name - 1 : files[r][n] = "whole"
  /\ pc[r] \in {"local", "stream"} /\ job[r].step = "ended" /\ job[r].how = "ok" =>
       files[r][job[r].name] = "whole"
  /\ pc[r] = "process" /\ job[r].step # "ended" =>
       \A n \in Sources(r) : files[r][n] = "whole"
  /\ pc[r] \in {"process", "ready"} =>
       (\A n \in Sources(r) : files[r][n] = "whole") \/ files[r][Out] = "whole"

\* The clean-up of a request that no thread outlives.
CleanInv(r) ==
  /\ pc[r] = "new" => ~dir[r] /\ files[r] = NoFiles
  /\ pc[r] \notin Ended \cup {"new"} => dir[r]
  /\ outcome[r] # "cancelled" =>
       /\ pc[r] = "remove" => \A n \in Names : files[r][n] # "none" => n \in listed[r]
       /\ pc[r] = "rmdir" => files[r] = NoFiles
       /\ pc[r] = "over" => ~dir[r] /\ files[r] = NoFiles

RequestInv(r) ==
  Shape(job[r]) /\ JobInv(r) /\ RouteInv(r) /\ EndInv(r) /\ StoredInv(r) /\ CleanInv(r)

DirsInv == userDir <=> \E r \in Requests : dir[r]

\* The inductive invariant.
IInv ==
  /\ TypeOK
  /\ CountInv
  /\ \A r \in Requests : RequestInv(r)
  /\ DirsInv

\* What the invariant of a request depends on is left alone.
Spared(r) ==
  /\ pc'[r] = pc[r] /\ route'[r] = route[r] /\ items'[r] = items[r] /\ job'[r] = job[r]
  /\ token'[r] = token[r] /\ waiting'[r] = waiting[r] /\ dir'[r] = dir[r]
  /\ files'[r] = files[r] /\ listed'[r] = listed[r] /\ outcome'[r] = outcome[r]

\* A step of r keeps the invariant, the health records aside.
Kept(r) ==
  /\ TypeOK' /\ RequestInv(r)' /\ DirsInv'
  /\ \A q \in Requests \ {r} : Spared(q)

LEMMA SparedKeeps ==
  ASSUME NEW r \in Requests, RequestInv(r), Spared(r)
  PROVE  RequestInv(r)'
<1> USE DEF Spared
<1>1. Shape(job[r])'
  BY DEF RequestInv, Shape
<1>2. JobInv(r)'
  BY DEF RequestInv, JobInv
<1>3. RouteInv(r)'
  BY DEF RequestInv, RouteInv
<1>4. EndInv(r)'
  BY DEF RequestInv, EndInv
<1>5. StoredInv(r)'
  BY DEF RequestInv, StoredInv, Sources
<1>6. CleanInv(r)'
  BY DEF RequestInv, CleanInv
<1> QED
  BY <1>1, <1>2, <1>3, <1>4, <1>5, <1>6 DEF RequestInv

-----------------------------------------------------------------------------
(***************************************************************************)
(* The worker threads.                                                     *)
(***************************************************************************)

LEMMA NoJobType ==
  NoJob \in JobType /\ NoJob.step = "none" /\ NoJob.does = "none" /\ Shape(NoJob)
<1>1. Out \in Names
  BY DownloadsAssumption DEF Out, Names, Local
<1>2. "none" \in Steps /\ "" \in Ends
  BY DEF Steps, Ends
<1>3. NoJob \in JobType
  BY <1>1, <1>2, Zenon DEF NoJob, JobType
<1>4. NoJob.step = "none" /\ NoJob.does = "none"
  BY DEF NoJob
<1> QED
  BY <1>3, <1>4 DEF Shape

\* A running job that nobody waits for was cancelled.
LEMMA AbandonedWasCancelled ==
  ASSUME IInv, NEW r \in Requests, job[r].step \in Running
  PROVE  /\ pc[r] \in Awaiting => ~token[r] /\ dir[r]
         /\ pc[r] \notin Awaiting => pc[r] \in Ended /\ outcome[r] = "cancelled"
<1>1. job[r] # NoJob
  BY NoJobType DEF Running, Steps
<1>2. pc[r] \notin {"new", "begin", "fetch", "ready"}
  BY <1>1 DEF IInv, RequestInv, JobInv, Running, Steps
<1>3. pc[r] \in Ended \cup Awaiting
  BY <1>2 DEF IInv, TypeOK, Ended, Awaiting, Sync
<1>4. pc[r] \in Awaiting => ~token[r] /\ dir[r]
  BY DEF IInv, RequestInv, EndInv, CleanInv, Ended, Awaiting, Sync
<1>5. pc[r] \notin Awaiting => outcome[r] = "cancelled"
  BY <1>1, <1>3 DEF IInv, RequestInv, EndInv
<1> QED
  BY <1>3, <1>4, <1>5

\* What a job becomes when its thread moves on or returns.
Onwards(r, next) ==
  /\ job'[r].does = job[r].does /\ job'[r].name = job[r].name
  /\ job'[r].step = next /\ job'[r].how = job[r].how

Returned(r, how) ==
  /\ pc[r] \in Awaiting => /\ job'[r].does = job[r].does /\ job'[r].name = job[r].name
                           /\ job'[r].step = "ended" /\ job'[r].how = how
  /\ pc[r] \notin Awaiting => job'[r] = NoJob

LEMMA StepMoves ==
  ASSUME TypeOK, NEW r \in Requests, NEW next \in Steps, Step(r, next)
  PROVE  /\ job' \in [Requests -> JobType]
         /\ Onwards(r, next)
         /\ \A q \in Requests \ {r} : job'[q] = job[q]
<1>1. job \in [Requests -> JobType]
  BY DEF TypeOK, JobType
<1>2. job' = [job EXCEPT ![r] = [job[r] EXCEPT !.step = next]]
  BY <1>1 DEF Step
<1>3. job'[r] = [job[r] EXCEPT !.step = next] /\ job[r] \in JobType
  BY <1>1, <1>2
<1>4. job'[r] \in JobType /\ Onwards(r, next)
  <2> DEFINE j == job[r]
             k == job'[r]
  <2>1. k = [j EXCEPT !.step = next] /\ j \in JobType
    BY <1>3
  <2> HIDE DEF j, k
  <2>2. k \in JobType /\ k.does = j.does /\ k.name = j.name /\ k.step = next /\ k.how = j.how
    BY <2>1 DEF JobType
  <2> QED
    BY <2>2 DEF j, k, Onwards
<1> QED
  BY <1>1, <1>2, <1>4

LEMMA ReturnMoves ==
  ASSUME TypeOK, NEW r \in Requests, NEW how \in Ends, Return(r, how)
  PROVE  /\ job' \in [Requests -> JobType]
         /\ Returned(r, how)
         /\ \A q \in Requests \ {r} : job'[q] = job[q]
<1>1. job \in [Requests -> JobType]
  BY DEF TypeOK, JobType
<1>2. NoJob \in JobType
  BY NoJobType
<1>3. "ended" \in Steps
  BY DEF Steps
<1>4. CASE pc[r] \in Awaiting
  <2>1. job' = [job EXCEPT ![r] = [@ EXCEPT !.step = "ended", !.how = how]]
    BY <1>4 DEF Return, Awaiting
  <2> QED
    BY <1>1, <1>3, <1>4, <2>1 DEF JobType, Returned
<1>5. CASE pc[r] \notin Awaiting
  <2>1. job' = [job EXCEPT ![r] = NoJob]
    BY <1>5 DEF Return, Awaiting
  <2> QED
    BY <1>1, <1>2, <1>5, <2>1 DEF Returned
<1> QED
  BY <1>4, <1>5

\* One file of the directory of r is written.
Written(r, n, state) ==
  /\ files'[r][n] = state
  /\ \A m \in Names \ {n} : files'[r][m] = files[r][m]

LEMMA WriteWrites ==
  ASSUME TypeOK, NEW r \in Requests, NEW n \in Names,
         NEW state \in {"none", "partial", "whole"}, Write(r, n, state)
  PROVE  /\ files' \in [Requests -> [Names -> {"none", "partial", "whole"}]]
         /\ Written(r, n, state)
         /\ \A q \in Requests \ {r} : files'[q] = files[q]
BY DEF TypeOK, Write, DirOf, Written

\* A thread that is at work keeps the invariant of its request if its job keeps
\* its shape and the files are as StoredInv has them.
Works(r) ==
  \/ job'[r].step \in Running /\ Onwards(r, job'[r].step)
  \/ \E how \in Ends : Returned(r, how)

LEMMA WorkKeeps ==
  ASSUME IInv, NEW r \in Requests, job[r].step \in Running \cup {"queued"}, Works(r),
         pc' = pc, route' = route, items' = items, token' = token, listed' = listed,
         outcome' = outcome,
         waiting'[r] => waiting[r] \/ ~token[r],
         pc[r] \in Awaiting => dir'[r] = dir[r] /\ StoredInv(r)'
  PROVE  RequestInv(r)'
<1> DEFINE j == job[r]
           k == job'[r]
<1>1. RequestInv(r) /\ j.step \notin {"none", "ended"} /\ j \in JobType /\ pc[r] \in Ended \cup Awaiting \cup {"new", "begin", "fetch", "ready"}
  BY DEF IInv, Running, Steps, TypeOK, JobType, Ended, Awaiting
<1>2. /\ pc[r] \in Awaiting => ~token[r] /\ dir[r]
      /\ pc[r] \notin Awaiting => pc[r] \in Ended /\ outcome[r] = "cancelled"
  BY <1>1, AbandonedWasCancelled DEF RequestInv, JobInv, EndInv, CleanInv, Ended, Awaiting, Sync
<1>3. CASE pc[r] \in Awaiting
  <2>1. /\ k.does = j.does /\ k.name = j.name /\ k.step \notin {"none", "queued"}
    BY <1>3 DEF Works, Onwards, Returned, Running, Steps
  <2>2. Shape(k)
    BY <1>1, <2>1 DEF RequestInv, Shape
  <2>3. JobInv(r)'
    BY <1>1, <1>3, <2>1 DEF RequestInv, JobInv, Awaiting
  <2>4. RouteInv(r)'
    BY <1>1 DEF RequestInv, RouteInv
  <2>5. EndInv(r)' /\ CleanInv(r)'
    BY <1>1, <1>2, <1>3 DEF RequestInv, EndInv, CleanInv, Ended, Awaiting, Sync
  <2> QED
    BY <1>3, <2>2, <2>3, <2>4, <2>5 DEF RequestInv
<1>4. CASE pc[r] \notin Awaiting
  <2>1. \/ k = NoJob
        \/ k.does = j.does /\ k.name = j.name /\ k.step \in Running
    BY <1>4 DEF Works, Onwards, Returned
  <2>2. Shape(k) /\ k.step \notin {"queued", "ended"}
    BY <1>1, <2>1, NoJobType DEF RequestInv, Shape, Running, Steps
  <2>3. JobInv(r)'
    BY <1>2, <1>4, <2>2 DEF JobInv, Ended, Sync
  <2>4. RouteInv(r)'
    BY <1>1 DEF RequestInv, RouteInv
  <2>5. EndInv(r)' /\ CleanInv(r)' /\ StoredInv(r)'
    BY <1>1, <1>2, <1>4 DEF RequestInv, EndInv, CleanInv, StoredInv, Ended, Awaiting, Sync
  <2> QED
    BY <2>2, <2>3, <2>4, <2>5 DEF RequestInv
<1> QED
  BY <1>3, <1>4

FilesType == [Requests -> [Names -> {"none", "partial", "whole"}]]

\* What a step of the thread of r does to its job ...
Moves(r) ==
  /\ job' \in [Requests -> JobType]
  /\ Works(r)
  /\ \A q \in Requests \ {r} : job'[q] = job[q]

\* ... and to the files, the callbacks and the attempts.
Stores(r) ==
  /\ files' \in FilesType
  /\ \A q \in Requests \ {r} : files'[q] = files[q]

Counts(r) ==
  /\ attempt' \in [Requests -> 0 .. Retries]
  /\ waiting' \in [Requests -> BOOLEAN] /\ closes' \in [Requests -> Nat]
  /\ waiting'[r] => waiting[r] \/ ~token[r]
  /\ \A q \in Requests \ {r} : waiting'[q] = waiting[q]

\* A directory is made for a thread that outlives its request, if at all.
MakesDir(r) ==
  \/ userDir' = userDir /\ dir' = dir
  \/ userDir' = TRUE /\ dir' = [dir EXCEPT ![r] = TRUE]

LEMMA MakingKeeps ==
  ASSUME IInv, NEW r \in Requests, MakesDir(r)
  PROVE  /\ userDir' \in BOOLEAN /\ dir' \in [Requests -> BOOLEAN]
         /\ DirsInv'
         /\ \A q \in Requests \ {r} : dir'[q] = dir[q]
         /\ dir[r] => dir'[r] = dir[r]
<1>1. CASE userDir' = userDir /\ dir' = dir
  BY <1>1 DEF IInv, TypeOK, DirsInv
<1>2. CASE userDir' = TRUE /\ dir' = [dir EXCEPT ![r] = TRUE]
  <2>1. dir \in [Requests -> BOOLEAN]
    BY DEF IInv, TypeOK
  <2>2. dir' \in [Requests -> BOOLEAN] /\ dir'[r] /\ \A q \in Requests \ {r} : dir'[q] = dir[q]
    BY <1>2, <2>1
  <2>3. DirsInv'
    BY <1>2, <2>2 DEF DirsInv
  <2> QED
    BY <1>2, <2>1, <2>2, <2>3
<1> QED
  BY <1>1, <1>2 DEF MakesDir

LEMMA ThreadKeeps ==
  ASSUME IInv, NEW r \in Requests, job[r].step \in Running \cup {"queued"},
         Moves(r), Stores(r), Counts(r), MakesDir(r),
         UNCHANGED <<health, engine, pc, route, tried, items, token, listed, outcome, inRow>>,
         pc[r] \in Awaiting => StoredInv(r)'
  PROVE  Kept(r)
<1>1. /\ userDir' \in BOOLEAN /\ dir' \in [Requests -> BOOLEAN]
      /\ DirsInv'
      /\ \A q \in Requests \ {r} : dir'[q] = dir[q]
      /\ dir[r] => dir'[r] = dir[r]
  BY MakingKeeps
<1>2. TypeOK'
  BY <1>1 DEF IInv, TypeOK, HealthTypeOK, Moves, Stores, Counts, JobType, FilesType
<1>3. pc[r] \in Awaiting => dir[r]
  BY DEF IInv, RequestInv, CleanInv, Ended, Sync, Awaiting
<1>4. RequestInv(r)'
  BY <1>1, <1>3, WorkKeeps DEF Moves, Counts
<1>5. \A q \in Requests \ {r} : Spared(q)
  BY <1>1 DEF Spared, Moves, Stores, Counts
<1> QED
  BY <1>1, <1>2, <1>4, <1>5 DEF Kept

\* A step that stores nothing.
LEMMA IdleKeeps ==
  ASSUME IInv, files' = files, UNCHANGED <<attempt, waiting, closes>>, NEW r \in Requests
  PROVE  Stores(r) /\ Counts(r)
BY DEF IInv, TypeOK, FilesType, Stores, Counts

LEMMA StepIsMove ==
  ASSUME IInv, NEW r \in Requests, NEW next \in Running, Step(r, next)
  PROVE  Moves(r) /\ Onwards(r, next)
<1>1. next \in Steps
  BY DEF Running
<1> QED
  BY <1>1, StepMoves DEF IInv, Moves, Works, Onwards

LEMMA ReturnIsMove ==
  ASSUME IInv, NEW r \in Requests, NEW how \in Ends, Return(r, how)
  PROVE  Moves(r) /\ Returned(r, how)
BY ReturnMoves DEF IInv, Moves, Works

LEMMA WriteIsStore ==
  ASSUME IInv, NEW r \in Requests, NEW n \in Names,
         NEW state \in {"none", "partial", "whole"}, Write(r, n, state)
  PROVE  Stores(r) /\ Written(r, n, state)
BY WriteWrites DEF IInv, Stores, FilesType

LEMMA FileState ==
  ASSUME IInv, NEW r \in Requests, NEW n \in Names
  PROVE  files[r][n] \in {"none", "partial", "whole"}
BY DEF IInv, TypeOK

LEMMA FinishIsStore ==
  ASSUME IInv, NEW r \in Requests, NEW n \in Names, Finish(r, n)
  PROVE  /\ Stores(r)
         /\ files[r][n] = "partial" => Written(r, n, "whole")
         /\ files[r][n] # "partial" => Written(r, n, files[r][n])
<1>1. files[r][n] \in {"none", "partial", "whole"}
  BY DEF IInv, TypeOK
<1> QED
  BY <1>1, WriteIsStore DEF Finish, FilesOf, DirOf

LEMMA RemovalIsStore ==
  ASSUME IInv, NEW r \in Requests, RemovePartialFiles(r)
  PROVE  Stores(r)
<1>1. Local \in Names
  BY DownloadsAssumption DEF Names, Local, Out
<1>2. files[r][Local] \in {"none", "partial", "whole"}
  BY <1>1, FileState
<1> QED
  BY <1>1, <1>2, WriteIsStore DEF RemovePartialFiles, FilesOf, DirOf

\* The name of a job is a file of its directory, and what StoredInv says of a job
\* that moves on without storing anything.
LEMMA NameIsFile ==
  ASSUME IInv, NEW r \in Requests
  PROVE  /\ job[r] \in JobType /\ job[r].name \in Names /\ Local \in Names /\ Out \in Names
         /\ items[r] \in 0 .. Items
         /\ \A n \in Sources(r) : n \in Names /\ n # Out
         /\ \A n \in 1 .. job[r].name - 1 : n \in Names
<1>1. items[r] \in 0 .. Items /\ job[r] \in JobType /\ Items \in Nat
  BY DownloadsAssumption DEF IInv, TypeOK, JobType
<1>2. job[r].name \in Names
  BY <1>1 DEF JobType
<1> QED
  BY <1>1, <1>2 DEF Names, Local, Out, Sources

LEMMA StepStores ==
  ASSUME IInv, NEW r \in Requests, job[r].step # "ended", NEW next \in Running \ {"read", "finish"},
         Onwards(r, next), files'[r] = files[r], pc' = pc, items' = items
  PROVE  StoredInv(r)'
BY DEF IInv, RequestInv, StoredInv, Onwards, Running, Sources

LEMMA FailureStores ==
  ASSUME IInv, NEW r \in Requests, pc[r] \in {"local", "stream"}, NEW how \in Ends \ {"ok"},
         Returned(r, how), pc' = pc, items' = items,
         \A n \in 1 .. job[r].name - 1 : files'[r][n] = files[r][n]
  PROVE  StoredInv(r)'
BY DEF IInv, RequestInv, StoredInv, Returned, Awaiting

-----------------------------------------------------------------------------
LEMMA RunKeeps ==
  ASSUME IInv, NEW r \in Requests, Run(r)
  PROVE  Kept(r)
<1>1. PICK next \in {"request", "check", "open"} : Step(r, next)
  BY DEF Run
<1>2. Moves(r) /\ Onwards(r, next)
  BY <1>1, StepIsMove DEF Running, Steps
<1>3. attempt' \in [Requests -> 0 .. Retries]
  <2>1. attempt \in [Requests -> 0 .. Retries] /\ attempt' = [attempt EXCEPT ![r] = 0]
    BY DEF Run, IInv, TypeOK
  <2>2. 0 \in 0 .. Retries
    BY DownloadsAssumption
  <2> QED
    BY <2>1, <2>2
<1>4. Stores(r) /\ Counts(r)
  BY <1>3 DEF Run, IInv, TypeOK, FilesType, Stores, Counts
<1>5. StoredInv(r)'
  BY <1>2, StepStores DEF Run, ThreadUnchanged, Running, Steps
<1> QED
  BY <1>2, <1>4, <1>5, ThreadKeeps DEF Run, ThreadUnchanged, MakesDir

LEMMA RequestKeeps ==
  ASSUME IInv, NEW r \in Requests, Request(r)
  PROVE  Kept(r)
<1>1. job[r].step \in Running /\ Stores(r) /\ Counts(r)
  <2>1. /\ waiting \in [Requests -> BOOLEAN] /\ closes \in [Requests -> Nat]
        /\ attempt' \in [Requests -> 0 .. Retries] /\ files' = files /\ files \in FilesType
    BY DEF Request, IInv, TypeOK, FilesType
  <2>2. \/ UNCHANGED <<waiting, closes>>
        \/ waiting' = [waiting EXCEPT ![r] = FALSE] /\ closes' = [closes EXCEPT ![r] = 0]
    BY DEF Request
  <2>3. /\ waiting' \in [Requests -> BOOLEAN] /\ closes' \in [Requests -> Nat]
        /\ waiting'[r] => waiting[r]
        /\ \A q \in Requests \ {r} : waiting'[q] = waiting[q]
    <3>1. CASE UNCHANGED <<waiting, closes>>
      BY <2>1, <3>1
    <3>2. CASE waiting' = [waiting EXCEPT ![r] = FALSE] /\ closes' = [closes EXCEPT ![r] = 0]
      <4>1. closes' \in [Requests -> Nat]
        BY <2>1, <3>2
      <4> QED
        BY <2>1, <3>2, <4>1, Zenon
    <3> QED
      BY <2>2, <3>1, <3>2
  <2>4. job[r].step \in Running
    BY DEF Request, Doing, Running, Steps
  <2> QED
    BY <2>1, <2>3, <2>4 DEF Stores, Counts
<1>2. CASE \E how \in Ends \ {"ok"} : Return(r, how)
  <2>1. PICK how \in Ends \ {"ok"} : Return(r, how)
    BY <1>2
  <2>2. Moves(r) /\ Returned(r, how)
    BY <2>1, ReturnIsMove
  <2>3. ASSUME pc[r] \in Awaiting PROVE StoredInv(r)'
    <3>1. pc[r] \in {"local", "stream"}
      BY <2>3 DEF Request, Doing, IInv, RequestInv, JobInv, Awaiting
    <3> QED
      BY <2>2, <3>1, FailureStores DEF Request, ThreadUnchanged
  <2> QED
    BY <1>1, <2>2, <2>3, ThreadKeeps DEF Request, ThreadUnchanged, MakesDir
<1>3. CASE Step(r, "register")
  <2>1. Moves(r) /\ Onwards(r, "register")
    BY <1>3, StepIsMove DEF Running, Steps
  <2>2. StoredInv(r)'
    BY <2>1, StepStores DEF Request, Doing, ThreadUnchanged, Running, Steps
  <2> QED
    BY <1>1, <2>1, <2>2, ThreadKeeps DEF Request, ThreadUnchanged, MakesDir
<1> QED
  BY <1>2, <1>3 DEF Request, Ends

LEMMA RegisterKeeps ==
  ASSUME IInv, NEW r \in Requests, Register(r)
  PROVE  Kept(r)
<1>1. Moves(r) /\ Onwards(r, "open")
  BY StepIsMove DEF Register, Running, Steps
<1>2. Stores(r) /\ Counts(r)
  <2>1. /\ waiting \in [Requests -> BOOLEAN] /\ closes \in [Requests -> Nat]
        /\ token[r] \in BOOLEAN
        /\ attempt' \in [Requests -> 0 .. Retries] /\ files' = files /\ files \in FilesType
    BY DEF Register, IInv, TypeOK, FilesType
  <2>2. /\ waiting' = [waiting EXCEPT ![r] = ~token[r]]
        /\ \/ closes' = closes
           \/ closes' = [closes EXCEPT ![r] = closes[r] + 1]
    BY <2>1 DEF Register
  <2>3. closes' \in [Requests -> Nat]
    BY <2>1, <2>2
  <2>4. waiting' \in [Requests -> BOOLEAN] /\ waiting'[r] = ~token[r]
        /\ \A q \in Requests \ {r} : waiting'[q] = waiting[q]
    BY <2>1, <2>2, Zenon
  <2> QED
    BY <2>1, <2>3, <2>4 DEF Stores, Counts
<1>3. StoredInv(r)'
  BY <1>1, StepStores DEF Register, Doing, ThreadUnchanged, Running, Steps
<1> QED
  BY <1>1, <1>2, <1>3, ThreadKeeps DEF Register, Doing, ThreadUnchanged, MakesDir, Running, Steps

LEMMA OpenStreamKeeps ==
  ASSUME IInv, NEW r \in Requests, OpenStream(r)
  PROVE  Kept(r)
<1>1. job[r].step \in Running /\ Counts(r) /\ job[r].name \in Names /\ MakesDir(r)
  BY IdleKeeps, NameIsFile DEF OpenStream, ThreadUnchanged, Doing, Running, Steps, Counts, IInv, TypeOK, MakesDir
<1>2. CASE dir[r]
  <2>1. Write(r, job[r].name, "partial") /\ Step(r, "read")
    BY <1>2 DEF OpenStream, DirOf
  <2>2. Moves(r) /\ Onwards(r, "read") /\ Stores(r) /\ Written(r, job[r].name, "partial")
    BY <1>1, <2>1, StepIsMove, WriteIsStore DEF Running, Steps
  <2>3. ASSUME pc[r] \in Awaiting PROVE StoredInv(r)'
    <3>1. pc[r] \in {"local", "stream"}
      BY <2>3 DEF OpenStream, Doing, IInv, RequestInv, JobInv, Awaiting
    <3>2. \A n \in 1 .. job[r].name - 1 : files'[r][n] = files[r][n]
      BY <1>1, <2>2, NameIsFile DEF Written
    <3> QED
      BY <2>2, <3>1, <3>2 DEF OpenStream, ThreadUnchanged, IInv, RequestInv, StoredInv, Onwards, Written
  <2> QED
    BY <1>1, <2>2, <2>3, ThreadKeeps DEF OpenStream, ThreadUnchanged
<1>3. CASE ~dir[r]
  <2>1. PICK how \in Ends : Return(r, how)
    BY <1>3 DEF OpenStream, DirOf, Ends
  <2>2. Moves(r)
    BY <2>1, ReturnIsMove
  <2>3. pc[r] \notin Awaiting
    BY <1>1, <1>3, AbandonedWasCancelled
  <2>4. files' = files
    BY <1>3 DEF OpenStream, DirOf
  <2>5. Stores(r)
    BY <2>4 DEF IInv, TypeOK, FilesType, Stores
  <2> QED
    BY <1>1, <2>2, <2>3, <2>5, ThreadKeeps DEF OpenStream, ThreadUnchanged
<1> QED
  BY <1>2, <1>3 DEF IInv, TypeOK

LEMMA StreamStopsKeeps ==
  ASSUME IInv, NEW r \in Requests, StreamStops(r)
  PROVE  Kept(r)
<1>1. job[r].step \in Running /\ Counts(r) /\ job[r].name \in Names
  BY IdleKeeps, NameIsFile DEF StreamStops, Running, Steps, Counts, IInv, TypeOK
<1>2. PICK how \in Ends \ {"ok"} : Return(r, how)
  BY DEF StreamStops, Ends
<1>3. Moves(r) /\ Returned(r, how)
  BY <1>2, ReturnIsMove
<1>4. Stores(r) /\ Written(r, job[r].name, "none")
  BY <1>1, WriteIsStore DEF StreamStops
<1>5. ASSUME pc[r] \in Awaiting PROVE StoredInv(r)'
  <2>1. pc[r] \in {"local", "stream"}
    BY <1>5 DEF StreamStops, IInv, RequestInv, JobInv, Awaiting
  <2>2. \A n \in 1 .. job[r].name - 1 : files'[r][n] = files[r][n]
    BY <1>1, <1>4, NameIsFile DEF Written
  <2> QED
    BY <1>3, <2>1, <2>2, FailureStores DEF StreamStops, ThreadUnchanged
<1> QED
  BY <1>1, <1>3, <1>4, <1>5, ThreadKeeps DEF StreamStops, ThreadUnchanged, MakesDir

LEMMA StreamOkKeeps ==
  ASSUME IInv, NEW r \in Requests, StreamOk(r)
  PROVE  Kept(r)
<1>1. /\ job[r].step \in Running /\ Counts(r) /\ job[r].name \in Names
      /\ job[r].does = "stream" /\ job[r].step = "read"
  BY IdleKeeps, NameIsFile DEF StreamOk, Doing, Running, Steps, Counts, IInv, TypeOK
<1>2. Moves(r) /\ Returned(r, "ok")
  BY ReturnIsMove DEF StreamOk, Ends
<1>3. /\ Stores(r)
      /\ files[r][job[r].name] = "partial" => Written(r, job[r].name, "whole")
  BY <1>1, FinishIsStore DEF StreamOk
<1>4. ASSUME pc[r] \in Awaiting PROVE StoredInv(r)'
  <2>1. pc[r] \in {"local", "stream"}
    BY <1>1, <1>4 DEF IInv, RequestInv, JobInv, Awaiting
  <2>2. Written(r, job[r].name, "whole")
    BY <1>1, <1>3, <1>4 DEF IInv, RequestInv, StoredInv
  <2>3. \A n \in 1 .. job[r].name - 1 : files'[r][n] = files[r][n]
    BY <1>1, <2>2, NameIsFile DEF Written
  <2> QED
    BY <1>2, <1>4, <2>1, <2>2, <2>3
       DEF StreamOk, ThreadUnchanged, IInv, RequestInv, StoredInv, Returned, Written
<1> QED
  BY <1>1, <1>2, <1>3, <1>4, ThreadKeeps DEF StreamOk, ThreadUnchanged, MakesDir

LEMMA LocalCheckKeeps ==
  ASSUME IInv, NEW r \in Requests, LocalCheck(r)
  PROVE  Kept(r)
<1>1. job[r].step \in Running /\ Counts(r) /\ Local \in Names
  BY IdleKeeps, NameIsFile DEF LocalCheck, Doing, Running, Steps, Counts, IInv, TypeOK
<1>2. CASE token[r]
  <2>1. Return(r, "cancelled") /\ RemovePartialFiles(r)
    BY <1>2 DEF LocalCheck
  <2>2. Moves(r) /\ Stores(r)
    BY <2>1, ReturnIsMove, RemovalIsStore DEF Ends
  <2>3. pc[r] \notin Awaiting
    BY <1>1, <1>2, AbandonedWasCancelled
  <2> QED
    BY <1>1, <2>2, <2>3, ThreadKeeps DEF LocalCheck, ThreadUnchanged, MakesDir
<1>3. CASE ~token[r]
  <2>1. Step(r, "open") /\ files' = files
    BY <1>3 DEF LocalCheck
  <2>2. Moves(r) /\ Onwards(r, "open") /\ Stores(r)
    BY <2>1, StepIsMove DEF Running, Steps, IInv, TypeOK, FilesType, Stores
  <2>3. StoredInv(r)'
    BY <2>1, <2>2, StepStores DEF LocalCheck, Doing, ThreadUnchanged, Running, Steps
  <2> QED
    BY <1>1, <2>2, <2>3, ThreadKeeps DEF LocalCheck, ThreadUnchanged, MakesDir
<1> QED
  BY <1>2, <1>3 DEF IInv, TypeOK

LEMMA LocalOpenKeeps ==
  ASSUME IInv, NEW r \in Requests, LocalOpen(r)
  PROVE  Kept(r)
<1>1. /\ job[r].step \in Running /\ Counts(r) /\ job[r].name = Local /\ Local \in Names
      /\ job[r].does = "local"
  BY IdleKeeps, NameIsFile
     DEF LocalOpen, Doing, Running, Steps, Counts, IInv, TypeOK, RequestInv, Shape
<1>2. Moves(r) /\ Onwards(r, "read")
  BY StepIsMove DEF LocalOpen, Running, Steps
<1>3. /\ Stores(r)
      /\ \E state \in {"partial", "whole"} : Written(r, Local, state)
  <2>1. PICK state \in {"partial", "whole"} : Write(r, Local, state)
    <3>1. files[r][Local] \in {"none", "partial", "whole"}
      BY <1>1, FileState
    <3> QED
      BY <3>1 DEF LocalOpen, FilesOf, DirOf
  <2> QED
    BY <1>1, <2>1, WriteIsStore
<1>4. ASSUME pc[r] \in Awaiting PROVE StoredInv(r)'
  <2>1. pc[r] = "local"
    BY <1>1, <1>4 DEF IInv, RequestInv, JobInv, Awaiting
  <2> QED
    BY <1>1, <1>2, <1>3, <2>1 DEF LocalOpen, StoredInv, Onwards, Written
<1>5. MakesDir(r)
  BY DEF LocalOpen, MakesDir, DirOf
<1> QED
  BY <1>1, <1>2, <1>3, <1>4, <1>5, ThreadKeeps DEF LocalOpen

LEMMA LocalRenameKeeps ==
  ASSUME IInv, NEW r \in Requests, LocalRename(r)
  PROVE  Kept(r)
<1>1. /\ job[r].step \in Running /\ Counts(r) /\ job[r].name = Local /\ Local \in Names
      /\ job[r].does = "local" /\ job[r].step = "read" /\ job[r] \in JobType
  BY IdleKeeps, NameIsFile
     DEF LocalRename, Doing, Running, Steps, Counts, IInv, TypeOK, RequestInv, Shape
<1>2. Moves(r) /\ Onwards(r, "read")
  BY <1>1 DEF LocalRename, Moves, Works, Onwards, IInv, TypeOK, JobType
<1>3. /\ Stores(r)
      /\ files[r][Local] = "partial" => Written(r, Local, "whole")
      /\ files[r][Local] # "partial" => Written(r, Local, files[r][Local])
  BY <1>1, FinishIsStore DEF LocalRename
<1>4. ASSUME pc[r] \in Awaiting PROVE StoredInv(r)'
  <2>1. pc[r] = "local"
    BY <1>1, <1>4 DEF IInv, RequestInv, JobInv, Awaiting
  <2>2. Written(r, Local, "whole")
    BY <1>1, <1>3, <1>4 DEF IInv, RequestInv, StoredInv
  <2> QED
    BY <1>1, <1>2, <2>1, <2>2 DEF LocalRename, ThreadUnchanged, StoredInv, Onwards, Written
<1> QED
  BY <1>1, <1>2, <1>3, <1>4, ThreadKeeps DEF LocalRename, ThreadUnchanged, MakesDir

LEMMA LocalFinishKeeps ==
  ASSUME IInv, NEW r \in Requests, LocalFinish(r)
  PROVE  Kept(r)
<1>1. /\ job[r].step \in Running /\ Stores(r) /\ Counts(r)
      /\ job[r].does = "local" /\ job[r].step = "read"
  BY IdleKeeps DEF LocalFinish, Doing, Running, Steps
<1>2. Moves(r) /\ Onwards(r, "finish")
  BY StepIsMove DEF LocalFinish, Running, Steps
<1>3. ASSUME pc[r] \in Awaiting PROVE StoredInv(r)'
  <2>1. pc[r] = "local"
    BY <1>1, <1>3 DEF IInv, RequestInv, JobInv, Awaiting
  <2> QED
    BY <1>1, <1>2, <1>3, <2>1
       DEF LocalFinish, ThreadUnchanged, IInv, RequestInv, StoredInv, Onwards
<1> QED
  BY <1>1, <1>2, <1>3, ThreadKeeps DEF LocalFinish, ThreadUnchanged, MakesDir

LEMMA LocalOkKeeps ==
  ASSUME IInv, NEW r \in Requests, LocalOk(r)
  PROVE  Kept(r)
<1>1. /\ job[r].step \in Running /\ Counts(r) /\ job[r].name = Local /\ Local \in Names
      /\ job[r].does = "local" /\ job[r].step = "finish"
  BY IdleKeeps, NameIsFile
     DEF LocalOk, Doing, Running, Steps, Counts, IInv, TypeOK, RequestInv, Shape
<1>2. PICK how \in Ends : Return(r, how)
  BY DEF LocalOk, Ends
<1>3. Moves(r) /\ Returned(r, how)
  BY <1>2, ReturnIsMove
<1>4. /\ Stores(r)
      /\ files[r][Local] = "partial" => Written(r, Local, "whole")
      /\ files[r][Local] # "partial" => Written(r, Local, files[r][Local])
  BY <1>1, FinishIsStore DEF LocalOk
<1>5. ASSUME pc[r] \in Awaiting PROVE StoredInv(r)'
  <2>1. pc[r] = "local"
    BY <1>1, <1>5 DEF IInv, RequestInv, JobInv, Awaiting
  <2>2. Written(r, Local, "whole")
    BY <1>1, <1>4, <1>5 DEF IInv, RequestInv, StoredInv
  <2> QED
    BY <1>1, <1>3, <1>5, <2>1, <2>2 DEF LocalOk, ThreadUnchanged, StoredInv, Returned, Written
<1> QED
  BY <1>1, <1>3, <1>4, <1>5, ThreadKeeps DEF LocalOk, ThreadUnchanged, MakesDir

LEMMA LocalRetryKeeps ==
  ASSUME IInv, NEW r \in Requests, LocalRetry(r)
  PROVE  Kept(r)
<1>1. job[r].step \in Running
  BY DEF LocalRetry, Running, Steps
<1>2. attempt' \in [Requests -> 0 .. Retries]
  <2>1. /\ attempt \in [Requests -> 0 .. Retries] /\ attempt[r] < Retries
        /\ attempt' = [attempt EXCEPT ![r] = attempt[r] + 1]
    BY DEF LocalRetry, IInv, TypeOK
  <2>2. attempt[r] + 1 \in 0 .. Retries
    BY <2>1, DownloadsAssumption
  <2> QED
    BY <2>1, <2>2
<1>3. Stores(r) /\ Counts(r)
  BY <1>2 DEF LocalRetry, IInv, TypeOK, FilesType, Stores, Counts
<1>4. Moves(r) /\ Onwards(r, "check")
  BY StepIsMove DEF LocalRetry, Running, Steps
<1>5. StoredInv(r)'
  BY <1>4, StepStores DEF LocalRetry, ThreadUnchanged, Running, Steps
<1> QED
  BY <1>1, <1>3, <1>4, <1>5, ThreadKeeps DEF LocalRetry, ThreadUnchanged, MakesDir

LEMMA LocalStopsKeeps ==
  ASSUME IInv, NEW r \in Requests, LocalStops(r)
  PROVE  Kept(r)
<1>1. /\ job[r].step \in Running /\ Counts(r) /\ job[r].name = Local /\ Local \in Names
      /\ job[r].does = "local"
  BY IdleKeeps, NameIsFile
     DEF LocalStops, Running, Steps, Counts, IInv, TypeOK, RequestInv, Shape
<1>2. PICK how \in Ends \ {"ok"} : Return(r, how)
  BY DEF LocalStops, Ends
<1>3. Moves(r) /\ Returned(r, how)
  BY <1>2, ReturnIsMove
<1>4. Stores(r)
  BY RemovalIsStore DEF LocalStops
<1>5. ASSUME pc[r] \in Awaiting PROVE StoredInv(r)'
  <2>1. pc[r] = "local"
    BY <1>1, <1>5 DEF IInv, RequestInv, JobInv, Awaiting
  <2> QED
    BY <1>3, <1>5, <2>1 DEF LocalStops, ThreadUnchanged, StoredInv, Returned
<1> QED
  BY <1>1, <1>3, <1>4, <1>5, ThreadKeeps DEF LocalStops, ThreadUnchanged, MakesDir

LEMMA ProcessOpenKeeps ==
  ASSUME IInv, NEW r \in Requests, ProcessOpen(r)
  PROVE  Kept(r)
<1>1. /\ job[r].step \in Running /\ Counts(r) /\ Out \in Names /\ job[r].name = Out
      /\ job[r].does = "process" /\ MakesDir(r)
  BY IdleKeeps, NameIsFile
     DEF ProcessOpen, Doing, Running, Steps, Counts, IInv, TypeOK, RequestInv, Shape,
         MakesDir, DirOf
<1>2. CASE dir[r]
  <2>1. Write(r, Out, "partial") /\ Step(r, "read")
    BY <1>2 DEF ProcessOpen, DirOf
  <2>2. Moves(r) /\ Onwards(r, "read") /\ Stores(r) /\ Written(r, Out, "partial")
    BY <1>1, <2>1, StepIsMove, WriteIsStore DEF Running, Steps
  <2>3. ASSUME pc[r] \in Awaiting PROVE StoredInv(r)'
    <3>1. pc[r] = "process"
      BY <1>1, <2>3 DEF IInv, RequestInv, JobInv, Awaiting
    <3>2. \A n \in Sources(r) : files'[r][n] = files[r][n]
      BY <2>2, NameIsFile DEF Written
    <3>3. \A n \in Sources(r) : files[r][n] = "whole"
      BY <3>1 DEF ProcessOpen, Doing, IInv, RequestInv, StoredInv
    <3> QED
      BY <1>1, <2>2, <3>1, <3>2, <3>3 DEF ProcessOpen, StoredInv, Onwards, Written, Sources
  <2> QED
    BY <1>1, <2>2, <2>3, ThreadKeeps DEF ProcessOpen
<1>3. CASE ~dir[r]
  <2>1. Return(r, "error") /\ files' = files
    BY <1>3 DEF ProcessOpen, DirOf
  <2>2. Moves(r) /\ Stores(r)
    BY <2>1, ReturnIsMove DEF Ends, IInv, TypeOK, FilesType, Stores
  <2>3. pc[r] \notin Awaiting
    BY <1>1, <1>3, AbandonedWasCancelled
  <2> QED
    BY <1>1, <2>2, <2>3, ThreadKeeps DEF ProcessOpen
<1> QED
  BY <1>2, <1>3 DEF IInv, TypeOK

LEMMA ProcessOkKeeps ==
  ASSUME IInv, NEW r \in Requests, ProcessOk(r)
  PROVE  Kept(r)
<1>1. /\ job[r].step \in Running /\ Counts(r) /\ Out \in Names /\ job[r].name = Out
      /\ job[r].does = "process" /\ job[r].step = "read"
  BY IdleKeeps, NameIsFile
     DEF ProcessOk, Doing, Running, Steps, Counts, IInv, TypeOK, RequestInv, Shape
<1>2. CASE files[r][Out] = "partial"
  <2>1. /\ files' = [files EXCEPT ![r] = [NoFiles EXCEPT ![Out] = "whole"]]
        /\ Return(r, "ok")
    BY <1>2 DEF ProcessOk, FilesOf, DirOf
  <2>2. Moves(r) /\ Returned(r, "ok")
    BY <2>1, ReturnIsMove DEF Ends
  <2>3. Stores(r) /\ files'[r][Out] = "whole"
    <3> DEFINE d == [NoFiles EXCEPT ![Out] = "whole"]
    <3>1. d \in [Names -> {"none", "partial", "whole"}] /\ d[Out] = "whole"
      BY <1>1 DEF NoFiles
    <3>2. files \in FilesType /\ files' = [files EXCEPT ![r] = d]
      BY <2>1 DEF IInv, TypeOK, FilesType
    <3> HIDE DEF d
    <3> QED
      BY <3>1, <3>2 DEF FilesType, Stores
  <2>4. ASSUME pc[r] \in Awaiting PROVE StoredInv(r)'
    <3>1. pc[r] = "process"
      BY <1>1, <2>4 DEF IInv, RequestInv, JobInv, Awaiting
    <3> QED
      BY <2>2, <2>3, <2>4, <3>1 DEF ProcessOk, ThreadUnchanged, StoredInv, Returned
  <2> QED
    BY <1>1, <2>2, <2>3, <2>4, ThreadKeeps DEF ProcessOk, ThreadUnchanged, MakesDir
<1>3. CASE files[r][Out] # "partial"
  <2>1. Return(r, "error") /\ files' = files
    BY <1>3 DEF ProcessOk, FilesOf, DirOf
  <2>2. Moves(r) /\ Stores(r)
    BY <2>1, ReturnIsMove DEF Ends, IInv, TypeOK, FilesType, Stores
  <2>3. pc[r] \notin Awaiting
    BY <1>1, <1>3 DEF IInv, RequestInv, StoredInv
  <2> QED
    BY <1>1, <2>2, <2>3, ThreadKeeps DEF ProcessOk, ThreadUnchanged, MakesDir
<1> QED
  BY <1>2, <1>3

LEMMA ProcessFailsKeeps ==
  ASSUME IInv, NEW r \in Requests, ProcessFails(r)
  PROVE  Kept(r)
<1>1. /\ job[r].step \in Running /\ Counts(r) /\ Out \in Names
      /\ job[r].does = "process" /\ job[r].step = "read"
  BY IdleKeeps, NameIsFile
     DEF ProcessFails, Doing, Running, Steps, Counts, IInv, TypeOK
<1>2. PICK how \in Ends : Return(r, how)
  BY DEF ProcessFails, Ends
<1>3. Moves(r) /\ Returned(r, how)
  BY <1>2, ReturnIsMove
<1>4. Stores(r) /\ Written(r, Out, "none")
  BY <1>1, WriteIsStore DEF ProcessFails
<1>5. ASSUME pc[r] \in Awaiting PROVE StoredInv(r)'
  <2>1. pc[r] = "process"
    BY <1>1, <1>5 DEF IInv, RequestInv, JobInv, Awaiting
  <2>2. \A n \in Sources(r) : files'[r][n] = files[r][n]
    BY <1>4, NameIsFile DEF Written
  <2>3. \A n \in Sources(r) : files[r][n] = "whole"
    BY <1>1, <2>1 DEF IInv, RequestInv, StoredInv
  <2> QED
    BY <1>3, <1>5, <2>1, <2>2, <2>3
       DEF ProcessFails, ThreadUnchanged, StoredInv, Returned, Sources
<1> QED
  BY <1>1, <1>3, <1>4, <1>5, ThreadKeeps DEF ProcessFails, ThreadUnchanged, MakesDir

-----------------------------------------------------------------------------
(***************************************************************************)
(* The coroutine.                                                          *)
(***************************************************************************)

\* What a step of the coroutine of r may change besides the disk.
Turns(r) ==
  /\ pc' \in [Requests -> Sync \cup {"new", "begin", "local", "fetch", "stream", "process",
                                     "ready", "over"}]
  /\ route' \in [Requests -> Seq(Providers)]
  /\ tried' \in [Requests -> SUBSET Providers]
  /\ items' \in [Requests -> 0 .. Items]
  /\ job' \in [Requests -> JobType]
  /\ outcome' \in [Requests -> {"", "delivered", "failed", "too large", "cancelled"}]
  /\ \A q \in Requests \ {r} :
       /\ pc'[q] = pc[q] /\ route'[q] = route[q] /\ items'[q] = items[q]
       /\ job'[q] = job[q] /\ outcome'[q] = outcome[q]

\* The disk and the token are left alone.
LEMMA TurnKeeps ==
  ASSUME IInv, NEW r \in Requests, Turns(r), RequestInv(r)',
         UNCHANGED <<engine, attempt, token, waiting, closes, disk>>, HealthTypeOK',
         inRow' \in [Providers -> Nat]
  PROVE  Kept(r)
<1>1. TypeOK'
  BY DEF IInv, TypeOK, Turns, JobType, disk
<1>2. DirsInv'
  BY DEF IInv, DirsInv, disk
<1>3. \A q \in Requests \ {r} : Spared(q)
  BY DEF Spared, Turns, disk
<1> QED
  BY <1>1, <1>2, <1>3 DEF Kept

\* The request is not over, so that its token is not set and its directory exists.
Alive(r) == pc[r] \in {"begin", "local", "fetch", "stream", "process", "ready"}

LEMMA AliveHasDir ==
  ASSUME IInv, NEW r \in Requests, Alive(r)
  PROVE  ~token[r] /\ dir[r] /\ outcome[r] = ""
BY DEF Alive, IInv, RequestInv, EndInv, CleanInv, Ended, Sync

LEMMA PointTypes ==
  ASSUME IInv, NEW r \in Requests
  PROVE  /\ pc \in [Requests -> Sync \cup {"new", "begin", "local", "fetch", "stream",
                                           "process", "ready", "over"}]
         /\ route \in [Requests -> Seq(Providers)]
         /\ tried \in [Requests -> SUBSET Providers]
         /\ items \in [Requests -> 0 .. Items]
         /\ job \in [Requests -> JobType]
         /\ closes \in [Requests -> Nat]
         /\ outcome \in [Requests -> {"", "delivered", "failed", "too large", "cancelled"}]
         /\ 0 \in 0 .. Items /\ <<>> \in Seq(Providers)
<1>1. 0 \in 0 .. Items
  BY DownloadsAssumption
<1>2. <<>> \in Seq(Providers)
  OBVIOUS
<1> QED
  BY <1>1, <1>2 DEF IInv, TypeOK, JobType

\* The engine forgets its providers.
LEMMA ForgetTypes ==
  ASSUME IInv, NEW r \in Requests, NEW n \in 0 .. Items, Forget(r, n)
  PROVE  /\ route' \in [Requests -> Seq(Providers)]
         /\ tried' \in [Requests -> SUBSET Providers]
         /\ items' \in [Requests -> 0 .. Items]
         /\ items'[r] = n
         /\ \A q \in Requests \ {r} : route'[q] = route[q] /\ items'[q] = items[q]
BY PointTypes DEF Forget

LEMMA SubmitTypes ==
  ASSUME IInv, NEW r \in Requests, NEW n \in Names,
         NEW what \in {"stream", "local", "process"}, Submit(r, what, n)
  PROVE  /\ job' \in [Requests -> JobType]
         /\ job'[r] \in JobType
         /\ job'[r].does = what /\ job'[r].name = n /\ job'[r].step = "queued"
         /\ \A q \in Requests \ {r} : job'[q] = job[q]
<1> DEFINE j == [does |-> what, name |-> n, step |-> "queued", how |-> ""]
<1>1. "queued" \in Steps /\ "" \in Ends
  BY DEF Steps, Ends
<1>2. j \in JobType
  BY <1>1, Zenon DEF JobType
<1>3. job' = [job EXCEPT ![r] = j]
  BY DEF Submit
<1>4. job' \in [Requests -> JobType] /\ job'[r] = j /\ \A q \in Requests \ {r} : job'[q] = job[q]
  <2> HIDE DEF j
  <2> QED
    BY <1>2, <1>3, PointTypes
<1>5. j.does = what /\ j.name = n /\ j.step = "queued"
  OBVIOUS
<1> HIDE DEF j
<1> QED
  BY <1>2, <1>4, <1>5

LEMMA GoToTypes ==
  ASSUME IInv, NEW r \in Requests, NEW next, GoTo(r, next),
         next \in Sync \cup {"local", "fetch", "stream", "process", "ready", "begin", "over"}
  PROVE  /\ pc' \in [Requests -> Sync \cup {"new", "begin", "local", "fetch", "stream",
                                            "process", "ready", "over"}]
         /\ pc'[r] = next
         /\ \A q \in Requests \ {r} : pc'[q] = pc[q]
BY PointTypes DEF GoTo

\* A request that is alive ends; a thread that is at work was cancelled.
LEMMA EndTurns ==
  ASSUME IInv, NEW r \in Requests, Alive(r),
         NEW how \in {"delivered", "failed", "too large", "cancelled"}, End(r, how),
         job[r].step \in Running => how = "cancelled",
         closes' = closes, token' = token, waiting' = waiting, dir' = dir
  PROVE  Turns(r) /\ RequestInv(r)'
<1>1. /\ pc'[r] = "set" /\ \A q \in Requests \ {r} : pc'[q] = pc[q]
      /\ pc' \in [Requests -> Sync \cup {"new", "begin", "local", "fetch", "stream",
                                         "process", "ready", "over"}]
  BY PointTypes DEF End, GoTo, Sync
<1>2. /\ outcome' \in [Requests -> {"", "delivered", "failed", "too large", "cancelled"}]
      /\ outcome'[r] = how /\ \A q \in Requests \ {r} : outcome'[q] = outcome[q]
  BY PointTypes DEF End
<1>3. /\ route' \in [Requests -> Seq(Providers)]
      /\ tried' \in [Requests -> SUBSET Providers]
      /\ items' \in [Requests -> 0 .. Items]
      /\ \A q \in Requests \ {r} : route'[q] = route[q] /\ items'[q] = items[q]
  BY PointTypes, ForgetTypes DEF End
<1>4. /\ job' \in [Requests -> JobType]
      /\ job'[r] = IF job[r].step \in {"queued", "ended"} THEN NoJob ELSE job[r]
      /\ \A q \in Requests \ {r} : job'[q] = job[q]
  BY PointTypes, NoJobType DEF End
<1>5. Turns(r)
  BY <1>1, <1>2, <1>3, <1>4, PointTypes DEF Turns
<1>6. job'[r].step \notin {"queued", "ended"} /\ Shape(job'[r])
  BY <1>4, NoJobType DEF IInv, RequestInv, Shape
<1>7. how # "cancelled" => job'[r] = NoJob
  <2>1. job[r] \in JobType /\ Shape(job[r])
    BY PointTypes DEF IInv, RequestInv
  <2> QED
    BY <1>4, <2>1 DEF JobType, Shape, Running
<1>8. JobInv(r)' /\ RouteInv(r)'
  BY <1>1, <1>6 DEF JobInv, RouteInv, Awaiting
<1>9. EndInv(r)'
  BY <1>1, <1>2, <1>7 DEF EndInv, Ended, Sync
<1>10. StoredInv(r)' /\ CleanInv(r)'
  BY <1>1 DEF StoredInv, CleanInv, Awaiting, Ended, Sync
<1> QED
  BY <1>5, <1>6, <1>8, <1>9, <1>10 DEF RequestInv

\* The engine starts its local route: from the beginning, or after its providers.
LEMMA StartLocalTurns ==
  ASSUME IInv, NEW r \in Requests, Alive(r), StartLocal(r),
         items'[r] = 0, Forget(r, 0) \/ UNCHANGED <<route, tried, items>>,
         outcome' = outcome, UNCHANGED <<token, waiting, closes, disk>>
  PROVE  Turns(r) /\ RequestInv(r)'
<1>1. PICK what \in {"stream", "local"} : Submit(r, what, Local)
  BY DEF StartLocal
<1>2. Local \in Names
  BY NameIsFile
<1>3. /\ job' \in [Requests -> JobType]
      /\ job'[r] \in JobType
      /\ job'[r].does = what /\ job'[r].name = Local /\ job'[r].step = "queued"
      /\ \A q \in Requests \ {r} : job'[q] = job[q]
  BY <1>1, <1>2, SubmitTypes
<1>4. /\ pc' \in [Requests -> Sync \cup {"new", "begin", "local", "fetch", "stream",
                                         "process", "ready", "over"}]
      /\ pc'[r] = "local" /\ \A q \in Requests \ {r} : pc'[q] = pc[q]
  BY GoToTypes DEF StartLocal
<1>5. /\ route' \in [Requests -> Seq(Providers)]
      /\ tried' \in [Requests -> SUBSET Providers]
      /\ items' \in [Requests -> 0 .. Items]
      /\ \A q \in Requests \ {r} : route'[q] = route[q] /\ items'[q] = items[q]
  BY PointTypes, ForgetTypes
<1>7. Turns(r)
  BY <1>3, <1>4, <1>5, PointTypes DEF Turns
<1>8. Shape(job'[r])
  BY <1>3, DownloadsAssumption DEF Shape, Local, Out
<1>9. JobInv(r)' /\ RouteInv(r)'
  BY <1>3, <1>4 DEF JobInv, RouteInv, Awaiting
<1>10. EndInv(r)' /\ CleanInv(r)'
  BY <1>4, AliveHasDir DEF EndInv, CleanInv, Ended, Sync, disk
<1>11. StoredInv(r)'
  BY <1>3, <1>4 DEF StoredInv
<1> QED
  BY <1>7, <1>8, <1>9, <1>10, <1>11 DEF RequestInv

\* Onward from a place where no thread is at work.
LEMMA OnwardTurns ==
  ASSUME IInv, NEW r \in Requests, Alive(r), job[r].step \notin Running \cup {"queued"},
         NEW rest \in Seq(Providers), Onward(r, rest),
         UNCHANGED <<token, waiting, closes, disk>>
  PROVE  Turns(r) /\ RequestInv(r)'
<1>1. ASSUME NEW i \in DOMAIN rest,
             route' = [route EXCEPT ![r] = SubSeq(rest, i, Len(rest))],
             tried' = [tried EXCEPT ![r] = tried[r] \cup {rest[i]}],
             items' = [items EXCEPT ![r] = 0],
             GoTo(r, "fetch"), UNCHANGED <<job, outcome>>
      PROVE  Turns(r) /\ RequestInv(r)'
  <2>1. i \in 1 .. Len(rest) /\ Len(rest) \in Nat /\ rest[i] \in Providers
    OBVIOUS
  <2> DEFINE s == SubSeq(rest, i, Len(rest))
  <2>2. s \in Seq(Providers) /\ s # <<>>
    <3>1. s \in Seq(Providers) /\ Len(s) = Len(rest) - i + 1
      BY <2>1, SubSeqProperties
    <3> HIDE DEF s
    <3> QED
      BY <2>1, <3>1
  <2>3. /\ route' \in [Requests -> Seq(Providers)] /\ route'[r] # <<>>
        /\ \A q \in Requests \ {r} : route'[q] = route[q]
    <3>1. route' = [route EXCEPT ![r] = s]
      BY <1>1
    <3> HIDE DEF s
    <3> QED
      BY <2>2, <3>1, PointTypes
  <2>4. /\ tried' \in [Requests -> SUBSET Providers]
        /\ items' \in [Requests -> 0 .. Items] /\ items'[r] = 0
        /\ \A q \in Requests \ {r} : items'[q] = items[q]
    BY <1>1, <2>1, PointTypes
  <2>5. /\ pc' \in [Requests -> Sync \cup {"new", "begin", "local", "fetch", "stream",
                                           "process", "ready", "over"}]
        /\ pc'[r] = "fetch" /\ \A q \in Requests \ {r} : pc'[q] = pc[q]
    BY <1>1, GoToTypes
  <2>6. Turns(r)
    BY <1>1, <2>3, <2>4, <2>5, PointTypes DEF Turns
  <2>7. Shape(job'[r])
    BY <1>1 DEF IInv, RequestInv
  <2>8. job[r].step \in {"none", "ended"}
    BY PointTypes DEF JobType, Running
  <2>9. JobInv(r)' /\ RouteInv(r)'
    BY <1>1, <2>3, <2>5, <2>8 DEF JobInv, RouteInv
  <2>10. EndInv(r)' /\ CleanInv(r)'
    BY <1>1, <2>5, AliveHasDir DEF EndInv, CleanInv, Ended, Sync, disk
  <2>11. StoredInv(r)'
    BY <2>5 DEF StoredInv, Awaiting
  <2> QED
    BY <2>6, <2>7, <2>9, <2>10, <2>11 DEF RequestInv
<1>2. CASE StartLocal(r) /\ Forget(r, 0) /\ UNCHANGED outcome
  <2>1. items'[r] = 0
    BY <1>2, PointTypes, ForgetTypes
  <2> QED
    BY <1>2, <2>1, StartLocalTurns
<1>3. CASE End(r, "failed")
  BY <1>3, EndTurns DEF disk
<1> QED
  BY <1>1, <1>2, <1>3 DEF Onward

\* The engine returns, and what it returns is there.
LEMMA EngineReturnTurns ==
  ASSUME IInv, NEW r \in Requests, Alive(r), NEW n \in 0 .. Items, EngineReturns(r, n),
         \A m \in IF n = 0 THEN {Local} ELSE 1 .. n : files[r][m] = "whole",
         UNCHANGED <<token, waiting, disk, closes, outcome>>
  PROVE  Turns(r) /\ RequestInv(r)'
<1>1. Out \in Names
  BY NameIsFile
<1>2. /\ job' \in [Requests -> JobType]
      /\ job'[r] \in JobType
      /\ job'[r].does = "process" /\ job'[r].name = Out /\ job'[r].step = "queued"
      /\ \A q \in Requests \ {r} : job'[q] = job[q]
  BY <1>1, SubmitTypes DEF EngineReturns
<1>3. /\ pc' \in [Requests -> Sync \cup {"new", "begin", "local", "fetch", "stream",
                                         "process", "ready", "over"}]
      /\ pc'[r] = "process" /\ \A q \in Requests \ {r} : pc'[q] = pc[q]
  BY GoToTypes DEF EngineReturns
<1>4. /\ route' \in [Requests -> Seq(Providers)]
      /\ tried' \in [Requests -> SUBSET Providers]
      /\ items' \in [Requests -> 0 .. Items] /\ items'[r] = n
      /\ \A q \in Requests \ {r} : route'[q] = route[q] /\ items'[q] = items[q]
  BY ForgetTypes DEF EngineReturns
<1>5. Turns(r)
  BY <1>2, <1>3, <1>4, PointTypes DEF Turns
<1>6. Shape(job'[r])
  BY <1>2 DEF Shape
<1>7. JobInv(r)' /\ RouteInv(r)'
  BY <1>2, <1>3 DEF JobInv, RouteInv, Awaiting
<1>8. EndInv(r)' /\ CleanInv(r)'
  BY <1>3, AliveHasDir DEF EndInv, CleanInv, Ended, Sync, disk
<1>9. StoredInv(r)'
  BY <1>2, <1>3, <1>4 DEF StoredInv, Sources, disk
<1> QED
  BY <1>5, <1>6, <1>7, <1>8, <1>9 DEF RequestInv

\* A stream of item n of the provider that is being tried starts.
LEMMA StreamStarts ==
  ASSUME IInv, NEW r \in Requests, pc[r] \in {"fetch", "stream"}, pc'[r] = "stream",
         pc' \in [Requests -> Sync \cup {"new", "begin", "local", "fetch", "stream",
                                         "process", "ready", "over"}],
         \A q \in Requests \ {r} : pc'[q] = pc[q],
         NEW n \in 1 .. Items, Submit(r, "stream", n), n <= items'[r],
         items' \in [Requests -> 0 .. Items], \A q \in Requests \ {r} : items'[q] = items[q],
         \A m \in 1 .. n - 1 : files[r][m] = "whole",
         UNCHANGED <<route, tried, token, waiting, closes, disk, outcome>>
  PROVE  Turns(r) /\ RequestInv(r)'
<1>1. n \in Names /\ n # Out
  BY DownloadsAssumption DEF Names, Out, Local
<1>2. /\ job' \in [Requests -> JobType]
      /\ job'[r] \in JobType
      /\ job'[r].does = "stream" /\ job'[r].name = n /\ job'[r].step = "queued"
      /\ \A q \in Requests \ {r} : job'[q] = job[q]
  BY <1>1, SubmitTypes
<1>3. Turns(r)
  BY <1>2, PointTypes DEF Turns
<1>4. Shape(job'[r])
  BY <1>1, <1>2 DEF Shape
<1>5. n \in 1 .. items'[r]
  BY DownloadsAssumption
<1>6. JobInv(r)'
  BY <1>2, <1>5 DEF JobInv, Awaiting
<1>7. RouteInv(r)'
  BY DEF IInv, RequestInv, RouteInv
<1>8. EndInv(r)' /\ CleanInv(r)'
  BY AliveHasDir DEF Alive, EndInv, CleanInv, Ended, Sync, disk
<1>9. StoredInv(r)'
  BY <1>2 DEF StoredInv, disk
<1> QED
  BY <1>3, <1>4, <1>6, <1>7, <1>8, <1>9 DEF RequestInv

-----------------------------------------------------------------------------
(***************************************************************************)
(* The health records.                                                     *)
(***************************************************************************)
HealthKept == HealthTypeOK' /\ inRow' \in [Providers -> Nat] /\ CountInv'

LEMMA HealthIdle ==
  ASSUME IInv, UNCHANGED <<health, inRow>>
  PROVE  HealthKept
BY DEF IInv, TypeOK, HealthTypeOK, CountInv, HealthKept

\* A failure is counted, or was not written down.
LEMMA FailureCounts ==
  ASSUME IInv, NEW p \in Providers, inRow' = [inRow EXCEPT ![p] = @ + 1],
         RecordFailure(p) \/ UNCHANGED health
  PROVE  HealthKept
<1>1. /\ health \in [Providers -> [failures : Nat, cooling : BOOLEAN]]
      /\ inRow \in [Providers -> Nat] /\ CountInv
  BY DEF IInv, TypeOK, HealthTypeOK
<1>2. inRow' \in [Providers -> Nat] /\ inRow'[p] = inRow[p] + 1
      /\ \A x \in Providers \ {p} : inRow'[x] = inRow[x]
  BY <1>1
<1>3. CASE UNCHANGED health
  BY <1>1, <1>2, <1>3 DEF HealthKept, HealthTypeOK, CountInv
<1>4. CASE RecordFailure(p)
  <2> DEFINE cools == health[p].cooling \/ health[p].failures + 1 >= Threshold
             failed == [failures |-> health[p].failures + 1, cooling |-> cools]
  <2>1. \A x \in Providers : health[x].failures \in Nat /\ health[x].cooling \in BOOLEAN
    BY <1>1
  <2>4. cools \in BOOLEAN /\ health[p].failures + 1 \in Nat
    BY <2>1
  <2>5. health' = [health EXCEPT ![p] = failed]
    BY <1>1, <1>4 DEF RecordFailure
  <2>6. /\ failed \in [failures : Nat, cooling : BOOLEAN]
        /\ failed.failures = health[p].failures + 1 /\ failed.cooling = cools
    BY <2>4
  <2>2. /\ health' \in [Providers -> [failures : Nat, cooling : BOOLEAN]]
        /\ \A x \in Providers :
             /\ x # p => health'[x] = health[x]
             /\ x = p => /\ health'[x].failures = health[x].failures + 1
                         /\ health'[x].cooling <=>
                              health[x].cooling \/ health[x].failures + 1 >= Threshold
    <3> HIDE DEF failed
    <3> QED
      BY <1>1, <2>5, <2>6
  <2>3. CountInv'
    BY <1>1, <1>2, <2>1, <2>2, HealthAssumption DEF CountInv
  <2> QED
    BY <1>2, <2>2, <2>3 DEF HealthKept, HealthTypeOK
<1> QED
  BY <1>3, <1>4

\* A success clears both counts.
LEMMA SuccessClears ==
  ASSUME IInv, NEW p \in Providers, inRow' = [inRow EXCEPT ![p] = 0], RecordSuccess(p)
  PROVE  HealthKept
<1>1. /\ health \in [Providers -> [failures : Nat, cooling : BOOLEAN]]
      /\ inRow \in [Providers -> Nat] /\ CountInv
  BY DEF IInv, TypeOK, HealthTypeOK
<1>2. /\ health' \in [Providers -> [failures : Nat, cooling : BOOLEAN]]
      /\ \A x \in Providers :
           /\ x # p => health'[x] = health[x]
           /\ x = p => health'[x].failures = 0 /\ health'[x].cooling = FALSE
  BY <1>1 DEF RecordSuccess
<1>3. CountInv' /\ inRow' \in [Providers -> Nat]
  <2>1. inRow' \in [Providers -> Nat] /\ inRow'[p] = 0
        /\ \A x \in Providers \ {p} : inRow'[x] = inRow[x]
    BY <1>1
  <2> QED
    BY <1>1, <1>2, <2>1 DEF CountInv
<1> QED
  BY <1>2, <1>3 DEF HealthKept, HealthTypeOK

LEMMA CoolingEnds ==
  ASSUME IInv, NEW p \in Providers, CoolDownEnds(p), UNCHANGED inRow
  PROVE  HealthKept
<1>1. /\ health \in [Providers -> [failures : Nat, cooling : BOOLEAN]]
      /\ inRow \in [Providers -> Nat] /\ CountInv
  BY DEF IInv, TypeOK, HealthTypeOK
<1>2. /\ health' \in [Providers -> [failures : Nat, cooling : BOOLEAN]]
      /\ \A x \in Providers :
           /\ x # p => health'[x] = health[x]
           /\ x = p => health'[x].failures = health[x].failures /\ health'[x].cooling = FALSE
  BY <1>1 DEF CoolDownEnds
<1>3. CountInv'
  BY <1>1, <1>2 DEF CountInv
<1> QED
  BY <1>1, <1>2, <1>3 DEF HealthKept, HealthTypeOK

-----------------------------------------------------------------------------
(***************************************************************************)
(* The steps of the coroutine.                                             *)
(***************************************************************************)
LEMMA OrdersAreSequences ==
  ASSUME NEW order \in Orders
  PROVE  order \in Seq(Providers)
<1>1. PICK n \in 0 .. Len(Candidates) : order \in [1 .. n -> Providers]
  BY DEF Orders
<1>2. n \in Nat
  BY HealthAssumption
<1> QED
  BY <1>1, <1>2

\* The provider that is being tried has failed.
LEMMA ProviderFailsTurns ==
  ASSUME IInv, NEW r \in Requests, pc[r] \in {"fetch", "stream"},
         job[r].step \notin Running \cup {"queued"}, ProviderFails(r),
         UNCHANGED <<token, waiting, closes, disk>>
  PROVE  HealthKept /\ Turns(r) /\ RequestInv(r)'
<1> DEFINE p == Head(route[r])
<1>1. route[r] \in Seq(Providers) /\ route[r] # <<>> /\ Alive(r)
  BY DEF IInv, TypeOK, RequestInv, RouteInv, Alive
<1>2. Tail(route[r]) \in Seq(Providers)
  BY <1>1
<1>3. inRow' = [inRow EXCEPT ![p] = @ + 1] /\ p \in Providers
  BY <1>1 DEF ProviderFails
<1>4. RecordFailure(p) \/ UNCHANGED health
  BY DEF ProviderFails
<1>5. HealthKept
  BY <1>3, <1>4, FailureCounts
<1>6. CASE Onward(r, Tail(route[r]))
  BY <1>1, <1>2, <1>5, <1>6, OnwardTurns
<1>7. CASE End(r, "failed")
  BY <1>1, <1>5, <1>7, EndTurns DEF disk
<1> QED
  BY <1>6, <1>7 DEF ProviderFails

LEMMA BeginDownloadKeeps ==
  ASSUME IInv, NEW r \in Requests, BeginDownload(r)
  PROVE  Kept(r) /\ HealthKept
<1>1. Alive(r) /\ items[r] = 0 /\ job[r].step \notin Running \cup {"queued"}
  BY NoJobType DEF BeginDownload, At, Alive, IInv, RequestInv, RouteInv, JobInv, Running
<1>2. UNCHANGED <<engine, attempt, token, waiting, closes, disk>> /\ HealthKept
  BY HealthIdle DEF BeginDownload
<1>3. Turns(r) /\ RequestInv(r)'
  <2>1. CASE StartLocal(r) /\ UNCHANGED <<route, tried, items, outcome>>
    BY <1>1, <1>2, <2>1, StartLocalTurns
  <2>2. CASE \E order \in Orders : Onward(r, order)
    BY <1>1, <1>2, <2>2, OrdersAreSequences, OnwardTurns
  <2>3. CASE End(r, "failed")
    BY <1>1, <1>2, <2>3, EndTurns DEF disk
  <2> QED
    BY <2>1, <2>2, <2>3 DEF BeginDownload
<1> QED
  BY <1>2, <1>3, TurnKeeps DEF HealthKept

LEMMA FetchOkKeeps ==
  ASSUME IInv, NEW r \in Requests, FetchOk(r)
  PROVE  Kept(r) /\ HealthKept
<1>1. pc[r] = "fetch"
  BY DEF FetchOk, At
<1>2. UNCHANGED <<engine, attempt, token, waiting, closes, disk>> /\ HealthKept
  BY HealthIdle DEF FetchOk
<1>3. PICK n \in 1 .. Items : items' = [items EXCEPT ![r] = n]
  BY DEF FetchOk
<1>4. /\ items' \in [Requests -> 0 .. Items] /\ items'[r] = n
      /\ \A q \in Requests \ {r} : items'[q] = items[q]
  <2>1. n \in 0 .. Items
    BY DownloadsAssumption
  <2> QED
    BY <1>3, <2>1, PointTypes
<1>5. /\ pc' \in [Requests -> Sync \cup {"new", "begin", "local", "fetch", "stream",
                                         "process", "ready", "over"}]
      /\ pc'[r] = "stream" /\ \A q \in Requests \ {r} : pc'[q] = pc[q]
  BY GoToTypes DEF FetchOk
<1>6. 1 \in 1 .. Items /\ 1 <= n
  BY DownloadsAssumption
<1>7. Submit(r, "stream", 1) /\ UNCHANGED <<route, tried, outcome>>
  BY DEF FetchOk
<1>8. \A m \in 1 .. 1 - 1 : files[r][m] = "whole"
  OBVIOUS
<1>9. Turns(r) /\ RequestInv(r)'
  BY <1>1, <1>2, <1>4, <1>5, <1>6, <1>7, <1>8, StreamStarts
<1> QED
  BY <1>2, <1>9, TurnKeeps DEF HealthKept

LEMMA FetchFailsKeeps ==
  ASSUME IInv, NEW r \in Requests, FetchFails(r)
  PROVE  Kept(r) /\ HealthKept
<1>1. pc[r] = "fetch" /\ job[r].step \notin Running \cup {"queued"}
  BY DEF FetchFails, At, IInv, RequestInv, JobInv, Running
<1>2. UNCHANGED <<engine, attempt, token, waiting, closes, disk>>
  BY DEF FetchFails
<1>3. HealthKept /\ Turns(r) /\ RequestInv(r)'
  BY <1>1, <1>2, ProviderFailsTurns DEF FetchFails
<1> QED
  BY <1>2, <1>3, TurnKeeps DEF HealthKept

LEMMA StreamEndsKeeps ==
  ASSUME IInv, NEW r \in Requests, StreamEnds(r)
  PROVE  Kept(r) /\ HealthKept
<1>1. /\ pc[r] = "stream" /\ job[r].step = "ended" /\ Alive(r)
      /\ job[r].name \in 1 .. items[r] /\ items[r] \in 0 .. Items /\ Items \in Nat
  BY PointTypes, DownloadsAssumption DEF StreamEnds, At, Alive, IInv, RequestInv, JobInv
<1>2. UNCHANGED <<engine, attempt, token, waiting, closes, disk>>
  BY DEF StreamEnds
<1>3. job[r].step \notin Running \cup {"queued"}
  BY <1>1 DEF Running
<1>4. job[r].how = "ok" => \A m \in 1 .. job[r].name : files[r][m] = "whole"
  BY <1>1 DEF IInv, RequestInv, StoredInv
<1>5. CASE /\ job[r].how = "ok" /\ job[r].name < items[r]
           /\ Submit(r, "stream", job[r].name + 1)
           /\ UNCHANGED <<health, pc, route, tried, items, outcome, inRow>>
  <2> DEFINE n == job[r].name + 1
  <2>1. n \in 1 .. Items /\ n <= items'[r]
    BY <1>1, <1>5
  <2>2. \A m \in 1 .. n - 1 : files[r][m] = "whole"
    BY <1>1, <1>4, <1>5
  <2>3. Turns(r) /\ RequestInv(r)'
    <3>1. Submit(r, "stream", n)
      BY <1>5
    <3> HIDE DEF n
    <3> QED
      BY <1>1, <1>2, <1>5, <2>1, <2>2, <3>1, PointTypes, StreamStarts
  <2> QED
    BY <1>2, <1>5, <2>3, HealthIdle, TurnKeeps DEF HealthKept
<1>6. CASE job[r].how = "ok" /\ job[r].name = items[r] /\ ProviderServes(r)
  <2>1. CASE /\ RecordSuccess(Head(route[r]))
             /\ inRow' = [inRow EXCEPT ![Head(route[r])] = 0]
             /\ EngineReturns(r, items[r])
             /\ UNCHANGED outcome
    <3>1. HealthKept
      <4>1. Head(route[r]) \in Providers
        <5>1. route[r] \in Seq(Providers) /\ route[r] # <<>>
          BY <1>1 DEF IInv, TypeOK, RequestInv, RouteInv
        <5> QED
          BY <5>1
      <4> QED
        BY <2>1, <4>1, SuccessClears
    <3>2. \A m \in IF items[r] = 0 THEN {Local} ELSE 1 .. items[r] : files[r][m] = "whole"
      BY <1>1, <1>4, <1>6
    <3>3. Turns(r) /\ RequestInv(r)'
      BY <1>1, <1>2, <2>1, <3>2, EngineReturnTurns
    <3> QED
      BY <1>2, <3>1, <3>3, TurnKeeps DEF HealthKept
  <2>2. CASE ProviderFails(r)
    <3>1. HealthKept /\ Turns(r) /\ RequestInv(r)'
      BY <1>1, <1>2, <1>3, <2>2, ProviderFailsTurns
    <3> QED
      BY <1>2, <3>1, TurnKeeps DEF HealthKept
  <2> QED
    BY <1>6, <2>1, <2>2 DEF ProviderServes
<1>7. CASE ProviderFails(r)
  <2>1. HealthKept /\ Turns(r) /\ RequestInv(r)'
    BY <1>1, <1>2, <1>3, <1>7, ProviderFailsTurns
  <2> QED
    BY <1>2, <2>1, TurnKeeps DEF HealthKept
<1>8. CASE End(r, "too large") /\ UNCHANGED <<health, inRow>>
  <2>1. Turns(r) /\ RequestInv(r)'
    BY <1>1, <1>2, <1>3, <1>8, EndTurns DEF disk
  <2> QED
    BY <1>2, <1>8, <2>1, HealthIdle, TurnKeeps DEF HealthKept
<1> QED
  BY <1>5, <1>6, <1>7, <1>8 DEF StreamEnds

LEMMA LocalEndsKeeps ==
  ASSUME IInv, NEW r \in Requests, LocalEnds(r)
  PROVE  Kept(r) /\ HealthKept
<1>1. /\ pc[r] = "local" /\ job[r].step = "ended" /\ Alive(r)
      /\ job[r].step \notin Running \cup {"queued"}
  BY DEF LocalEnds, At, Alive, Running
<1>2. UNCHANGED <<engine, attempt, token, waiting, closes, disk>> /\ HealthKept
  BY HealthIdle DEF LocalEnds
<1>3. CASE job[r].how = "ok" /\ EngineReturns(r, 0) /\ UNCHANGED outcome
  <2>1. files[r][Local] = "whole"
    BY <1>1, <1>3 DEF IInv, RequestInv, StoredInv, JobInv
  <2>2. \A m \in IF 0 = 0 THEN {Local} ELSE 1 .. 0 : files[r][m] = "whole"
    BY <2>1
  <2>3. Turns(r) /\ RequestInv(r)'
    BY <1>1, <1>2, <1>3, <2>2, PointTypes, EngineReturnTurns
  <2> QED
    BY <1>2, <2>3, TurnKeeps DEF HealthKept
<1>4. CASE \E order \in Orders : Onward(r, order)
  <2>1. Turns(r) /\ RequestInv(r)'
    BY <1>1, <1>2, <1>4, OrdersAreSequences, OnwardTurns
  <2> QED
    BY <1>2, <2>1, TurnKeeps DEF HealthKept
<1>5. ASSUME NEW how \in {"failed", "too large"}, End(r, how)
      PROVE  Kept(r)
  <2>1. Turns(r) /\ RequestInv(r)'
    BY <1>1, <1>2, <1>5, EndTurns DEF disk
  <2> QED
    BY <1>2, <2>1, TurnKeeps DEF HealthKept
<1> QED
  BY <1>2, <1>3, <1>4, <1>5 DEF LocalEnds

LEMMA ProcessEndsKeeps ==
  ASSUME IInv, NEW r \in Requests, ProcessEnds(r)
  PROVE  Kept(r) /\ HealthKept
<1>1. /\ pc[r] = "process" /\ job[r].step = "ended" /\ Alive(r)
      /\ job[r].step \notin Running
  BY DEF ProcessEnds, At, Alive, Running
<1>2. UNCHANGED <<engine, attempt, token, waiting, closes, disk>> /\ HealthKept
  BY HealthIdle DEF ProcessEnds
<1>3. CASE GoTo(r, "ready") /\ UNCHANGED <<route, tried, items, job, outcome>>
  <2>1. /\ pc' \in [Requests -> Sync \cup {"new", "begin", "local", "fetch", "stream",
                                           "process", "ready", "over"}]
        /\ pc'[r] = "ready" /\ \A q \in Requests \ {r} : pc'[q] = pc[q]
    BY <1>3, GoToTypes
  <2>2. Turns(r)
    BY <1>2, <1>3, <2>1, PointTypes DEF Turns
  <2>3. Shape(job'[r]) /\ JobInv(r)' /\ RouteInv(r)'
    BY <1>1, <1>3, <2>1 DEF IInv, RequestInv, JobInv, RouteInv
  <2>4. EndInv(r)' /\ CleanInv(r)'
    BY <1>1, <1>2, <1>3, <2>1, AliveHasDir DEF EndInv, CleanInv, Ended, Sync, disk
  <2>5. StoredInv(r)'
    BY <1>1, <1>2, <1>3, <2>1 DEF IInv, RequestInv, StoredInv, Sources, Awaiting, disk
  <2>6. RequestInv(r)'
    BY <2>3, <2>4, <2>5 DEF RequestInv
  <2> QED
    BY <1>2, <2>2, <2>6, TurnKeeps DEF HealthKept
<1>4. CASE End(r, "failed")
  <2>1. Turns(r) /\ RequestInv(r)'
    BY <1>1, <1>2, <1>4, EndTurns DEF disk
  <2> QED
    BY <1>2, <2>1, TurnKeeps DEF HealthKept
<1> QED
  BY <1>2, <1>3, <1>4 DEF ProcessEnds

LEMMA DeliverKeeps ==
  ASSUME IInv, NEW r \in Requests, Deliver(r)
  PROVE  Kept(r) /\ HealthKept
<1>1. Alive(r) /\ job[r].step \notin Running /\ End(r, "delivered")
  BY DEF Deliver, At, Alive, IInv, RequestInv, JobInv, Running
<1>2. UNCHANGED <<engine, attempt, token, waiting, closes, disk>> /\ HealthKept
  BY HealthIdle DEF Deliver
<1>3. Turns(r) /\ RequestInv(r)'
  BY <1>1, <1>2, EndTurns DEF disk
<1> QED
  BY <1>2, <1>3, TurnKeeps DEF HealthKept

LEMMA CancelKeeps ==
  ASSUME IInv, NEW r \in Requests, Cancel(r)
  PROVE  Kept(r) /\ HealthKept
<1>1. Alive(r) /\ End(r, "cancelled")
  BY DEF Cancel, Alive
<1>2. UNCHANGED <<engine, attempt, token, waiting, closes, disk>> /\ HealthKept
  BY HealthIdle DEF Cancel
<1>3. Turns(r) /\ RequestInv(r)'
  BY <1>1, <1>2, EndTurns DEF disk
<1> QED
  BY <1>2, <1>3, TurnKeeps DEF HealthKept

LEMMA CreateDirsKeeps ==
  ASSUME IInv, NEW r \in Requests, CreateDirs(r)
  PROVE  Kept(r) /\ HealthKept
<1>1. pc[r] = "new" /\ UNCHANGED <<health, engine, route, tried, items, attempt, job, token,
                                   waiting, closes, files, listed, outcome, inRow>>
  BY DEF CreateDirs, At
<1>2. HealthKept
  BY <1>1, HealthIdle
<1>3. /\ pc' \in [Requests -> Sync \cup {"new", "begin", "local", "fetch", "stream",
                                         "process", "ready", "over"}]
      /\ pc'[r] = "begin" /\ \A q \in Requests \ {r} : pc'[q] = pc[q]
  BY GoToTypes DEF CreateDirs
<1>4. MakesDir(r) /\ dir'[r]
  BY DEF CreateDirs, MakesDir, DirOf, IInv, TypeOK
<1>5. /\ userDir' \in BOOLEAN /\ dir' \in [Requests -> BOOLEAN]
      /\ DirsInv'
      /\ \A q \in Requests \ {r} : dir'[q] = dir[q]
  BY <1>4, MakingKeeps
<1>6. TypeOK'
  BY <1>1, <1>2, <1>3, <1>5 DEF IInv, TypeOK, HealthKept, HealthTypeOK
<1>7. RequestInv(r)'
  <2>1. job[r] = NoJob /\ Shape(job'[r]) /\ RouteInv(r)'
    BY <1>1, <1>3 DEF IInv, RequestInv, JobInv, RouteInv
  <2>2. JobInv(r)'
    BY <1>1, <1>3, <2>1, NoJobType DEF JobInv
  <2>3. EndInv(r)' /\ CleanInv(r)' /\ StoredInv(r)'
    BY <1>1, <1>3, <1>4
       DEF IInv, RequestInv, EndInv, CleanInv, StoredInv, Ended, Sync, Awaiting
  <2> QED
    BY <2>1, <2>2, <2>3 DEF RequestInv
<1>8. \A q \in Requests \ {r} : Spared(q)
  BY <1>1, <1>3, <1>5 DEF Spared
<1> QED
  BY <1>2, <1>5, <1>6, <1>7, <1>8 DEF Kept

\* The finally block: from one of its steps to the next, with the job left alone.
LEMMA FinallyKeeps ==
  ASSUME IInv, NEW r \in Requests, pc[r] \in Sync,
         NEW next \in Ended \ {"set"}, GoTo(r, next),
         TypeOK', DirsInv',
         UNCHANGED <<route, items, job, outcome>>,
         \A q \in Requests \ {r} :
           /\ token'[q] = token[q] /\ waiting'[q] = waiting[q] /\ dir'[q] = dir[q]
           /\ files'[q] = files[q] /\ listed'[q] = listed[q],
         token'[r],
         next # "call" => ~waiting'[r],
         outcome[r] # "cancelled" =>
           /\ next = "remove" => \A n \in Names : files'[r][n] # "none" => n \in listed'[r]
           /\ next = "rmdir" => files'[r] = NoFiles
           /\ next = "over" => ~dir'[r] /\ files'[r] = NoFiles
  PROVE  Kept(r)
<1>1. pc'[r] = next /\ \A q \in Requests \ {r} : pc'[q] = pc[q]
  BY GoToTypes DEF Ended
<1>2. /\ job[r].step \notin {"queued", "ended"} /\ Shape(job[r])
      /\ outcome[r] # "cancelled" => job[r] = NoJob
  BY DEF IInv, RequestInv, JobInv, EndInv, Ended, Sync, Awaiting
<1>3. JobInv(r)' /\ RouteInv(r)' /\ StoredInv(r)'
  BY <1>1, <1>2 DEF JobInv, RouteInv, StoredInv, Ended, Sync, Awaiting
<1>4. EndInv(r)' /\ CleanInv(r)'
  BY <1>1, <1>2 DEF EndInv, CleanInv, Ended, Sync
<1>5. RequestInv(r)'
  BY <1>2, <1>3, <1>4 DEF RequestInv
<1> QED
  BY <1>1, <1>5 DEF Kept, Spared

\* What is there when a step of the finally block is taken.
LEMMA FinallyHas ==
  ASSUME IInv, NEW r \in Requests, pc[r] \in Sync
  PROVE  /\ pc[r] # "set" => token[r]
         /\ pc[r] \notin {"set", "call"} => ~waiting[r]
         /\ outcome[r] # "cancelled" =>
              /\ pc[r] = "remove" => \A n \in Names : files[r][n] # "none" => n \in listed[r]
              /\ pc[r] = "rmdir" => files[r] = NoFiles
BY DEF IInv, RequestInv, EndInv, CleanInv, Ended

LEMMA SetFlagKeeps ==
  ASSUME IInv, NEW r \in Requests, SetFlag(r)
  PROVE  Kept(r)
<1>1. TypeOK' /\ token'[r] /\ \A q \in Requests \ {r} : token'[q] = token[q]
  <2>1. /\ token' \in [Requests -> BOOLEAN] /\ token'[r]
        /\ \A q \in Requests \ {r} : token'[q] = token[q]
    BY DEF SetFlag, IInv, TypeOK
  <2>2. pc' \in [Requests -> Sync \cup {"new", "begin", "local", "fetch", "stream",
                                        "process", "ready", "over"}]
    BY GoToTypes DEF SetFlag, Sync
  <2> QED
    BY <2>1, <2>2 DEF SetFlag, IInv, TypeOK, HealthTypeOK, disk
<1>2. DirsInv'
  BY DEF SetFlag, IInv, DirsInv, disk
<1> QED
  BY <1>1, <1>2, FinallyKeeps DEF SetFlag, Ended, Sync, disk

LEMMA RunCallbacksKeeps ==
  ASSUME IInv, NEW r \in Requests, RunCallbacks(r)
  PROVE  Kept(r)
<1>1. /\ TypeOK' /\ ~waiting'[r] /\ token'[r]
      /\ \A q \in Requests \ {r} : waiting'[q] = waiting[q]
  <2>1. /\ waiting' \in [Requests -> BOOLEAN] /\ ~waiting'[r]
        /\ \A q \in Requests \ {r} : waiting'[q] = waiting[q]
        /\ closes' \in [Requests -> Nat]
    <3>1. /\ waiting \in [Requests -> BOOLEAN] /\ closes \in [Requests -> Nat]
          /\ waiting' = [waiting EXCEPT ![r] = FALSE]
          /\ closes' = [closes EXCEPT ![r] = IF waiting[r] THEN closes[r] + 1 ELSE closes[r]]
      BY DEF RunCallbacks, IInv, TypeOK
    <3> QED
      BY <3>1
  <2>2. pc' \in [Requests -> Sync \cup {"new", "begin", "local", "fetch", "stream",
                                        "process", "ready", "over"}]
    BY GoToTypes DEF RunCallbacks, Sync
  <2>3. token'[r]
    BY FinallyHas DEF RunCallbacks, Sync
  <2> QED
    BY <2>1, <2>2, <2>3 DEF RunCallbacks, IInv, TypeOK, HealthTypeOK, disk
<1>2. DirsInv'
  BY DEF RunCallbacks, IInv, DirsInv, disk
<1> QED
  BY <1>1, <1>2, FinallyKeeps DEF RunCallbacks, Ended, Sync, disk

LEMMA ListChildrenKeeps ==
  ASSUME IInv, NEW r \in Requests, ListChildren(r)
  PROVE  Kept(r)
<1> DEFINE found == {n \in Names : files[r][n] # "none"}
<1>1. listed' = [listed EXCEPT ![r] = found] /\ found \subseteq Names
  BY DEF ListChildren, FilesOf, DirOf
<1>2. /\ listed' \in [Requests -> SUBSET Names] /\ listed'[r] = found
      /\ \A q \in Requests \ {r} : listed'[q] = listed[q]
  <2> HIDE DEF found
  <2> QED
    BY <1>1 DEF IInv, TypeOK
<1>3. pc' \in [Requests -> Sync \cup {"new", "begin", "local", "fetch", "stream",
                                      "process", "ready", "over"}]
  BY GoToTypes DEF ListChildren, Sync
<1>4. TypeOK' /\ DirsInv'
  BY <1>2, <1>3 DEF ListChildren, IInv, TypeOK, HealthTypeOK, DirsInv
<1>5. token[r] /\ ~waiting[r]
  BY FinallyHas DEF ListChildren, Sync
<1> QED
  BY <1>2, <1>4, <1>5, FinallyKeeps DEF ListChildren, Ended, Sync

LEMMA RemoveChildrenKeeps ==
  ASSUME IInv, NEW r \in Requests, RemoveChildren(r)
  PROVE  Kept(r)
<1> DEFINE left == [n \in Names |-> IF n \in listed[r] THEN "none" ELSE files[r][n]]
<1>1. files' = [files EXCEPT ![r] = left] /\ left \in [Names -> {"none", "partial", "whole"}]
  BY DEF RemoveChildren, DirOf, IInv, TypeOK
<1>2. /\ files' \in FilesType /\ files'[r] = left
      /\ \A q \in Requests \ {r} : files'[q] = files[q]
  <2> HIDE DEF left
  <2> QED
    BY <1>1 DEF IInv, TypeOK, FilesType
<1>3. /\ listed' \in [Requests -> SUBSET Names]
      /\ \A q \in Requests \ {r} : listed'[q] = listed[q]
  BY DEF RemoveChildren, IInv, TypeOK
<1>4. pc' \in [Requests -> Sync \cup {"new", "begin", "local", "fetch", "stream",
                                      "process", "ready", "over"}]
  BY GoToTypes DEF RemoveChildren, Sync
<1>5. TypeOK' /\ DirsInv'
  BY <1>2, <1>3, <1>4 DEF RemoveChildren, IInv, TypeOK, HealthTypeOK, DirsInv, FilesType
<1>6. /\ token[r] /\ ~waiting[r]
      /\ outcome[r] # "cancelled" => \A n \in Names : files[r][n] # "none" => n \in listed[r]
  BY FinallyHas DEF RemoveChildren, Sync
<1>7. outcome[r] # "cancelled" => left = NoFiles
  BY <1>6 DEF NoFiles
<1> QED
  BY <1>2, <1>3, <1>5, <1>6, <1>7, FinallyKeeps DEF RemoveChildren, Ended, Sync

LEMMA RemoveDirsKeeps ==
  ASSUME IInv, NEW r \in Requests, RemoveDirs(r)
  PROVE  Kept(r)
<1>1. /\ dir' \in [Requests -> BOOLEAN] /\ \A q \in Requests \ {r} : dir'[q] = dir[q]
      /\ files[r] = NoFiles => ~dir'[r]
  BY DEF RemoveDirs, DirOf, FilesOf, IInv, TypeOK
<1>2. userDir' = (\E q \in Requests : dir'[q])
  BY DEF RemoveDirs
<1>3. DirsInv' /\ userDir' \in BOOLEAN
  BY <1>2 DEF DirsInv
<1>4. pc' \in [Requests -> Sync \cup {"new", "begin", "local", "fetch", "stream",
                                      "process", "ready", "over"}]
  BY GoToTypes DEF RemoveDirs, Sync
<1>5. TypeOK'
  BY <1>1, <1>3, <1>4 DEF RemoveDirs, IInv, TypeOK, HealthTypeOK
<1>6. token[r] /\ ~waiting[r] /\ (outcome[r] # "cancelled" => files[r] = NoFiles)
  BY FinallyHas DEF RemoveDirs, Sync
<1> QED
  BY <1>1, <1>3, <1>5, <1>6, FinallyKeeps DEF RemoveDirs, Ended, Sync

-----------------------------------------------------------------------------
(***************************************************************************)
(* The theorems.                                                           *)
(***************************************************************************)
LEMMA InitHolds == Init => IInv
<1> SUFFICES ASSUME Init PROVE IInv
  OBVIOUS
<1>1. TypeOK
  <2>1. NoFiles \in [Names -> {"none", "partial", "whole"}]
    BY DEF NoFiles
  <2>2. /\ 0 \in 0 .. Items /\ 0 \in 0 .. Retries /\ <<>> \in Seq(Providers)
        /\ Earlier \in Nat
    BY DownloadsAssumption, HealthAssumption
  <2>3. HealthTypeOK /\ inRow \in [Providers -> Nat]
    BY <2>2 DEF Init, HealthInit, HealthTypeOK
  <2>4. job \in [Requests -> [does : {"none", "stream", "local", "process"}, name : Names,
                              step : Steps, how : Ends]]
    BY NoJobType DEF Init, JobType
  <2> QED
    BY <2>1, <2>2, <2>3, <2>4 DEF Init, TypeOK
<1>2. CountInv
  <2>1. ASSUME NEW p \in Providers
        PROVE  ~health[p].cooling /\ health[p].failures = Earlier /\ inRow[p] = Earlier
    BY DEF Init, HealthInit
  <2> QED
    BY <2>1, HealthAssumption DEF CountInv
<1>3. ASSUME NEW r \in Requests PROVE RequestInv(r)
  <2>1. /\ pc[r] = "new" /\ job[r] = NoJob /\ items[r] = 0 /\ ~token[r] /\ outcome[r] = ""
        /\ ~waiting[r] /\ ~dir[r] /\ files[r] = NoFiles
    BY DEF Init
  <2>2. Shape(job[r]) /\ JobInv(r) /\ RouteInv(r)
    BY <2>1, NoJobType DEF JobInv, RouteInv
  <2>3. EndInv(r) /\ StoredInv(r) /\ CleanInv(r)
    BY <2>1 DEF EndInv, StoredInv, CleanInv, Ended, Sync, Awaiting
  <2> QED
    BY <2>2, <2>3 DEF RequestInv
<1>4. DirsInv
  BY DEF Init, DirsInv
<1> QED
  BY <1>1, <1>2, <1>3, <1>4 DEF IInv

LEMMA KeptHolds ==
  ASSUME IInv, NEW r \in Requests, Kept(r), HealthKept
  PROVE  IInv'
<1>1. \A q \in Requests : RequestInv(q)'
  <2>1. ASSUME NEW q \in Requests \ {r} PROVE RequestInv(q)'
    BY SparedKeeps DEF IInv, Kept
  <2> QED
    BY <2>1 DEF Kept
<1> QED
  BY <1>1 DEF IInv, Kept, HealthKept

LEMMA NextHolds ==
  ASSUME IInv, [Next]_vars
  PROVE  IInv'
<1>1. CASE UNCHANGED vars
  <2>1. \A r \in Requests : RequestInv(r)'
    BY <1>1, SparedKeeps DEF IInv, Spared, vars, disk
  <2>2. TypeOK' /\ CountInv' /\ DirsInv'
    BY <1>1 DEF vars, disk, IInv, TypeOK, HealthTypeOK, CountInv, DirsInv
  <2> QED
    BY <2>1, <2>2 DEF IInv
<1>2. CASE Over
  BY <1>1, <1>2 DEF Over
<1>3. CASE Recover
  <2>1. UNCHANGED <<engine, pc, route, tried, items, attempt, job, token, waiting, closes,
                    disk, outcome, inRow>>
    BY <1>3 DEF Recover
  <2>2. HealthKept
    BY <1>3, CoolingEnds DEF Recover
  <2>3. TypeOK' /\ DirsInv'
    BY <2>1, <2>2 DEF IInv, TypeOK, DirsInv, HealthKept, disk
  <2>4. \A r \in Requests : RequestInv(r)'
    BY <2>1, SparedKeeps DEF IInv, Spared, disk
  <2> QED
    BY <2>2, <2>3, <2>4 DEF IInv, HealthKept
<1>4. ASSUME NEW r \in Requests, Coroutine(r) \/ Cancel(r)
      PROVE  IInv'
  <2>1. CASE SetFlag(r) \/ RunCallbacks(r) \/ ListChildren(r) \/ RemoveChildren(r) \/ RemoveDirs(r)
    <3>1. Kept(r)
      BY <2>1, SetFlagKeeps, RunCallbacksKeeps, ListChildrenKeeps, RemoveChildrenKeeps,
         RemoveDirsKeeps
    <3>2. HealthKept
      BY <2>1, HealthIdle
         DEF SetFlag, RunCallbacks, ListChildren, RemoveChildren, RemoveDirs
    <3> QED
      BY <3>1, <3>2, KeptHolds
  <2>2. CASE ~(SetFlag(r) \/ RunCallbacks(r) \/ ListChildren(r) \/ RemoveChildren(r) \/ RemoveDirs(r))
    <3>1. Kept(r) /\ HealthKept
      BY <1>4, <2>2, CreateDirsKeeps, BeginDownloadKeeps, FetchOkKeeps, FetchFailsKeeps,
         StreamEndsKeeps, LocalEndsKeeps, ProcessEndsKeeps, DeliverKeeps, CancelKeeps
         DEF Coroutine
    <3> QED
      BY <3>1, KeptHolds
  <2> QED
    BY <2>1, <2>2
<1>5. ASSUME NEW r \in Requests, Thread(r)
      PROVE  IInv'
  <2>1. Kept(r)
    BY <1>5, RunKeeps, RequestKeeps, RegisterKeeps, OpenStreamKeeps, StreamStopsKeeps,
       StreamOkKeeps, LocalCheckKeeps, LocalOpenKeeps, LocalRenameKeeps, LocalFinishKeeps, LocalOkKeeps,
       LocalRetryKeeps, LocalStopsKeeps, ProcessOpenKeeps, ProcessOkKeeps, ProcessFailsKeeps
       DEF Thread
  <2>2. UNCHANGED <<health, inRow>>
    BY <1>5 DEF Thread, Run, Request, Register, OpenStream, StreamStops, StreamOk, LocalCheck,
                LocalOpen, LocalRename, LocalFinish, LocalOk, LocalRetry, LocalStops, ProcessOpen, ProcessOk,
                ProcessFails, ThreadUnchanged
  <2> QED
    BY <2>1, <2>2, HealthIdle, KeptHolds
<1> QED
  BY <1>1, <1>2, <1>3, <1>4, <1>5 DEF Next

-----------------------------------------------------------------------------
(***************************************************************************)
(* The callbacks of the token.                                             *)
(***************************************************************************)
\* The thread of a stream is past on_cancel.
Streams(j) == j.does = "stream" /\ j.step \in {"open", "read"}

\* The callback of the last stream waits or was run, not both and not twice; it does
\* the one or the other once the thread has registered it.
CallbackInv(r) ==
  /\ closes[r] \in {0, 1}
  /\ waiting[r] => closes[r] = 0
  /\ job[r].does = "stream" /\ job[r].step = "register" => ~waiting[r] /\ closes[r] = 0
  /\ Streams(job[r]) => waiting[r] \/ closes[r] = 1

\* A step after which no thread is nearer to its registration, or past it.
Settles ==
  \A q \in Requests :
    \/ job'[q] = job[q]
    \/ Streams(job'[q]) /\ Streams(job[q])
    \/ job'[q].does # "stream" \/ job'[q].step \notin {"register", "open", "read"}

LEMMA SettledKeeps ==
  ASSUME NEW r \in Requests, CallbackInv(r), Settles, closes'[r] = closes[r],
         waiting'[r] = waiting[r]
  PROVE  CallbackInv(r)'
BY DEF CallbackInv, Settles, Streams

LEMMA EndSettles ==
  ASSUME IInv, NEW r \in Requests, NEW how, End(r, how)
  PROVE  Settles
<1>1. job \in [Requests -> JobType]
  BY PointTypes
<1> QED
  BY <1>1, NoJobType DEF End, Settles

LEMMA SubmitSettles ==
  ASSUME IInv, NEW r \in Requests, NEW what, NEW n, Submit(r, what, n)
  PROVE  Settles
<1>1. job \in [Requests -> JobType]
  BY PointTypes
<1> QED
  BY <1>1 DEF Submit, Settles

LEMMA OnwardSettles ==
  ASSUME IInv, NEW r \in Requests, NEW rest, Onward(r, rest)
  PROVE  Settles
<1>1. CASE UNCHANGED job
  BY <1>1 DEF Settles
<1>2. CASE StartLocal(r)
  BY <1>2, SubmitSettles DEF StartLocal
<1>3. CASE End(r, "failed")
  BY <1>3, EndSettles
<1> QED
  BY <1>1, <1>2, <1>3 DEF Onward

LEMMA ProviderFailsSettles ==
  ASSUME IInv, NEW r \in Requests, ProviderFails(r)
  PROVE  Settles
BY OnwardSettles, EndSettles DEF ProviderFails

LEMMA CoroutineSettles ==
  ASSUME IInv, NEW r \in Requests, Coroutine(r) \/ Cancel(r)
  PROVE  Settles
<1>1. CASE UNCHANGED job
  BY <1>1 DEF Settles
<1>2. CASE BeginDownload(r)
  BY <1>2, OnwardSettles, EndSettles, SubmitSettles DEF BeginDownload, StartLocal
<1>3. CASE FetchOk(r)
  BY <1>3, SubmitSettles DEF FetchOk
<1>4. CASE FetchFails(r)
  BY <1>4, ProviderFailsSettles DEF FetchFails
<1>5. CASE StreamEnds(r)
  <2>1. CASE ProviderServes(r)
    BY <2>1, ProviderFailsSettles, SubmitSettles DEF ProviderServes, EngineReturns
  <2>2. CASE ProviderFails(r)
    BY <2>2, ProviderFailsSettles
  <2>3. CASE End(r, "too large")
    BY <2>3, EndSettles
  <2>4. CASE Submit(r, "stream", job[r].name + 1)
    BY <2>4, SubmitSettles
  <2> QED
    BY <1>5, <2>1, <2>2, <2>3, <2>4 DEF StreamEnds
<1>6. CASE LocalEnds(r)
  <2>1. CASE EngineReturns(r, 0)
    BY <2>1, SubmitSettles DEF EngineReturns
  <2> QED
    BY <1>6, <2>1, OnwardSettles, EndSettles DEF LocalEnds
<1>7. CASE ProcessEnds(r) \/ Deliver(r) \/ Cancel(r)
  BY <1>1, <1>7, EndSettles DEF ProcessEnds, Deliver, Cancel
<1>8. CASE CreateDirs(r) \/ SetFlag(r) \/ RunCallbacks(r) \/ ListChildren(r)
           \/ RemoveChildren(r) \/ RemoveDirs(r)
  BY <1>1, <1>8
     DEF CreateDirs, SetFlag, RunCallbacks, ListChildren, RemoveChildren, RemoveDirs
<1> QED
  BY <1>2, <1>3, <1>4, <1>5, <1>6, <1>7, <1>8 DEF Coroutine

LEMMA ReturnSettles ==
  ASSUME IInv, NEW r \in Requests, NEW how \in Ends, Return(r, how)
  PROVE  Settles
<1>1. Returned(r, how) /\ \A q \in Requests \ {r} : job'[q] = job[q]
  BY ReturnMoves DEF IInv
<1> QED
  BY <1>1, NoJobType DEF Returned, Settles

\* A thread that takes a step other than those of the registration.
LEMMA StepSettles ==
  ASSUME IInv, NEW r \in Requests, NEW next \in Steps, Step(r, next),
         \/ job[r].does # "stream"
         \/ next \notin {"register", "open", "read"}
         \/ Streams(job[r]) /\ next = "read"
  PROVE  Settles
<1>1. Onwards(r, next) /\ \A q \in Requests \ {r} : job'[q] = job[q]
  BY StepMoves DEF IInv
<1> QED
  BY <1>1 DEF Onwards, Settles, Streams

LEMMA ThreadSettles ==
  ASSUME IInv, NEW r \in Requests, Thread(r), ~Request(r), ~Register(r)
  PROVE  Settles
<1>1. CASE \E how \in Ends : Return(r, how)
  BY <1>1, ReturnSettles
<1>2. CASE Run(r)
  <2>1. \/ Step(r, "request")
        \/ job[r].does # "stream" /\ \E next \in {"check", "open"} : Step(r, next)
    BY <1>2 DEF Run
  <2> QED
    BY <2>1, StepSettles DEF Steps
<1>3. CASE OpenStream(r)
  BY <1>1, <1>3, StepSettles DEF OpenStream, Doing, Streams, Steps, Ends
<1>4. CASE StreamStops(r) \/ StreamOk(r) \/ LocalStops(r) \/ LocalOk(r) \/ ProcessOk(r)
           \/ ProcessFails(r)
  BY <1>1, <1>4 DEF StreamStops, StreamOk, LocalStops, LocalOk, ProcessOk, ProcessFails, Ends
<1>5. CASE LocalCheck(r) \/ LocalOpen(r) \/ LocalFinish(r) \/ LocalRetry(r) \/ ProcessOpen(r)
  <2>1. job[r].does # "stream"
    BY <1>5 DEF LocalCheck, LocalOpen, LocalFinish, LocalRetry, ProcessOpen, Doing
  <2>2. \/ \E how \in Ends : Return(r, how)
        \/ \E next \in Steps : Step(r, next)
    BY <1>5 DEF LocalCheck, LocalOpen, LocalFinish, LocalRetry, ProcessOpen, Ends, Steps
  <2> QED
    BY <1>1, <2>1, <2>2, StepSettles
<1>6. CASE LocalRename(r)
  BY <1>6 DEF LocalRename, Settles
<1> QED
  BY <1>2, <1>3, <1>4, <1>5, <1>6 DEF Thread

LEMMA CallbacksKept ==
  IInv /\ (\A r \in Requests : CallbackInv(r)) /\ [Next]_vars
    => (\A r \in Requests : CallbackInv(r))'
<1> SUFFICES ASSUME IInv, \A r \in Requests : CallbackInv(r), [Next]_vars,
                    NEW q \in Requests
             PROVE  CallbackInv(q)'
  OBVIOUS
<1>1. CASE UNCHANGED <<job, waiting, closes>>
  BY <1>1 DEF CallbackInv, Streams
<1>2. ASSUME NEW r \in Requests, Coroutine(r) \/ Cancel(r), ~RunCallbacks(r)
      PROVE  CallbackInv(q)'
  <2>1. UNCHANGED <<waiting, closes>>
    BY <1>2 DEF Coroutine, CreateDirs, BeginDownload, FetchOk, FetchFails, StreamEnds,
         LocalEnds, ProcessEnds, Deliver, Cancel, SetFlag, ListChildren, RemoveChildren,
         RemoveDirs
  <2> QED
    BY <1>2, <2>1, CoroutineSettles, SettledKeeps
<1>3. ASSUME NEW r \in Requests, RunCallbacks(r)
      PROVE  CallbackInv(q)'
  <2>1. /\ waiting \in [Requests -> BOOLEAN] /\ closes \in [Requests -> Nat]
        /\ waiting' = [waiting EXCEPT ![r] = FALSE] /\ job' = job
        /\ closes' = [closes EXCEPT ![r] = IF waiting[r] THEN closes[r] + 1 ELSE closes[r]]
    BY <1>3 DEF RunCallbacks, IInv, TypeOK
  <2>2. CallbackInv(q)
    OBVIOUS
  <2>3. waiting'[q] => waiting[q] /\ closes'[q] = closes[q]
    BY <2>1
  <2>4. ~waiting'[q] => \/ ~waiting[q] /\ closes'[q] = closes[q]
                        \/ waiting[q] /\ closes'[q] = closes[q] + 1
    BY <2>1
  <2> QED
    BY <2>1, <2>2, <2>3, <2>4 DEF CallbackInv, Streams
<1>4. ASSUME NEW r \in Requests, Thread(r), ~Request(r), ~Register(r)
      PROVE  CallbackInv(q)'
  <2>1. UNCHANGED <<waiting, closes>>
    BY <1>4 DEF Thread, Run, OpenStream, StreamStops, StreamOk, LocalCheck, LocalOpen,
         LocalRename, LocalFinish, LocalOk, LocalRetry, LocalStops, ProcessOpen, ProcessOk,
         ProcessFails
  <2> QED
    BY <1>4, <2>1, ThreadSettles, SettledKeeps
<1>5. ASSUME NEW r \in Requests, Request(r)
      PROVE  CallbackInv(q)'
  <2>1. CASE UNCHANGED <<waiting, closes>> /\ \E how \in Ends : Return(r, how)
    BY <2>1, ReturnSettles, SettledKeeps
  <2>2. CASE /\ Step(r, "register")
             /\ waiting' = [waiting EXCEPT ![r] = FALSE]
             /\ closes' = [closes EXCEPT ![r] = 0]
    <3>1. Onwards(r, "register") /\ \A p \in Requests \ {r} : job'[p] = job[p]
      BY <2>2, StepMoves DEF IInv, Steps
    <3>2. /\ waiting \in [Requests -> BOOLEAN] /\ closes \in [Requests -> Nat]
      BY DEF IInv, TypeOK
    <3> QED
      BY <2>2, <3>1, <3>2 DEF CallbackInv, Streams, Onwards
  <2> QED
    BY <1>5, <2>1, <2>2 DEF Request, Ends
<1>6. ASSUME NEW r \in Requests, Register(r)
      PROVE  CallbackInv(q)'
  <2>1. Onwards(r, "open") /\ \A p \in Requests \ {r} : job'[p] = job[p]
    BY <1>6, StepMoves DEF Register, IInv, Steps
  <2>2. /\ waiting \in [Requests -> BOOLEAN] /\ closes \in [Requests -> Nat]
        /\ token \in [Requests -> BOOLEAN]
    BY DEF IInv, TypeOK
  <2>3. CASE q # r
    BY <1>6, <2>1, <2>2, <2>3 DEF Register, CallbackInv, Streams
  <2>4. CASE q = r
    <3>1. ~waiting[r] /\ closes[r] = 0
      BY <1>6 DEF Register, Doing, CallbackInv
    <3>2. job'[r].step = "open"
      BY <2>1 DEF Onwards
    <3>3. /\ waiting'[r] = ~token[r]
          /\ closes'[r] = IF token[r] THEN closes[r] + 1 ELSE closes[r]
      BY <1>6, <2>2, Zenon DEF Register
    <3>4. \/ waiting'[r] /\ closes'[r] = 0
          \/ ~waiting'[r] /\ closes'[r] = 1
      <4>1. CASE token[r]
        <5>1. ~waiting'[r]
          BY <3>3, <4>1, Zenon
        <5>2. closes'[r] = 1
          BY <3>1, <3>3, <4>1
        <5> QED
          BY <5>1, <5>2
      <4>2. CASE ~token[r]
        <5>1. waiting'[r]
          BY <3>3, <4>2, Zenon
        <5>2. closes'[r] = 0
          BY <3>1, <3>3, <4>2
        <5> QED
          BY <5>1, <5>2
      <4> QED
        BY <4>1, <4>2
    <3> QED
      BY <2>4, <3>2, <3>4 DEF CallbackInv, Streams
  <2> QED
    BY <2>3, <2>4
<1>7. CASE Recover \/ Over \/ UNCHANGED vars
  BY <1>1, <1>7 DEF Recover, Over, vars
<1> QED
  BY <1>2, <1>3, <1>4, <1>5, <1>6, <1>7 DEF Next

-----------------------------------------------------------------------------
\* The inductive invariant holds in every state.
THEOREM Invariant == Spec => []IInv
BY InitHolds, NextHolds, PTL DEF Spec

\* The variables keep their types, whatever the threads and providers do.
THEOREM TypeCorrect == Spec => []TypeOK
<1>1. IInv => TypeOK
  BY DEF IInv
<1> QED
  BY <1>1, Invariant, PTL

\* Only whole files go on to the processing and to the upload.
THEOREM WholeFilesGoOn == Spec => []HandedOnWhole
<1>1. IInv => HandedOnWhole
  BY DEF IInv, RequestInv, StoredInv, HandedOnWhole, FilesOf, DirOf
<1> QED
  BY <1>1, Invariant, PTL

\* Every callback is run by one side exactly once.
THEOREM CallbacksAreRun == Spec => []EveryCallbackRunsOnce
<1> DEFINE CInv == \A r \in Requests : CallbackInv(r)
<1>1. Init => CInv
  <2> SUFFICES ASSUME Init, NEW r \in Requests PROVE CallbackInv(r)
    OBVIOUS
  <2>1. job[r] = NoJob /\ closes[r] = 0
    BY DEF Init
  <2> QED
    BY <2>1, NoJobType DEF CallbackInv, Streams
<1>2. IInv /\ CInv /\ [Next]_vars => CInv'
  BY CallbacksKept
<1>3. IInv /\ CInv => EveryCallbackRunsOnce
  <2> SUFFICES ASSUME IInv, CInv, NEW r \in Requests
               PROVE  /\ closes[r] <= 1
                      /\ /\ pc[r] \in {"list", "remove", "rmdir", "over"}
                         /\ job[r].does = "stream" /\ job[r].step \in {"open", "read"}
                         => closes[r] = 1 /\ ~waiting[r]
    BY DEF EveryCallbackRunsOnce
  <2>1. pc[r] \in {"list", "remove", "rmdir", "over"} => ~waiting[r]
    BY DEF IInv, RequestInv, EndInv, Ended, Sync
  <2> QED
    BY <2>1 DEF CallbackInv, Streams
<1> HIDE DEF CInv
<1> QED
  BY <1>1, <1>2, <1>3, Invariant, PTL DEF Spec

\* A cool-down has as many failures in a row behind it as the threshold asks for.
THEOREM CoolDownsAreEarned == Spec => []CoolDownIsEarned
<1>1. IInv => CoolDownIsEarned
  <2> SUFFICES ASSUME IInv, NEW p \in Providers, health[p].cooling
               PROVE  inRow[p] >= Threshold
    BY DEF CoolDownIsEarned
  <2>1. health[p].failures \in Nat /\ inRow[p] \in Nat
    BY DEF IInv, TypeOK, HealthTypeOK
  <2> QED
    BY <2>1, HealthAssumption DEF IInv, CountInv
<1> QED
  BY <1>1, Invariant, PTL

\* A request that was not cancelled leaves nothing behind.
THEOREM RequestsCleanUp == Spec => []CleansUp
<1>1. IInv => CleansUp
  BY DEF IInv, RequestInv, CleanInv, DirsInv, CleansUp, FilesOf, DirOf
<1> QED
  BY <1>1, Invariant, PTL

=============================================================================
