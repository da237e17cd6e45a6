------------------------------- MODULE Upload -------------------------------
(***************************************************************************)
(* TelethonUploader.send_file (telegram/uploader.py) with its parallel     *)
(* upload (telegram/parallel_upload.py) and the percentage it shows        *)
(* (UploadProgress, telegram/progress.py): one file.                       *)
(*                                                                         *)
(* pc is the await of send_file:                                           *)
(*   "start"      before its first step                                    *)
(*   "slot"       waiting for a slot of the upload semaphore               *)
(*   "open"       opening the extra connections                            *)
(*   "lanes"      waiting for the lanes                                    *)
(*   "stopping"   waiting for the lanes it has cancelled                   *)
(*   "closing"    closing the extra connections                            *)
(*   "telethon"   Telethon uploads the file itself, part by part           *)
(*   "send"       sending the message that refers to the uploaded file     *)
(*   "asleep"     waiting out a flood of that call                         *)
(*   "over"                                                                *)
(* A lane is a task; lpc[l] is the await it is at:                         *)
(*   "created"    before its first step                                    *)
(*   "read"       a thread reads its part                                  *)
(*   "send"       the part is on its way                                   *)
(*   "asleep"     waiting out a flood                                      *)
(*   "report"     the progress callback                                    *)
(* and "returned", "raised" or "cancelled" when it is done.                *)
(*                                                                         *)
(* The progress is counted in parts: a part is a percentage.               *)
(***************************************************************************)
EXTENDS Naturals, FiniteSets

CONSTANTS
  Parts,        \* part_count
  Workers,      \* lanes
  Extra,        \* connections asked for besides the main one
  MaxTries,     \* MAX_FLOOD_RETRIES_PER_PART
  MaxWaits,     \* max_retries of the call that sends the message
  FloodsToTwo,  \* _DEGRADE_AFTER: floods after which two lanes are left
  FloodsToOne,  \* ... and one
  MinStep,      \* min_step: parts that make a new percentage worth an edit
  MaxFloods,    \* bound: floods of all lanes together
  MaxCancels    \* bound: how often send_file is cancelled

ASSUME UploadAssumption ==
  /\ Parts \in Nat \ {0} /\ Workers \in Nat \ {0} /\ Extra \in Nat
  /\ MaxTries \in Nat /\ MaxWaits \in Nat
  /\ FloodsToTwo \in Nat /\ FloodsToOne \in Nat /\ MinStep \in Nat
  /\ MaxFloods \in Nat /\ MaxCancels \in Nat

VARIABLES
  pc,        \* the await of send_file
  outcome,   \* how its upload ended: ok, error or cancelled; "" before
  document,  \* is this the second call, with the file as a document?
  waits,     \* floods of the present call of client.send_file
  cancels,   \* how often it was cancelled
  conn,      \* extra connections: none, opening, open, failed or closed
  fd,        \* is the file open for the lanes?
  doomed,    \* have the lanes been cancelled?
  lpc,       \* the await of each lane
  part,      \* the part it is at work on
  link,      \* the connection it uses, 0 for the main one
  tries,     \* floods of its present _send_part
  next,      \* the queue of parts left is next .. Parts
  limit,     \* _State.limit
  floods,    \* _State.floods
  uploaded,  \* _State.uploaded
  pct,       \* what the progress callback of each lane shows
  shown,     \* UploadProgress._shown
  last,      \* ._last_transferred, 0 for none
  inFlood,   \* ._in_flood
  text,      \* what the reporter was last asked to show: a percentage or FloodNotice
  stored,    \* parts that Telegram has
  messages   \* messages sent

sender == <<pc, outcome, document, waits, cancels, messages>>
links == <<conn, fd>>
lanes == <<doomed, lpc, part, link, tries, next, limit, floods, uploaded, stored>>
bar == <<pct, shown, last, inFlood, text>>
vars == <<sender, links, lanes, bar>>

Lanes == 0 .. Workers - 1
Links == 1 .. Extra
AllParts == 1 .. Parts
FloodNotice == Parts + 1
Working == {"created", "read", "send", "asleep", "report"}

TypeOK ==
  /\ pc \in {"start", "slot", "open", "lanes", "stopping", "closing", "telethon",
             "send", "asleep", "over"}
  /\ outcome \in {"", "ok", "error", "cancelled"}
  /\ document \in BOOLEAN
  /\ waits \in 0 .. MaxWaits
  /\ cancels \in 0 .. MaxCancels
  /\ conn \in [Links -> {"none", "opening", "open", "failed", "closed"}]
  /\ fd \in BOOLEAN
  /\ doomed \in BOOLEAN
  /\ lpc \in [Lanes -> Working \cup {"none", "returned", "raised", "cancelled"}]
  /\ part \in [Lanes -> 0 .. Parts]
  /\ link \in [Lanes -> 0 .. Extra]
  /\ tries \in [Lanes -> 0 .. MaxTries]
  /\ next \in 1 .. Parts + 1
  /\ limit \in 1 .. Workers
  /\ floods \in 0 .. MaxFloods
  /\ uploaded \in 0 .. Parts
  /\ pct \in [Lanes -> 0 .. Parts]
  /\ shown \in 0 .. Parts
  /\ last \in 0 .. Parts
  /\ inFlood \in BOOLEAN
  /\ text \in 0 .. FloodNotice
  /\ stored \subseteq AllParts
  /\ messages \in {0, 1}

Init ==
  /\ pc = "start"
  /\ outcome = ""
  /\ document = FALSE
  /\ waits = 0
  /\ cancels = 0
  /\ conn = [c \in Links |-> "none"]
  /\ fd = FALSE
  /\ doomed = FALSE
  /\ lpc = [l \in Lanes |-> "none"]
  /\ part = [l \in Lanes |-> 0]
  /\ link = [l \in Lanes |-> 0]
  /\ tries = [l \in Lanes |-> 0]
  /\ next = 1
  /\ limit = Workers
  /\ floods = 0
  /\ uploaded = 0
  /\ pct = [l \in Lanes |-> 0]
  /\ shown = 0
  /\ last = 0
  /\ inFlood = FALSE
  /\ text = 0
  /\ stored = {}
  /\ messages = 0

-----------------------------------------------------------------------------
\* send_file up to the lanes.

\* _source: a photo, an empty file or a single worker is left to Telethon.
Begin ==
  /\ pc = "start"
  /\ pc' \in {"slot", "telethon"}
  /\ UNCHANGED <<outcome, document, waits, cancels, messages, links, lanes, bar>>

TelethonUploads ==
  /\ pc = "telethon"
  /\ pc' = "send"
  /\ outcome' = "ok"
  /\ stored' = AllParts
  /\ UNCHANGED <<document, waits, cancels, messages, links, doomed, lpc, part, link,
                 tries, next, limit, floods, uploaded, bar>>

GetSlot ==
  /\ pc = "slot"
  /\ pc' = "open"
  /\ conn' = [c \in Links |-> IF c < Parts THEN "opening" ELSE "none"]
  /\ UNCHANGED <<outcome, document, waits, cancels, messages, fd, lanes, bar>>

\* An extra connection is up, or failed and was dropped.
LinkSettles(c) ==
  /\ pc = "open"
  /\ conn[c] = "opening"
  /\ \E s \in {"open", "failed"} : conn' = [conn EXCEPT ![c] = s]
  /\ UNCHANGED <<sender, fd, lanes, bar>>

Open == {c \in Links : conn[c] = "open"}

\* links[lane % len(links)], where links[0] is the main connection.
Index(c) == Cardinality({d \in Open : d <= c})

StartLanes ==
  /\ pc = "open"
  /\ \A c \in Links : conn[c] # "opening"
  /\ pc' = "lanes"
  /\ fd' = TRUE
  /\ lpc' = [l \in Lanes |-> "created"]
  /\ \E f \in [Lanes -> Open \cup {0}] :
       /\ \A l \in Lanes : Index(f[l]) = l % (Cardinality(Open) + 1)
       /\ link' = f
  /\ UNCHANGED <<outcome, document, waits, cancels, messages, conn, doomed, part,
                 tries, next, limit, floods, uploaded, stored, bar>>

\* os.open raises; the connections are up already.
OpenFails ==
  /\ pc = "open"
  /\ \A c \in Links : conn[c] # "opening"
  /\ pc' = "over"
  /\ outcome' = "error"
  /\ UNCHANGED <<document, waits, cancels, messages, links, lanes, bar>>

-----------------------------------------------------------------------------
\* A lane.

Goes(l, await) == lpc' = [lpc EXCEPT ![l] = await]

\* The lane is done with its part, for good or ill.
Ends(l, how) ==
  /\ Goes(l, how)
  /\ part' = [part EXCEPT ![l] = 0]
  /\ link' = [link EXCEPT ![l] = 0]
  /\ tries' = [tries EXCEPT ![l] = 0]
  /\ pct' = [pct EXCEPT ![l] = 0]

At(l, await) == lpc[l] = await /\ ~doomed

\* The head of the loop: another part, unless the lanes were reduced or no part
\* is left.
Turn(l) ==
  IF l < limit /\ next <= Parts
    THEN /\ Goes(l, "read")
         /\ part' = [part EXCEPT ![l] = next]
         /\ tries' = [tries EXCEPT ![l] = 0]
         /\ pct' = [pct EXCEPT ![l] = 0]
         /\ next' = next + 1
         /\ UNCHANGED link
    ELSE Ends(l, "returned") /\ UNCHANGED next

Starts(l) ==
  /\ At(l, "created")
  /\ Turn(l)
  /\ UNCHANGED <<sender, links, doomed, limit, floods, uploaded, stored, shown, last,
                 inFlood, text>>

HasRead(l) ==
  /\ At(l, "read")
  /\ Goes(l, "send")
  /\ UNCHANGED <<sender, links, doomed, part, link, tries, next, limit, floods,
                 uploaded, stored, bar>>

ReadFails(l) ==
  /\ At(l, "read")
  /\ Ends(l, "raised")
  /\ UNCHANGED <<sender, links, doomed, next, limit, floods, uploaded, stored, shown,
                 last, inFlood, text>>

\* Mutant: completion is not exempt from the interval.
MutWorthAnEdit(p, due) == inFlood \/ (p >= shown + MinStep /\ due)

\* Is a percentage worth an edit?  due: enough time has passed since the last.
WorthAnEdit(p, due) ==
  \/ inFlood
  \/ p > shown /\ (p = Parts \/ (p >= shown + MinStep /\ due))

\* The part is accepted and counted; the percentage is shown, or the lane goes
\* on at once.
Accepted(l) ==
  /\ At(l, "send")
  /\ stored' = stored \cup {part[l]}
  /\ uploaded' = uploaded + 1
  /\ \E due \in BOOLEAN :
       IF WorthAnEdit(uploaded', due)
         THEN /\ Goes(l, "report")
              /\ pct' = [pct EXCEPT ![l] = uploaded']
              /\ text' = uploaded'
              /\ UNCHANGED <<part, link, tries, next>>
         ELSE Turn(l) /\ UNCHANGED text
  /\ UNCHANGED <<sender, links, doomed, limit, floods, shown, last, inFlood>>

\* The callback returns.  The reporter's lock serves its callers in order.
Reported(l) ==
  /\ At(l, "report")
  /\ \A m \in Lanes \ {l} : lpc[m] = "report" => pct[m] >= pct[l]
  /\ shown' = IF pct[l] > shown THEN pct[l] ELSE shown
  /\ last' = pct[l]
  /\ inFlood' = FALSE
  /\ Turn(l)
  /\ UNCHANGED <<sender, links, doomed, limit, floods, uploaded, stored, text>>

\* It takes more than a second, or raises: nothing is noted.
ReportFails(l) ==
  /\ At(l, "report")
  /\ Turn(l)
  /\ UNCHANGED <<sender, links, doomed, limit, floods, uploaded, stored, shown, last,
                 inFlood, text>>

\* Mutant: the lanes are halved, down to none.
MutLimitAfter(n) == IF n >= FloodsToTwo THEN limit \div 2 ELSE limit

\* note_flood
LimitAfter(n) ==
  IF n >= FloodsToOne /\ limit > 1 THEN 1
  ELSE IF n >= FloodsToTwo /\ limit > 2 THEN 2 ELSE limit

CountFlood ==
  /\ floods < MaxFloods
  /\ floods' = floods + 1
  /\ limit' = LimitAfter(floods')

\* A flood wait: the part is retried after it, and the user is told if it is a
\* long one.
Flooded(l) ==
  /\ At(l, "send")
  /\ CountFlood
  /\ tries[l] < MaxTries
  /\ tries' = [tries EXCEPT ![l] = @ + 1]
  /\ Goes(l, "asleep")
  /\ \/ inFlood' = TRUE /\ text' = FloodNotice
     \/ UNCHANGED <<inFlood, text>>
  /\ UNCHANGED <<sender, links, doomed, part, link, next, uploaded, stored, pct, shown, last>>

\* One flood too many, or one that is too long.
FloodedOut(l) ==
  /\ At(l, "send")
  /\ CountFlood
  /\ Ends(l, "raised")
  /\ UNCHANGED <<sender, links, doomed, next, uploaded, stored, shown, last, inFlood, text>>

\* The flood is over; the last percentage noted takes the place of its notice.
Wakes(l) ==
  /\ At(l, "asleep")
  /\ Goes(l, "send")
  /\ inFlood' = FALSE
  /\ text' = IF inFlood THEN last ELSE text
  /\ UNCHANGED <<sender, links, doomed, part, link, tries, next, limit, floods,
                 uploaded, stored, pct, shown, last>>

\* Any other error, after which Telegram may have the part all the same.
Lost(l) ==
  /\ At(l, "send")
  /\ stored' \in {stored, stored \cup {part[l]}}

\* Mutant: the part is counted for the link that failed as well.
MutLinkFails(l) ==
  /\ Lost(l)
  /\ link[l] # 0
  /\ link' = [link EXCEPT ![l] = 0]
  /\ tries' = [tries EXCEPT ![l] = 0]
  /\ uploaded' = uploaded + 1
  /\ UNCHANGED <<sender, links, doomed, lpc, part, next, limit, floods, bar>>

\* ... on an extra connection: the lane moves to the main one and repeats the
\* part there.
LinkFails(l) ==
  /\ Lost(l)
  /\ link[l] # 0
  /\ link' = [link EXCEPT ![l] = 0]
  /\ tries' = [tries EXCEPT ![l] = 0]
  /\ UNCHANGED <<sender, links, doomed, lpc, part, next, limit, floods, uploaded, bar>>

MainFails(l) ==
  /\ Lost(l)
  /\ link[l] = 0
  /\ Ends(l, "raised")
  /\ UNCHANGED <<sender, links, doomed, next, limit, floods, uploaded, shown, last,
                 inFlood, text>>

\* CancelledError ends the lane, wherever it is.
Unwinds(l) ==
  /\ doomed
  /\ lpc[l] \in Working
  /\ Ends(l, "cancelled")
  /\ stored' \in {stored} \cup (IF lpc[l] = "send" THEN {stored \cup {part[l]}} ELSE {})
  /\ UNCHANGED <<sender, links, doomed, next, limit, floods, uploaded, shown, last,
                 inFlood, text>>

-----------------------------------------------------------------------------
\* send_file from the lanes on.

\* asyncio.wait returns: a lane has raised, or all have returned.  All lanes are
\* cancelled either way.
LanesEnd ==
  /\ pc = "lanes"
  /\ \/ /\ \E l \in Lanes : lpc[l] = "raised"
        /\ outcome' = "error"
     \/ /\ \A l \in Lanes : lpc[l] = "returned"
        /\ outcome' = "ok"
  /\ pc' = "stopping"
  /\ doomed' = TRUE
  /\ UNCHANGED <<document, waits, cancels, messages, links, lpc, part, link, tries, next,
                 limit, floods, uploaded, stored, bar>>

\* Mutant: the lanes it has cancelled are not waited for.
MutLanesStopped ==
  /\ pc = "stopping"
  /\ pc' = "closing"
  /\ fd' = FALSE
  /\ UNCHANGED <<outcome, document, waits, cancels, messages, conn, lanes, bar>>

LanesStopped ==
  /\ pc = "stopping"
  /\ \A l \in Lanes : lpc[l] \notin Working
  /\ pc' = "closing"
  /\ fd' = FALSE
  /\ UNCHANGED <<outcome, document, waits, cancels, messages, conn, lanes, bar>>

CloseLink(c) ==
  /\ pc = "closing"
  /\ conn[c] = "open"
  /\ \A d \in Links : d < c => conn[d] # "open"
  /\ conn' = [conn EXCEPT ![c] = "closed"]
  /\ UNCHANGED <<sender, fd, lanes, bar>>

\* Mutant: the exception of a lane is not raised again.
MutLinksClosed ==
  /\ pc = "closing"
  /\ Open = {}
  /\ pc' = IF outcome # "cancelled" THEN "send" ELSE "over"
  /\ UNCHANGED <<outcome, document, waits, cancels, messages, links, lanes, bar>>

\* The slot is given back.
LinksClosed ==
  /\ pc = "closing"
  /\ Open = {}
  /\ pc' = IF outcome = "ok" THEN "send" ELSE "over"
  /\ UNCHANGED <<outcome, document, waits, cancels, messages, links, lanes, bar>>

Sent ==
  /\ pc = "send"
  /\ pc' = "over"
  /\ messages' = messages + 1
  /\ UNCHANGED <<outcome, document, waits, cancels, links, lanes, bar>>

\* call_with_flood_retry
SendFloods ==
  /\ pc = "send"
  /\ \/ waits < MaxWaits /\ waits' = waits + 1 /\ pc' = "asleep"
     \/ pc' = "over" /\ UNCHANGED waits
  /\ UNCHANGED <<outcome, document, cancels, messages, links, lanes, bar>>

SendWakes ==
  /\ pc = "asleep"
  /\ pc' = "send"
  /\ UNCHANGED <<outcome, document, waits, cancels, messages, links, lanes, bar>>

\* Mutant: a document that is refused is tried as a video once more.
MutRejected ==
  /\ pc = "send"
  /\ document' = ~document
  /\ waits' = 0
  /\ UNCHANGED <<pc, outcome, cancels, messages, links, lanes, bar>>

\* Telegram refuses the file as a video or as audio: once more as a document,
\* with the parts already uploaded.
Rejected ==
  /\ pc = "send"
  /\ IF document THEN pc' = "over" /\ UNCHANGED <<document, waits>>
                 ELSE document' = TRUE /\ waits' = 0 /\ UNCHANGED pc
  /\ UNCHANGED <<outcome, cancels, messages, links, lanes, bar>>

SendRaises ==
  /\ pc \in {"send", "telethon"}
  /\ pc' = "over"
  /\ UNCHANGED <<outcome, document, waits, cancels, messages, links, lanes, bar>>

\* CancelledError, from the user or from the upload budget.  A second one may
\* hit the clean-up of the first.
Cancel ==
  /\ cancels < MaxCancels
  /\ cancels' = cancels + 1
  /\ outcome' = "cancelled"
  /\ \/ /\ pc \in {"slot", "telethon", "asleep"}
        /\ pc' = "over"
        /\ UNCHANGED <<links, doomed, messages>>
     \/ /\ pc = "open"
        /\ pc' = "over"
        /\ conn' = [c \in Links |-> IF conn[c] = "opening" THEN "failed" ELSE conn[c]]
        /\ UNCHANGED <<fd, doomed, messages>>
     \/ /\ pc = "lanes"
        /\ pc' = "stopping"
        /\ doomed' = TRUE
        /\ UNCHANGED <<links, messages>>
     \/ /\ pc = "stopping"
        /\ pc' = "closing"
        /\ fd' = FALSE
        /\ UNCHANGED <<conn, doomed, messages>>
     \/ /\ pc = "closing" /\ Open # {}
        /\ pc' = "over"
        /\ UNCHANGED <<links, doomed, messages>>
     \/ /\ pc = "send"
        /\ pc' = "over"
        /\ messages' \in {messages, messages + 1}
        /\ UNCHANGED <<links, doomed>>
  /\ UNCHANGED <<document, waits, lpc, part, link, tries, next, limit, floods, uploaded,
                 stored, bar>>

-----------------------------------------------------------------------------
LaneStep(l) ==
  \/ Starts(l) \/ HasRead(l) \/ ReadFails(l) \/ Accepted(l) \/ Reported(l) \/ ReportFails(l)
  \/ Flooded(l) \/ FloodedOut(l) \/ Wakes(l) \/ LinkFails(l) \/ MainFails(l) \/ Unwinds(l)

SendFile ==
  \/ Begin \/ TelethonUploads \/ GetSlot \/ (\E c \in Links : LinkSettles(c)) \/ StartLanes
  \/ OpenFails \/ LanesEnd \/ LanesStopped \/ (\E c \in Links : CloseLink(c)) \/ LinksClosed
  \/ Sent \/ SendFloods \/ SendWakes \/ Rejected \/ SendRaises

Over == pc = "over" /\ (\A l \in Lanes : lpc[l] \notin Working) /\ UNCHANGED vars

Next == SendFile \/ (\E l \in Lanes : LaneStep(l)) \/ Cancel \/ Over

Spec == Init /\ [][Next]_vars

\* Calls to Telegram return or raise, floods are waited out for a bounded time,
\* threads finish reading, and a slot becomes free.
FairSpec == Spec /\ WF_vars(SendFile) /\ \A l \in Lanes : WF_vars(LaneStep(l))

-----------------------------------------------------------------------------
(***************************************************************************)
(* Properties.                                                             *)
(***************************************************************************)

\* The message refers to a file all of whose parts Telegram has, and goes out at
\* most once, however parts are retried, moved to another link or abandoned.
TransferSpec == INSTANCE Transfer WITH Parts <- AllParts

Delivers == TransferSpec!Spec

\* The descriptor is closed only under lanes that are being cancelled, and when
\* an upload has ended or failed by itself its lanes are gone, its descriptor is
\* closed and its connections are given back, the failed ones too (finally,
\* parallel_upload.py:258-264).  A cancellation that hits the clean-up is exempt.
NothingOutlivesUpload ==
  /\ ~fd => \A l \in Lanes : lpc[l] \in Working => doomed
  /\ (pc \in {"send", "asleep", "over"} /\ outcome # "cancelled" /\ uploaded > 0) =>
        ~fd /\ Open = {} /\ \A l \in Lanes : lpc[l] \notin Working

\* "It can never pass the file size" (parallel_upload.py:37): what is counted are
\* parts Telegram has, each once, although a part may be sent twice.
ProgressIsReal ==
  uploaded <= Cardinality(stored)

\* The last thing a completed upload asks the reporter to show is 100 per cent,
\* not a flood notice or an old percentage.
EndsAtHundred ==
  outcome = "ok" /\ uploaded > 0 => text = Parts

\* Every upload comes to an end.
UploadEnds == pc = "slot" ~> pc = "over"
=============================================================================
