------------------------------ MODULE Pipeline ------------------------------
(***************************************************************************)
(* DownloadPipeline.run (pipeline.py): one request from the quota check to *)
(* the cleanup, and any number of requests running at once on the bot's    *)
(* event loop.  They share the credit ledger and the archive cache.        *)
(*                                                                         *)
(* The event loop switches requests only at an await, so an action is what *)
(* run does from one await to the next, and pc names the await a request   *)
(* is at:                                                                  *)
(*   "serve"     re-sending the cached media                               *)
(*   "prepare"   downloading, probing, converting and splitting            *)
(*   "send"      uploading one part on its own                             *)
(*   "album"     uploading a batch of groups as one album                  *)
(*   "fallback"  uploading the items of a rejected album one by one        *)
(*   "archive"   copying the part just recorded to the archive             *)
(*   "charge"    between the last part and the charge (not an await)       *)
(*   "extras"    subtitles and the description message                     *)
(*   "closing"   showing the final summary                                 *)
(*   "handler"   showing the failure text of an except branch              *)
(*                                                                         *)
(* A plan is what the download and the split leave to deliver: a sequence  *)
(* of groups (files), each with the sizes of its parts.  Part i of group g *)
(* is <<g, i>>.                                                            *)
(***************************************************************************)
EXTENDS Credits, Sequences, FiniteSetsExt

CONSTANTS
  Requests,     \* the calls of run
  UserOf,       \* the user each request is for
  Keys,         \* cache keys
  KeyOf,        \* the cache key of each request, or NoKey
  NoKey,        \* a request whose result must not be cached
  Plans,        \* what engine.download and split_file can leave to deliver
  AlbumLimit,   \* files in one album: 10
  ArchiveOn,    \* is an archive channel configured?
  DbMayFail     \* may a database statement fail?

Part == (Nat \ {0}) \X (Nat \ {0})

Group == [solo : BOOLEAN, sizes : Seq(Nat)]

\* `solo` files never join an album: documents, audio, "send as file".
\* `subs` counts the subtitle files the user asked for and the engine found.
Plan == [groups : Seq(Group), subs : Nat, trimmed : BOOLEAN]

NoPlan == [groups |-> << >>, subs |-> 0, trimmed |-> FALSE]

PartsOf(p) == UNION {{g} \X DOMAIN p.groups[g].sizes : g \in DOMAIN p.groups}

ASSUME PipelineAssumption ==
  /\ UserOf \in [Requests -> Users]
  /\ NoKey \notin Keys
  /\ KeyOf \in [Requests -> Keys \cup {NoKey}]
  /\ Plans \subseteq Plan
  /\ \A p \in Plans : \A g \in DOMAIN p.groups : p.groups[g].sizes # << >>
  /\ AlbumLimit \in Nat \ {0}
  /\ ArchiveOn \in BOOLEAN
  /\ DbMayFail \in BOOLEAN

VARIABLES
  pc,           \* the await each request is at; "idle" before run, "done" after
  plan,         \* what is being delivered
  pos,          \* the part being sent or archived
  album,        \* last group of the album being sent, 0 for a part of its own
  acked,        \* parts whose upload Telegram acknowledged to this request
  delivered,    \* parts whose size is in delivered_sizes
  volume,       \* sum(delivered_sizes)
  archived,     \* parts behind the archived message ids the request holds: the
                \* cached entry it re-sends, then its own archive copies
  allArchived,  \* the local flag all_parts_archived
  charged,      \* the local flag charged
  bills,        \* the non-empty charges that committed, each a set of parts
  failedCharges, \* the charges that raised (for the properties only)
  resent,       \* was the cached media re-sent to the end?
  outcome,      \* how the request ended
  cache         \* the archive cache: no entry or one entry for each key

position == <<plan, pos, album>>
record   == <<acked, delivered, volume>>
copies   == <<archived, allArchived>>
payments == <<bills, failedCharges>>
results  == <<resent, outcome>>
vars == <<ledger, pc, position, record, copies, charged, payments, results, cache>>

\* A cache entry: the parts whose archived messages it lists, whether it lists
\* every subtitle, and (for the properties only) the plan it was made from.
Entry == [parts : SUBSET Part, subs : BOOLEAN, plan : Plan]

Awaits == {"serve", "prepare", "send", "album", "fallback", "archive",
           "extras", "closing", "handler"}
Outcomes == {"running", "refused", "done", "failed", "cancelled"}

TypeOK ==
  /\ LedgerTypeOK
  /\ pc \in [Requests -> Awaits \cup {"idle", "charge", "done"}]
  /\ plan \in [Requests -> Plan]
  /\ pos \in [Requests -> Part]
  /\ album \in [Requests -> Nat]
  /\ acked \in [Requests -> SUBSET Part]
  /\ delivered \in [Requests -> SUBSET Part]
  /\ volume \in [Requests -> Nat]
  /\ archived \in [Requests -> SUBSET Part]
  /\ allArchived \in [Requests -> BOOLEAN]
  /\ charged \in [Requests -> BOOLEAN]
  /\ bills \in [Requests -> Seq(SUBSET Part)]
  /\ failedCharges \in [Requests -> Nat]
  /\ resent \in [Requests -> BOOLEAN]
  /\ outcome \in [Requests -> Outcomes]
  /\ DOMAIN cache = Keys
  /\ \A k \in Keys : cache[k] = {} \/ \E e \in cache[k] : e \in Entry /\ cache[k] = {e}

Init ==
  /\ LedgerInit
  /\ pc = [r \in Requests |-> "idle"]
  /\ plan = [r \in Requests |-> NoPlan]
  /\ pos = [r \in Requests |-> <<1, 1>>]
  /\ album = [r \in Requests |-> 0]
  /\ acked = [r \in Requests |-> {}]
  /\ delivered = [r \in Requests |-> {}]
  /\ volume = [r \in Requests |-> 0]
  /\ archived = [r \in Requests |-> {}]
  /\ allArchived = [r \in Requests |-> TRUE]
  /\ charged = [r \in Requests |-> FALSE]
  /\ bills = [r \in Requests |-> << >>]
  /\ failedCharges = [r \in Requests |-> 0]
  /\ resent = [r \in Requests |-> FALSE]
  /\ outcome = [r \in Requests |-> "running"]
  /\ cache = [k \in Keys |-> {}]

-----------------------------------------------------------------------------
\* Helpers.

GoTo(r, await) == pc' = [pc EXCEPT ![r] = await]

Size(r, p) == plan[r].groups[p[1]].sizes[p[2]]

Lookup(r) == IF KeyOf[r] = NoKey THEN {} ELSE cache[KeyOf[r]]

\* May a charge or a bandwidth update raise?  With VIP off neither reaches
\* the database.
LedgerMayFail == DbMayFail /\ EnableVip

\* eligible_for_album: one of several files, unsplit, sent as photo or video.
Eligible(p, g) ==
  /\ Len(p.groups) > 1
  /\ g \in DOMAIN p.groups
  /\ Len(p.groups[g].sizes) = 1
  /\ ~p.groups[g].solo

\* album_buffer collects a run of eligible groups and flush_album sends it in
\* batches of AlbumLimit: the last group of the batch that starts at g.
IsBatchEnd(p, g, h) ==
  /\ h < g + AlbumLimit
  /\ \A k \in g .. h : Eligible(p, k)
  /\ h + 1 = g + AlbumLimit \/ ~Eligible(p, h + 1)

\* The upload loop of plan p reaches group g, or the charge after the last one.
EnterGroup(r, p, g) ==
  /\ pos' = [pos EXCEPT ![r] = <<g, 1>>]
  /\ \/ /\ g > Len(p.groups)
        /\ GoTo(r, "charge")
        /\ album' = [album EXCEPT ![r] = 0]
     \/ /\ g <= Len(p.groups)
        /\ ~Eligible(p, g)
        /\ GoTo(r, "send")
        /\ album' = [album EXCEPT ![r] = 0]
     \/ \E h \in g .. Len(p.groups) :
          /\ IsBatchEnd(p, g, h)
          /\ GoTo(r, "album")
          /\ album' = [album EXCEPT ![r] = h]

\* Mutant: the size is appended only once the bandwidth update has committed.
MutRecord(r, p) ==
  /\ pos' = [pos EXCEPT ![r] = p]
  /\ \/ /\ AddBandwidthUsed(UserOf[r], Size(r, p))
        /\ delivered' = [delivered EXCEPT ![r] = @ \cup {p}]
        /\ volume' = [volume EXCEPT ![r] = @ + Size(r, p)]
        /\ GoTo(r, "archive")
     \/ /\ LedgerMayFail /\ Size(r, p) > 0
        /\ UNCHANGED <<ledger, delivered, volume>>
        /\ GoTo(r, "handler")

\* What follows a part's message: its size joins delivered_sizes, then its
\* bandwidth is recorded, then it is archived.
Record(r, p) ==
  /\ pos' = [pos EXCEPT ![r] = p]
  /\ delivered' = [delivered EXCEPT ![r] = @ \cup {p}]
  /\ volume' = [volume EXCEPT ![r] = @ + Size(r, p)]
  /\ \/ /\ AddBandwidthUsed(UserOf[r], Size(r, p))
        /\ GoTo(r, "archive")
     \/ /\ LedgerMayFail /\ Size(r, p) > 0
        /\ UNCHANGED ledger
        /\ GoTo(r, "handler")

\* use_quota_dynamic(user_id, delivered_sizes), committed or not.
Charge(r) ==
  /\ UseQuotaDynamic(UserOf[r], delivered[r] # {}, volume[r])
  /\ bills' = IF delivered[r] = {} THEN bills
              ELSE [bills EXCEPT ![r] = Append(@, delivered[r])]
  /\ UNCHANGED failedCharges

ChargeFails(r) ==
  /\ LedgerMayFail
  /\ failedCharges' = [failedCharges EXCEPT ![r] = @ + 1]
  /\ UNCHANGED <<ledger, bills>>

\* Mutant: the finally block does not look at the flag.
MutFinallyAgain(r, end) ==
  /\ GoTo(r, "done")
  /\ outcome' = [outcome EXCEPT ![r] = end]
  /\ IF delivered[r] # {}
     THEN Charge(r) \/ ChargeFails(r)
     ELSE UNCHANGED <<ledger, payments>>
  /\ UNCHANGED <<position, record, copies, charged, resent, cache>>

\* Mutant: the charge is repeated by the except branches only, so a cancelled
\* request does not reach it.
MutFinallyNotCancelled(r, end) ==
  /\ GoTo(r, "done")
  /\ outcome' = [outcome EXCEPT ![r] = end]
  /\ IF delivered[r] # {} /\ ~charged[r] /\ end # "cancelled"
     THEN Charge(r) \/ ChargeFails(r)
     ELSE UNCHANGED <<ledger, payments>>
  /\ UNCHANGED <<position, record, copies, charged, resent, cache>>

\* The finally block: every way out of the try passes through it.
Finally(r, end) ==
  /\ GoTo(r, "done")
  /\ outcome' = [outcome EXCEPT ![r] = end]
  /\ IF delivered[r] # {} /\ ~charged[r]
     THEN Charge(r) \/ ChargeFails(r)
     ELSE UNCHANGED <<ledger, payments>>
  /\ UNCHANGED <<position, record, copies, charged, resent, cache>>

-----------------------------------------------------------------------------
\* run up to its first await: the quota check, then the cache lookup.

Refuse(r) ==
  /\ pc[r] = "idle"
  /\ CheckQuota(UserOf[r]) # "ok"
  /\ GoTo(r, "done")
  /\ outcome' = [outcome EXCEPT ![r] = "refused"]
  /\ UNCHANGED <<ledger, position, record, copies, charged, payments, resent, cache>>

\* A statement of check_quota or cache.get fails: run raises before its try.
FailEarly(r) ==
  /\ pc[r] = "idle"
  /\ DbMayFail
  /\ \/ EnableVip /\ UserOf[r] \notin Owners
     \/ CheckQuota(UserOf[r]) = "ok" /\ KeyOf[r] # NoKey
  /\ GoTo(r, "done")
  /\ outcome' = [outcome EXCEPT ![r] = "failed"]
  /\ UNCHANGED <<ledger, position, record, copies, charged, payments, resent, cache>>

StartFromCache(r) ==
  /\ pc[r] = "idle"
  /\ CheckQuota(UserOf[r]) = "ok"
  /\ \E e \in Lookup(r) :
       /\ plan' = [plan EXCEPT ![r] = e.plan]
       /\ archived' = [archived EXCEPT ![r] = e.parts]
  /\ GoTo(r, "serve")
  /\ UNCHANGED <<ledger, pos, album, record, allArchived, charged, payments, results, cache>>

StartDownload(r) ==
  /\ pc[r] = "idle"
  /\ CheckQuota(UserOf[r]) = "ok"
  /\ Lookup(r) = {}
  /\ GoTo(r, "prepare")
  /\ UNCHANGED <<ledger, position, record, copies, charged, payments, results, cache>>

\* _try_serve_from_cache returns TRUE: what follows the media (subtitles, the
\* description, the summary) may not report a failure any more.
Serve(r) ==
  /\ pc[r] = "serve"
  /\ resent' = [resent EXCEPT ![r] = TRUE]
  /\ GoTo(r, "closing")
  /\ UNCHANGED <<ledger, position, record, copies, charged, payments, outcome, cache>>

\* It returns FALSE, possibly after some of the messages went out: run deletes
\* whatever entry the key has by now and downloads afresh.
ServeFails(r) ==
  /\ pc[r] = "serve"
  /\ plan' = [plan EXCEPT ![r] = NoPlan]
  /\ archived' = [archived EXCEPT ![r] = {}]
  /\ cache' = [cache EXCEPT ![KeyOf[r]] = {}]
  /\ GoTo(r, "prepare")
  /\ UNCHANGED <<ledger, pos, album, record, allArchived, charged, payments, results>>

\* The delete after the failed re-send fails too: run raises before its try.
DeleteFails(r) ==
  /\ pc[r] = "serve"
  /\ DbMayFail
  /\ GoTo(r, "done")
  /\ outcome' = [outcome EXCEPT ![r] = "failed"]
  /\ UNCHANGED <<ledger, position, record, copies, charged, payments, resent, cache>>

-----------------------------------------------------------------------------
\* Download, processing and upload.

Prepare(r) ==
  /\ pc[r] = "prepare"
  /\ \E p \in Plans :
       /\ plan' = [plan EXCEPT ![r] = p]
       /\ EnterGroup(r, p, 1)
  /\ UNCHANGED <<ledger, record, copies, charged, payments, results, cache>>

SendPart(r) ==
  /\ pc[r] = "send"
  /\ acked' = [acked EXCEPT ![r] = @ \cup {pos[r]}]
  /\ Record(r, pos[r])
  /\ UNCHANGED <<plan, album, copies, charged, payments, results, cache>>

\* send_media_group succeeds: every item is in the chat before the first of
\* them is recorded.
SendAlbum(r) ==
  /\ pc[r] = "album"
  /\ acked' = [acked EXCEPT ![r] = @ \cup ((pos[r][1] .. album[r]) \X {1})]
  /\ Record(r, pos[r])
  /\ UNCHANGED <<plan, album, copies, charged, payments, results, cache>>

\* Mutant: the sizes of the batch join the list when it is handed over, not when
\* its messages are back.
MutAlbumRejected(r) ==
  /\ pc[r] = "album"
  /\ GoTo(r, "fallback")
  /\ delivered' = [delivered EXCEPT ![r] = @ \cup ((pos[r][1] .. album[r]) \X {1})]
  /\ volume' = [volume EXCEPT ![r] =
       @ + MapThenSumSet(LAMBDA g : Size(r, <<g, 1>>), pos[r][1] .. album[r])]
  /\ UNCHANGED <<ledger, position, acked, copies, charged, payments, results, cache>>

\* The album is rejected: _send_album_batch falls back to single sends.
AlbumRejected(r) ==
  /\ pc[r] = "album"
  /\ GoTo(r, "fallback")
  /\ UNCHANGED <<ledger, position, record, copies, charged, payments, results, cache>>

\* One single send of the fallback; the messages come back to flush_album,
\* which records them, only after the last.
SendFallback(r) ==
  /\ pc[r] = "fallback"
  /\ \E g \in pos[r][1] .. album[r] :
       /\ <<g, 1>> \notin acked[r]
       /\ \A k \in pos[r][1] .. g - 1 : <<k, 1>> \in acked[r]
       /\ acked' = [acked EXCEPT ![r] = @ \cup {<<g, 1>>}]
       /\ \/ /\ g < album[r]
             /\ UNCHANGED <<ledger, pc, pos, delivered, volume>>
          \/ /\ g = album[r]
             /\ Record(r, pos[r])
  /\ UNCHANGED <<plan, album, copies, charged, payments, results, cache>>

\* Mutant: the parts of a split file are archived without looking at the
\* previous copies, so the flag is the last copy's.
MutArchiveCopy(r, copied) ==
  /\ archived' = [archived EXCEPT ![r] = IF copied THEN @ \cup {pos[r]} ELSE @]
  /\ allArchived' = [allArchived EXCEPT ![r] = copied]

\* _archive_copy returned: an id, or None for a failure or without a channel.
ArchiveCopy(r, copied) ==
  /\ archived' = [archived EXCEPT ![r] = IF copied THEN @ \cup {pos[r]} ELSE @]
  /\ allArchived' = [allArchived EXCEPT ![r] = @ /\ copied]

\* After the copy (and the quiet caption edit) the loop goes on: to the next
\* message of the album, the next part of the file, or the next group.
Archive(r) ==
  /\ pc[r] = "archive"
  /\ \E copied \in {FALSE, ArchiveOn} : ArchiveCopy(r, copied)
  /\ LET g == pos[r][1]
         i == pos[r][2]
         last == Len(plan[r].groups[g].sizes)
     IN  \/ /\ g < album[r]
            /\ Record(r, <<g + 1, 1>>)
            /\ UNCHANGED album
         \/ /\ album[r] = 0 /\ i < last
            /\ pos' = [pos EXCEPT ![r] = <<g, i + 1>>]
            /\ GoTo(r, "send")
            /\ UNCHANGED <<ledger, album, delivered, volume>>
         \/ /\ g = album[r] \/ (album[r] = 0 /\ i = last)
            /\ EnterGroup(r, plan[r], g + 1)
            /\ UNCHANGED <<ledger, delivered, volume>>
  /\ UNCHANGED <<plan, acked, charged, payments, results, cache>>

\* Mutant: the flag is set before the charge.
MutChargeDelivered(r) ==
  /\ pc[r] = "charge"
  /\ Charge(r) \/ ChargeFails(r)
  /\ charged' = [charged EXCEPT ![r] = TRUE]
  /\ GoTo(r, "extras")
  /\ UNCHANGED <<position, record, copies, results, cache>>

\* The charge after the upload loop; its failure is swallowed and left to the
\* finally block.
ChargeDelivered(r) ==
  /\ pc[r] = "charge"
  /\ \/ /\ Charge(r)
        /\ charged' = [charged EXCEPT ![r] = TRUE]
     \/ /\ ChargeFails(r)
        /\ UNCHANGED charged
  /\ GoTo(r, "extras")
  /\ UNCHANGED <<position, record, copies, results, cache>>

\* Mutant: a copy that failed does not matter.
MutCacheable(r, subs) ==
  /\ KeyOf[r] # NoKey
  /\ ArchiveOn
  /\ delivered[r] # {}
  /\ subs
  /\ ~plan[r].trimmed

\* The condition under which run stores the result.
Cacheable(r, subs) ==
  /\ KeyOf[r] # NoKey
  /\ ArchiveOn
  /\ delivered[r] # {}
  /\ allArchived[r]
  /\ subs
  /\ ~plan[r].trimmed

\* Subtitles and the description went out, or quietly did not (`subs` is
\* subtitles_archived); then the cache entry is stored, or its statement fails.
Extras(r) ==
  /\ pc[r] = "extras"
  /\ \E subs \in {plan[r].subs = 0, ArchiveOn \/ plan[r].subs = 0} :
       \/ /\ Cacheable(r, subs)
          /\ cache' = [cache EXCEPT ![KeyOf[r]] =
                {[parts |-> archived[r], subs |-> subs, plan |-> plan[r]]}]
          /\ GoTo(r, "closing")
       \/ /\ Cacheable(r, subs) /\ DbMayFail
          /\ UNCHANGED cache
          /\ GoTo(r, "handler")
       \/ /\ ~Cacheable(r, subs)
          /\ UNCHANGED cache
          /\ GoTo(r, "closing")
  /\ UNCHANGED <<ledger, position, record, copies, charged, payments, results>>

-----------------------------------------------------------------------------
\* The ways out.

\* The summary is shown and run returns.
Close(r) == pc[r] = "closing" /\ Finally(r, "done")

\* An exception that an except branch turns into a failure text: a download,
\* processing or send error, an expired download or upload budget.  Archive
\* copies of single parts run under the budget of their part, those of albums
\* and the album itself under none.
Raise(r) ==
  /\ \/ pc[r] \in {"prepare", "send", "fallback"}
     \/ pc[r] = "archive" /\ album[r] = 0
  /\ GoTo(r, "handler")
  /\ UNCHANGED <<ledger, position, record, copies, charged, payments, results, cache>>

\* The failure text is shown and run re-raises.
Fail(r) == pc[r] = "handler" /\ Finally(r, "failed")

\* The user's cancel button: CancelledError at whatever await run is at.
Cancel(r) == pc[r] \in Awaits /\ Finally(r, "cancelled")

Run(r) ==
  \/ Refuse(r) \/ FailEarly(r) \/ StartFromCache(r) \/ StartDownload(r)
  \/ Serve(r) \/ ServeFails(r) \/ DeleteFails(r)
  \/ Prepare(r) \/ SendPart(r) \/ SendAlbum(r) \/ AlbumRejected(r)
  \/ SendFallback(r) \/ Archive(r) \/ ChargeDelivered(r) \/ Extras(r)
  \/ Close(r) \/ Raise(r) \/ Fail(r)

\* Every request has returned: the model ends there, the bot waits for more.
Finished == (\A r \in Requests : pc[r] = "done") /\ UNCHANGED vars

Next == (\E r \in Requests : Run(r) \/ Cancel(r)) \/ Finished

Spec == Init /\ [][Next]_vars

-----------------------------------------------------------------------------
(***************************************************************************)
(* Properties.                                                             *)
(***************************************************************************)

\* A request is charged at most once, and the charge is for exactly the parts
\* on its delivered_sizes list: nothing joins the list after the charge, and
\* the charge in the finally block never repeats the one after the loop
\* (pipeline.py:12-15).
OneExactCharge ==
  \A r \in Requests : bills[r] \in {<< >>, <<delivered[r]>>}

\* Has the upload loop of a request come to its end?
LoopEnded(r) == pos[r][1] > Len(plan[r].groups)

\* A request that has returned, on whatever path, has paid for what it put on the
\* list, unless every charge that was due raised: the one in the finally block
\* (750-758) and, once the upload loop had ended, the one after it (567-576),
\* which the finally block must have repeated.
NothingLeftUncharged ==
  \A r \in Requests :
    pc[r] = "done" /\ delivered[r] # {} /\ bills[r] = << >> =>
      failedCharges[r] = IF LoopEnded(r) THEN 2 ELSE 1

\* Nobody pays for a part that did not reach the chat.
OnlyDeliveredIsCharged ==
  \A r \in Requests : \A n \in DOMAIN bills[r] : bills[r][n] \subseteq acked[r]

\* At every await a part that reached the chat is already on the list, even if
\* its bandwidth update failed, unless it belongs to the album batch that is
\* being delivered.
UnrecordedOnlyInAlbum ==
  \A r \in Requests : \A p \in acked[r] \ delivered[r] :
    p[1] \in pos[r][1] .. album[r]

\* The "done" summary is shown only when every part of the result is in the
\* chat, whether it was uploaded or re-sent from the archive.
TruthfulSuccess ==
  \A r \in Requests : outcome[r] = "done" =>
    (IF resent[r] THEN archived[r] ELSE acked[r]) = PartsOf(plan[r])

\* A cache entry stands for a whole result: every part and every subtitle, of
\* a playlist that was not trimmed (pipeline.py:30-34).
CacheHoldsWholeResults ==
  \A k \in Keys : \A e \in cache[k] :
    /\ e.parts = PartsOf(e.plan)
    /\ e.parts # {}
    /\ e.subs
    /\ ~e.plan.trimmed

\* Megabytes of a set of parts, summed afresh from the plan.
Megabytes(r, S) == MapThenSumSet(LAMBDA p : Size(r, p), S)

\* A balance changes only in a step that charges one request of that user, by
\* the price of everything that request delivered or down to zero, and no paid
\* credit is taken while a free one is left (credits/service.py:7-12).
ChargesAreExact ==
  [][\A u \in Users : <<free[u], paid[u]>>' # <<free[u], paid[u]>> =>
       \E r \in Requests :
         LET mb == Megabytes(r, delivered[r])
             price == IF mb <= MbPerCredit THEN 1
                      ELSE CHOOSE c \in 1 .. mb : /\ (c - 1) * MbPerCredit < mb
                                                  /\ mb <= c * MbPerCredit
             balance == free[u] + paid[u]
         IN  /\ UserOf[r] = u
             /\ bills[r] = << >> /\ bills'[r] = <<delivered[r]>>
             /\ free'[u] + paid'[u] = balance - Smaller(price, balance)
             /\ paid'[u] < paid[u] => free'[u] = 0]_ledger

\* What the README promises ("only the parts actually delivered are charged";
\* LESSONS.md: "If only 2 of 3 parts are delivered, the request is charged for
\* those two"): a returned request has paid for every part in the chat.
DeliveredIsCharged ==
  \A r \in Requests : pc[r] = "done" /\ ~DbMayFail =>
    acked[r] \subseteq UNION {bills[r][n] : n \in DOMAIN bills[r]}
=============================================================================
