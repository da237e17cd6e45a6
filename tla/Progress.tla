------------------------------ MODULE Progress ------------------------------
(***************************************************************************)
(* MessageProgressReporter.update and _deferred_terminal_retry             *)
(* (telegram/progress.py): the status message of one request, edited by    *)
(* every coroutine that works for it, until a terminal text ends it.       *)
(*                                                                         *)
(* An update is a coroutine; pc names the await it is at:                  *)
(*   "waiting"   for the reporter's lock, to edit                          *)
(*   "edit"      editing the message, with the lock                        *)
(*   "plain"     editing it again, as plain text, with the lock            *)
(*   "asleep"    waiting out a flood, without the lock                     *)
(*   "fallback"  a terminal text that could not be edited in waits for the *)
(*               lock again                                                *)
(*   "respond"   sending that text as a new message, with the lock         *)
(*   "delete"    deleting the old message, the new one being out           *)
(*   "erase"     deleting the old message, no new one being out            *)
(* dpc does the same for the background task a terminal update leaves when *)
(* nothing worked.  That task never takes the lock.                        *)
(*                                                                         *)
(* A call to Telegram that fails has no effect.  One that is abandoned by  *)
(* a cancellation may have had its effect.                                 *)
(***************************************************************************)
EXTENDS Naturals, Sequences, FiniteSets

CONSTANTS
  MaxUpdates,  \* bound: how often update is called
  MaxTerminal, \* bound: how many of the calls have a terminal text
  MaxRetries,  \* max_retries, for the floods of one edit
  MaxFaults,   \* bound: how many calls of terminal updates may fail
  Gone,        \* what a deleted message shows
  Failed       \* the text of the last resort, which tells no reason

ASSUME ProgressAssumption ==
  /\ MaxUpdates \in Nat
  /\ MaxTerminal \in Nat
  /\ MaxRetries \in Nat \ {0}
  /\ MaxFaults \in Nat
  /\ Gone \notin Nat /\ Failed \notin Nat /\ Gone # Failed

\* The calls of update, by their sequence numbers; 0 stands for none.
Updates == 1 .. MaxUpdates

VARIABLES
  pc,          \* the await of each update; "idle" before, "done" after it,
               \* "dropped" if it had nothing to show or was cancelled
  kind,        \* what its text tells: progress, success or failure
  tries,       \* floods it has waited out
  old,         \* the message it captured for the fallback; 0 before
  holder,      \* who holds the lock
  count,       \* _seq
  applied,     \* _last_applied_seq, whose text is _last_text
  reached,     \* _is_terminal_completed
  delivered,   \* _terminal_delivered
  uneditable,  \* _uneditable
  message,     \* _message, as an index of shown
  shown,       \* what the messages of this request show: the text of an update,
               \* 0 for the one the router sent, Gone or Failed
  dpc,         \* the await of each update's deferred task
  clean,       \* its local already_deleted
  doomed,      \* was it cancelled?
  deferred,    \* _deferred_task, as the update it is for
  faults       \* failed calls of terminal updates so far

updating == <<pc, kind, tries, old, holder, count>>
reporter == <<applied, reached, delivered, uneditable, message>>
background == <<dpc, clean, doomed, deferred>>
vars == <<updating, reporter, shown, background, faults>>

Locked == {"edit", "plain", "respond", "delete", "erase"}
Awaits == Locked \cup {"waiting", "asleep", "fallback"}
Tasks == {"sleep", "edit", "respond", "delete", "erase", "mark", "send", "last"}

TypeOK ==
  /\ pc \in [Updates -> Awaits \cup {"idle", "done", "dropped"}]
  /\ kind \in [Updates -> {"progress", "done", "failure"}]
  /\ tries \in [Updates -> 0 .. MaxRetries]
  /\ old \in [Updates -> 0 .. Len(shown)]
  /\ holder \in 0 .. count
  /\ \A u \in Updates : holder = u <=> pc[u] \in Locked
  /\ count \in 0 .. MaxUpdates
  /\ applied \in 0 .. count
  /\ reached \in BOOLEAN
  /\ delivered \in BOOLEAN
  /\ uneditable \in BOOLEAN
  /\ message \in DOMAIN shown
  /\ shown \in Seq(0 .. count \cup {Gone, Failed})
  /\ dpc \in [Updates -> Tasks \cup {"none", "done"}]
  /\ clean \in [Updates -> BOOLEAN]
  /\ doomed \in [Updates -> BOOLEAN]
  /\ deferred \in 0 .. count
  /\ faults \in 0 .. MaxFaults

\* The router has sent the status message, which looks like a download.
Init ==
  /\ pc = [u \in Updates |-> "idle"]
  /\ kind = [u \in Updates |-> "progress"]
  /\ tries = [u \in Updates |-> 0]
  /\ old = [u \in Updates |-> 0]
  /\ holder = 0
  /\ count = 0
  /\ applied = 0
  /\ reached = FALSE
  /\ delivered = FALSE
  /\ uneditable = FALSE
  /\ message = 1
  /\ shown = <<0>>
  /\ dpc = [u \in Updates |-> "none"]
  /\ clean = [u \in Updates |-> FALSE]
  /\ doomed = [u \in Updates |-> FALSE]
  /\ deferred = 0
  /\ faults = 0

-----------------------------------------------------------------------------
\* Helpers.

Terminal(u) == kind[u] # "progress"

Go(u, await) == pc' = [pc EXCEPT ![u] = await]

\* Show(m, x) is an edit, which a message that is gone refuses, Delete(m) a
\* deletion, and Send(x) a new message.
Show(m, x) == shown[m] # Gone /\ shown' = [shown EXCEPT ![m] = x]
Delete(m) == shown' = [shown EXCEPT ![m] = Gone]
Send(x) == shown' = Append(shown, x)

\* A call fails.
Fails == faults < MaxFaults /\ faults' = faults + 1

EditFailsOn(m) == IF shown[m] = Gone THEN UNCHANGED faults ELSE Fails

\* Is a progress text behind what the message shows?
Stale(u) == ~Terminal(u) /\ (reached \/ u < applied)

\* A coroutine gets the lock without an await if it is free and nobody queues
\* for it: to edit, or, having just released it, to fall back.
Queued(u) == \E v \in Updates \ {u} : pc[v] \in {"waiting", "fallback"}

Enter(u) ==
  IF holder = 0 /\ ~Queued(u) THEN Go(u, "edit") /\ holder' = u
                              ELSE Go(u, "waiting") /\ UNCHANGED holder

FallBack(u) ==
  IF Queued(u) THEN Go(u, "fallback") /\ holder' = 0
               ELSE Go(u, "respond") /\ UNCHANGED holder

\* mark_terminal_delivered: the pending task of another update is cancelled.
MarkDelivered(u) ==
  /\ reached' = TRUE
  /\ delivered' = TRUE
  /\ doomed' = [v \in Updates |->
                  doomed[v] \/ (v = deferred /\ v # u /\ dpc[v] \in Tasks)]

\* The text of u is out: what update notes with every success.
Noted(u) ==
  /\ applied' = u
  /\ uneditable' = FALSE
  /\ IF Terminal(u) THEN MarkDelivered(u)
                    ELSE UNCHANGED <<reached, delivered, doomed>>

-----------------------------------------------------------------------------
\* update.

\* Up to the first await.  A text that is shown already, a progress text after
\* a terminal one, and one for a message that cannot be edited are dropped.
\* Only one terminal text is on its way at a time: the router and the pipeline
\* look at is_terminal_completed first, or await one after the other.
Call(u) ==
  /\ u = count + 1
  /\ \E k \in {"progress", "done", "failure"} :
       LET terminal == k # "progress" IN
       /\ kind' = [kind EXCEPT ![u] = k]
       /\ terminal => /\ \A v \in Updates : Terminal(v) => pc[v] \notin Awaits
                      /\ Cardinality({v \in Updates : Terminal(v)}) < MaxTerminal
       /\ reached' = (reached \/ terminal)
       /\ \/ /\ terminal \/ ~(reached \/ uneditable)
             /\ Enter(u)
          \/ /\ \/ ~terminal /\ (reached \/ uneditable)
                \/ applied # 0 /\ kind[applied] = k
             /\ Go(u, "dropped")
             /\ UNCHANGED holder
  /\ count' = u
  /\ UNCHANGED <<tries, old, applied, delivered, uneditable, message,
                 shown, background, faults>>

\* Mutant: what may have happened since the call is not looked at.
MutAcquire(u) ==
  /\ holder = 0
  /\ \/ pc[u] = "waiting" /\ Go(u, "edit") /\ holder' = u
     \/ pc[u] = "fallback" /\ Go(u, "respond") /\ holder' = u
  /\ UNCHANGED <<kind, tries, old, count, reporter, shown, background, faults>>

\* The lock is passed on; the order of the queue does not matter here.
Acquire(u) ==
  /\ holder = 0
  /\ \/ pc[u] = "waiting" /\ Stale(u) /\ Go(u, "done") /\ UNCHANGED holder
     \/ pc[u] = "waiting" /\ ~Stale(u) /\ Go(u, "edit") /\ holder' = u
     \/ pc[u] = "fallback" /\ Go(u, "respond") /\ holder' = u
  /\ UNCHANGED <<kind, tries, old, count, reporter, shown, background, faults>>

\* The edit, or the plain one after it, goes through or changes nothing.
Edited(u) ==
  /\ pc[u] \in {"edit", "plain"}
  /\ Show(message, u)
  /\ Noted(u)
  /\ Go(u, "done")
  /\ holder' = 0
  /\ UNCHANGED <<kind, tries, old, count, message, dpc, clean, deferred, faults>>

\* The content was rejected: once more without entities and buttons.
Rejected(u) ==
  /\ pc[u] = "edit"
  /\ shown[message] # Gone
  /\ Go(u, "plain")
  /\ UNCHANGED <<kind, tries, old, holder, count, reporter, shown, background, faults>>

\* The loop is left without a success; a terminal text falls back.  A permanent
\* error of the first edit also makes the message uneditable.
EditFails(u) ==
  /\ pc[u] \in {"edit", "plain"}
  /\ \/ UNCHANGED uneditable
     \/ pc[u] = "edit" /\ uneditable' = TRUE
  /\ \/ Terminal(u) /\ EditFailsOn(message) /\ FallBack(u)
     \/ ~Terminal(u) /\ UNCHANGED faults /\ Go(u, "done") /\ holder' = 0
  /\ UNCHANGED <<kind, tries, old, count, applied, reached, delivered,
                 message, shown, background>>

\* Mutant: the floods are not counted.
MutFlooded(u) ==
  /\ pc[u] = "edit"
  /\ Go(u, "asleep")
  /\ holder' = 0
  /\ UNCHANGED <<kind, tries, old, count, reporter, shown, background, faults>>

\* A flood wait.  A progress text is given up at the second one, or if the wait
\* is long; a terminal one only after MaxRetries or if the wait is very long.
Flooded(u) ==
  /\ pc[u] = "edit"
  /\ \/ /\ tries[u] < (IF Terminal(u) THEN MaxRetries ELSE 1)
        /\ tries' = [tries EXCEPT ![u] = @ + 1]
        /\ Go(u, "asleep")
        /\ holder' = 0
        /\ UNCHANGED faults
     \/ ~Terminal(u) /\ Go(u, "done") /\ holder' = 0 /\ UNCHANGED <<tries, faults>>
     \/ Terminal(u) /\ FallBack(u) /\ Fails /\ UNCHANGED tries
  /\ UNCHANGED <<kind, old, count, reporter, shown, background>>

\* Mutant: the next attempt does not take the lock.
MutWake(u) ==
  /\ pc[u] = "asleep"
  /\ Go(u, IF Stale(u) THEN "done" ELSE "edit")
  /\ UNCHANGED <<kind, tries, old, holder, count, reporter, shown, background, faults>>

Wake(u) ==
  /\ pc[u] = "asleep"
  /\ IF Stale(u) THEN Go(u, "done") /\ UNCHANGED holder
                 ELSE Enter(u)
  /\ UNCHANGED <<kind, tries, old, count, reporter, shown, background, faults>>

\* The text went out as a new message, which takes the place of the old one.
Responded(u) ==
  /\ pc[u] = "respond"
  /\ Send(u)
  /\ message' = Len(shown')
  /\ old' = [old EXCEPT ![u] = message]
  /\ Noted(u)
  /\ Go(u, "delete")
  /\ UNCHANGED <<kind, tries, holder, count, dpc, clean, deferred, faults>>

RespondFails(u) ==
  /\ pc[u] = "respond"
  /\ Fails
  /\ old' = [old EXCEPT ![u] = message]
  /\ Go(u, "erase")
  /\ UNCHANGED <<kind, tries, holder, count, reporter, shown, background>>

Deleted(u) ==
  /\ pc[u] = "delete"
  /\ \/ Delete(old[u]) /\ UNCHANGED faults
     \/ Fails /\ UNCHANGED shown
  /\ Go(u, "done")
  /\ holder' = 0
  /\ UNCHANGED <<kind, tries, old, count, reporter, background>>

\* A task is left that tries again later.
Defer(u, wasDeleted) ==
  /\ dpc' = [dpc EXCEPT ![u] = "sleep"]
  /\ clean' = [clean EXCEPT ![u] = wasDeleted]
  /\ deferred' = u
  /\ UNCHANGED doomed

\* Mutant: with the old message gone nothing is left to do.
MutErased(u) ==
  /\ pc[u] = "erase"
  /\ Delete(old[u])
  /\ UNCHANGED background
  /\ Go(u, "done")
  /\ holder' = 0
  /\ UNCHANGED <<kind, tries, old, count, reporter, faults>>

\* The old message is deleted; a failure must still be told.
Erased(u) ==
  /\ pc[u] = "erase"
  /\ Delete(old[u])
  /\ IF kind[u] = "failure" THEN Defer(u, TRUE) ELSE UNCHANGED background
  /\ Go(u, "done")
  /\ holder' = 0
  /\ UNCHANGED <<kind, tries, old, count, reporter, faults>>

\* Mutant: a success has nothing left to tell.
MutEraseFails(u) ==
  /\ pc[u] = "erase"
  /\ Fails
  /\ IF kind[u] = "failure" THEN Defer(u, FALSE) ELSE UNCHANGED background
  /\ Go(u, "done")
  /\ holder' = 0
  /\ UNCHANGED <<kind, tries, old, count, reporter, shown>>

EraseFails(u) ==
  /\ pc[u] = "erase"
  /\ Fails
  /\ Defer(u, FALSE)
  /\ Go(u, "done")
  /\ holder' = 0
  /\ UNCHANGED <<kind, tries, old, count, reporter, shown>>

\* CancelledError, from the cancel button or from the time-out that the upload
\* puts on a progress callback.
Cancel(u) ==
  /\ pc[u] \in Awaits
  /\ \/ UNCHANGED shown
     \/ pc[u] \in {"edit", "plain"} /\ Show(message, u)
     \/ pc[u] = "respond" /\ Send(u)
     \/ pc[u] \in {"delete", "erase"} /\ Delete(old[u])
  /\ Go(u, "dropped")
  /\ holder' = IF holder = u THEN 0 ELSE holder
  /\ UNCHANGED <<kind, tries, old, count, reporter, background, faults>>

-----------------------------------------------------------------------------
\* _deferred_terminal_retry.

DeferredGo(u, await) == dpc' = [dpc EXCEPT ![u] = await]

DeferredAt(u, await) == dpc[u] = await /\ ~doomed[u]

\* The wait is over: another terminal text may be out by now.
DeferredWakes(u) ==
  /\ DeferredAt(u, "sleep")
  /\ DeferredGo(u, CASE delivered -> "done"
                     [] ~delivered /\ kind[u] = "done" -> "delete"
                     [] ~delivered /\ kind[u] = "failure" ->
                          (IF clean[u] THEN "respond" ELSE "edit"))
  /\ UNCHANGED <<updating, reporter, shown, clean, doomed, deferred, faults>>

\* Mutant: the text is sent as well.
MutDeferredEdited(u) ==
  /\ DeferredAt(u, "edit")
  /\ Show(old[u], u)
  /\ MarkDelivered(u)
  /\ DeferredGo(u, "respond")
  /\ UNCHANGED <<updating, applied, uneditable, message, clean, deferred, faults>>

DeferredEdited(u) ==
  /\ DeferredAt(u, "edit")
  /\ Show(old[u], u)
  /\ MarkDelivered(u)
  /\ DeferredGo(u, "delete")
  /\ UNCHANGED <<updating, applied, uneditable, message, clean, deferred, faults>>

DeferredEditFails(u) ==
  /\ DeferredAt(u, "edit")
  /\ EditFailsOn(old[u])
  /\ DeferredGo(u, "respond")
  /\ UNCHANGED <<updating, reporter, shown, clean, doomed, deferred>>

DeferredResponded(u) ==
  /\ DeferredAt(u, "respond")
  /\ Send(u)
  /\ message' = Len(shown')
  /\ MarkDelivered(u)
  /\ DeferredGo(u, IF clean[u] THEN "done" ELSE "delete")
  /\ UNCHANGED <<updating, applied, uneditable, clean, deferred, faults>>

DeferredRespondFails(u) ==
  /\ DeferredAt(u, "respond")
  /\ Fails
  /\ DeferredGo(u, IF clean[u] THEN "send" ELSE "erase")
  /\ UNCHANGED <<updating, reporter, shown, clean, doomed, deferred>>

DeferredDeleted(u) ==
  /\ DeferredAt(u, "delete")
  /\ \/ Delete(old[u]) /\ UNCHANGED faults
     \/ Fails /\ UNCHANGED shown
  /\ DeferredGo(u, "done")
  /\ UNCHANGED <<updating, reporter, clean, doomed, deferred>>

\* No way to tell the failure: at least the old message has to go, or to say
\* that something failed.
DeferredErased(u) ==
  /\ DeferredAt(u, "erase")
  /\ \/ Delete(old[u]) /\ DeferredGo(u, "send") /\ UNCHANGED faults
     \/ Fails /\ DeferredGo(u, "mark") /\ UNCHANGED shown
  /\ UNCHANGED <<updating, reporter, clean, doomed, deferred>>

DeferredMarked(u) ==
  /\ DeferredAt(u, "mark")
  /\ \/ Show(old[u], Failed) /\ UNCHANGED faults
     \/ EditFailsOn(old[u]) /\ UNCHANGED shown
  /\ DeferredGo(u, "send")
  /\ UNCHANGED <<updating, reporter, clean, doomed, deferred>>

\* The last ways to tell the user: a plain message, and one more.
DeferredSends(u) ==
  /\ DeferredAt(u, "send") \/ DeferredAt(u, "last")
  /\ \/ /\ Send(u)
        /\ MarkDelivered(u)
        /\ DeferredGo(u, "done")
        /\ UNCHANGED faults
     \/ /\ Fails
        /\ DeferredGo(u, IF dpc[u] = "send" THEN "last" ELSE "done")
        /\ UNCHANGED <<shown, reached, delivered, doomed>>
  /\ UNCHANGED <<updating, applied, uneditable, message, clean, deferred>>

\* The cancelled task unwinds.
DeferredUnwinds(u) ==
  /\ dpc[u] \in Tasks /\ doomed[u]
  /\ \/ UNCHANGED shown
     \/ dpc[u] = "edit" /\ Show(old[u], u)
     \/ dpc[u] \in {"respond", "send", "last"} /\ Send(u)
     \/ dpc[u] \in {"delete", "erase"} /\ Delete(old[u])
     \/ dpc[u] = "mark" /\ Show(old[u], Failed)
  /\ DeferredGo(u, "done")
  /\ UNCHANGED <<updating, reporter, clean, doomed, deferred, faults>>

-----------------------------------------------------------------------------
Advance(u) ==
  \/ Acquire(u) \/ Edited(u) \/ Rejected(u) \/ EditFails(u) \/ Flooded(u) \/ Wake(u)
  \/ Responded(u) \/ RespondFails(u) \/ Deleted(u) \/ Erased(u) \/ EraseFails(u)

Retry(u) ==
  \/ DeferredWakes(u) \/ DeferredEdited(u) \/ DeferredEditFails(u)
  \/ DeferredResponded(u) \/ DeferredRespondFails(u) \/ DeferredDeleted(u)
  \/ DeferredErased(u) \/ DeferredMarked(u) \/ DeferredSends(u) \/ DeferredUnwinds(u)

\* Everything has come to rest; the request is over.
Quiet == \A u \in Updates : pc[u] \notin Awaits /\ dpc[u] \notin Tasks

AtRest == Quiet /\ count = MaxUpdates /\ UNCHANGED vars

Next ==
  \/ \E u \in Updates : Call(u) \/ Advance(u) \/ Cancel(u) \/ Retry(u)
  \/ AtRest

Spec == Init /\ [][Next]_vars

\* Calls to Telegram return or raise, floods are waited out for a bounded time,
\* and the lock is passed on.
FairSpec ==
  Spec /\ \A u \in Updates : WF_vars(Advance(u)) /\ WF_vars(Retry(u))

-----------------------------------------------------------------------------
(***************************************************************************)
(* Properties.                                                             *)
(***************************************************************************)

\* A message never goes back: a progress text gives way to a later one or to a
\* terminal one, and a terminal text to another terminal one (the sequence
\* numbers and the checks around the lock, 476-518).  An abandoned progress edit
\* is excepted: the reporter does not learn whether it had its effect.
NeverBackwards ==
  [][\A m \in DOMAIN shown :
       /\ shown[m] \in Updates /\ shown'[m] \in Updates
       /\ shown'[m] # shown[m]
       /\ Terminal(shown[m]) \/ pc[shown[m]] = "done"
       => \/ Terminal(shown'[m])
          \/ ~Terminal(shown[m]) /\ shown[m] < shown'[m]]_shown

\* No terminal text is in the chat twice, whatever was retried in the
\* background ("sends exactly one final message", tests/test_m10_7.py:159).
ToldOnce ==
  \A u \in Updates : Terminal(u) =>
    Cardinality({m \in DOMAIN shown : shown[m] = u}) <= 1

\* The terminal update of the request, which ran to its end.  (A second one that
\* has to fall back may delete what the first one showed.)
Verdict(u) ==
  /\ Terminal(u) /\ pc[u] = "done"
  /\ \A v \in Updates : Terminal(v) => v = u

Visible(u) == \E m \in DOMAIN shown : shown[m] = u

LooksRunning(m) == shown[m] = 0 \/ (shown[m] \in Updates /\ ~Terminal(shown[m]))

\* "The user never stays looking at false progress" (475): when everything has
\* come to rest, the verdict is in the chat or nothing looks like a running
\* download, after as many as three failed calls.
NoFalseProgress ==
  Quiet /\ faults <= 3 => \A u \in Updates : Verdict(u) =>
    Visible(u) \/ \A m \in DOMAIN shown : ~LooksRunning(m)

\* Neither the edit nor the new message works, and the failure is told all the
\* same, in the background.
FailureSurvivesTwoFaults ==
  Quiet /\ faults <= 2 => \A u \in Updates :
    Verdict(u) /\ kind[u] = "failure" => Visible(u)

\* Every update comes to an end, however it is flooded.
EveryUpdateEnds ==
  \A u \in Updates : pc[u] \in Awaits ~> pc[u] \notin Awaits

\* What the docstring of the deferred retry promises (208-209): on failure the
\* user receives an error indication.  If a call that tells the failure worked,
\* its text is in the chat when everything has come to rest.
DeliveredFailureIsVisible ==
  Quiet /\ delivered => \A u \in Updates :
    Verdict(u) /\ kind[u] = "failure" => Visible(u)
=============================================================================
