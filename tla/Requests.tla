------------------------------ MODULE Requests ------------------------------
(***************************************************************************)
(* The handlers of telegram/router.py in one private chat, with the        *)
(* registry behind the cancel button, the store behind the retry button    *)
(* (telegram/retry.py) and the pending confirmations.  DownloadPipeline is *)
(* reduced to how a run of it ends; Pipeline models the rest.              *)
(*                                                                         *)
(* A handler is a coroutine that a link or a button press starts.  It and  *)
(* the pipeline task it creates run from one await to the next, and pc     *)
(* names the await it is at:                                               *)
(*   "offering"  the live-window question is out, not yet stored           *)
(*   "starting"  answering the press, turning the message into a status    *)
(*   "queued"    waiting for the limiter's slot                            *)
(*   "running"   pipeline.run in its own task                              *)
(*   "telling"   pipeline.run showing its last text                        *)
(*   "deleting"  its text went out as a new message, the old one goes      *)
(*   "unwinding" the task was cancelled, the handler shows that            *)
(*   "scanning"  searching the page for media                              *)
(*   "toasting"  a cancel press being answered                             *)
(*   "late"      a handler showing a last text of its own                  *)
(* Presses that only get a toast change nothing and are left out.  When a  *)
(* task ends its handler is resumed in the event loop's next turn, which   *)
(* is too soon for anybody else to finish an await: the two are one step.  *)
(***************************************************************************)
EXTENDS FiniteSets

CONSTANTS
  Handlers,   \* handler calls
  Messages,   \* the bot's messages in the chat
  None        \* no handler, message or context

ASSUME RequestsAssumption ==
  /\ Handlers \cap Messages = {}
  /\ None \notin Handlers \cup Messages

Stages == {"idle", "offering", "starting", "queued", "running", "telling",
           "deleting", "unwinding", "scanning", "toasting", "late", "done"}
Ends == {"none", "done", "failed", "notmedia"}
Tasks == {"running", "telling", "deleting"}
Faces == {"nothing", "menu", "confirm", "status", "picker", "retry", "text", "gone"}
Live == {"idle", "running"}

VARIABLES
  pc,        \* the await each handler is at
  at,        \* the message of the handler's reporter
  home,      \* the message its run is registered under
  offer,     \* the confirmation or retry context a handler runs on
  target,    \* the request a cancel press is for
  end,       \* how the pipeline run ended
  reached,   \* is_terminal_completed of the handler's reporter
  doomed,    \* task.cancel() was called and the task has not unwound
  shown,     \* what each message shows
  button,    \* the context the retry button of a message carries
  registry,  \* active_cancellations: at most one handler for each message
  confirm,   \* pending_hls_confirmations
  scan,      \* pending_page_scans
  retry,     \* RetryStore._entries: a context is named by the run it repeats
  key,       \* RetryContext.message_id
  byMsg,     \* RetryStore._by_msg: at most one context for each message
  fee,       \* was a credit taken by url_handler itself?
  crossed    \* history: the handlers whose run met another one of its message

handlers == <<pc, at, home, offer, target, end, reached, doomed>>
store == <<retry, key, byMsg>>
vars == <<handlers, shown, button, registry, crossed, confirm, scan, store, fee>>

AtMostOne(S) == {{}} \cup {{x} : x \in S}

TypeOK ==
  /\ pc \in [Handlers -> Stages]
  /\ at \in [Handlers -> Messages \cup {None}]
  /\ home \in [Handlers -> Messages \cup {None}]
  /\ offer \in [Handlers -> Handlers \cup Messages \cup {None}]
  /\ target \in [Handlers -> Handlers \cup {None}]
  /\ end \in [Handlers -> Ends]
  /\ reached \in [Handlers -> BOOLEAN]
  /\ doomed \in [Handlers -> BOOLEAN]
  /\ shown \in [Messages -> Faces]
  /\ button \in [Messages -> Handlers \cup {None}]
  /\ registry \in [Messages -> AtMostOne(Handlers)]
  /\ confirm \in [Messages -> BOOLEAN]
  /\ scan \in [Messages -> BOOLEAN]
  /\ retry \in [Handlers -> Live \cup {"none", "spent", "refused", "lapsed", "dropped"}]
  /\ key \in [Handlers -> Messages \cup {None}]
  /\ byMsg \in [Messages -> AtMostOne(Handlers)]
  /\ fee \in [Handlers -> BOOLEAN]
  /\ crossed \in SUBSET Handlers

Init ==
  /\ pc = [j \in Handlers |-> "idle"]
  /\ at = [j \in Handlers |-> None]
  /\ home = [j \in Handlers |-> None]
  /\ offer = [j \in Handlers |-> None]
  /\ target = [j \in Handlers |-> None]
  /\ end = [j \in Handlers |-> "none"]
  /\ reached = [j \in Handlers |-> FALSE]
  /\ doomed = [j \in Handlers |-> FALSE]
  /\ shown = [m \in Messages |-> "nothing"]
  /\ button = [m \in Messages |-> None]
  /\ registry = [m \in Messages |-> {}]
  /\ confirm = [m \in Messages |-> FALSE]
  /\ scan = [m \in Messages |-> FALSE]
  /\ retry = [j \in Handlers |-> "none"]
  /\ key = [j \in Handlers |-> None]
  /\ byMsg = [m \in Messages |-> {}]
  /\ fee = [j \in Handlers |-> FALSE]
  /\ crossed = {}

Go(j, stage) == pc' = [pc EXCEPT ![j] = stage]
Show(m, face) == shown' = [shown EXCEPT ![m] = face]
Fresh(m) == shown[m] = "nothing"

-----------------------------------------------------------------------------
\* RetryStore.  A context that is in _entries is "idle" or "running"
\* (is_running); the other values say why it is there no more.

\* Mutant: the entry of the replaced context stays.
MutPut(j, m) ==
  /\ retry' = [retry EXCEPT ![j] = "idle"]
  /\ key' = [key EXCEPT ![j] = m]
  /\ byMsg' = [byMsg EXCEPT ![m] = {j}]

\* put: the context replaces the one of its message.
Put(j, m) ==
  /\ retry' = [i \in Handlers |-> IF i = j THEN "idle"
                                  ELSE IF i \in byMsg[m] THEN "dropped"
                                  ELSE retry[i]]
  /\ key' = [key EXCEPT ![j] = m]
  /\ byMsg' = [byMsg EXCEPT ![m] = {j}]

\* get by the id on the button, else by the message: the contexts it finds.
Lookup(m) ==
  IF button[m] # None /\ retry[button[m]] \in Live THEN {button[m]} ELSE byMsg[m]

\* A context leaves _entries, and _by_msg if it is still listed there.
Forget(i, why) ==
  /\ retry' = [retry EXCEPT ![i] = IF @ \in Live THEN why ELSE @]
  /\ byMsg' = [m \in Messages |-> IF retry[i] \in Live /\ m = key[i]
                                    THEN byMsg[m] \ {i} ELSE byMsg[m]]
  /\ UNCHANGED key

\* remove((chat_id, message_id)) for a message.
ForgetMessage(m) ==
  /\ retry' = [i \in Handlers |-> IF i \in byMsg[m] THEN "refused" ELSE retry[i]]
  /\ byMsg' = [byMsg EXCEPT ![m] = {}]
  /\ UNCHANGED key

\* The time to live ends, or the store is full and drops its oldest entry.
RetryLapses(i) ==
  /\ retry[i] \in Live
  /\ Forget(i, "lapsed")
  /\ UNCHANGED <<handlers, shown, button, registry, crossed, confirm, scan, fee>>

\* Mutant: the finished retry drops whatever context its message has.
MutLeave(j) ==
  /\ Go(j, "done")
  /\ IF offer[j] \in Handlers
       THEN /\ retry' = [i \in Handlers |-> IF i \in byMsg[at[j]] THEN "dropped"
                                            ELSE retry[i]]
            /\ byMsg' = [byMsg EXCEPT ![at[j]] = {}]
            /\ UNCHANGED key
       ELSE UNCHANGED store

\* _execute_download returns; after a retry, its context is removed.
Leave(j) ==
  /\ Go(j, "done")
  /\ IF offer[j] \in Handlers THEN Forget(offer[j], "spent") ELSE UNCHANGED store

-----------------------------------------------------------------------------
\* url_handler: a link.

\* The quality menu is sent; its buttons go on working.
LinkGetsMenu(j) ==
  /\ pc[j] = "idle"
  /\ \E m \in Messages : Fresh(m) /\ Show(m, "menu")
  /\ Go(j, "done")
  /\ UNCHANGED <<at, home, offer, target, end, reached, doomed,
                 button, registry, crossed, confirm, scan, store, fee>>

\* A live window: the question is sent ...
LinkGetsQuestion(j) ==
  /\ pc[j] = "idle"
  /\ \E m \in Messages : /\ Fresh(m) /\ Show(m, "confirm")
                         /\ at' = [at EXCEPT ![j] = m]
  /\ Go(j, "offering")
  /\ UNCHANGED <<home, offer, target, end, reached, doomed,
                 button, registry, crossed, confirm, scan, store, fee>>

\* ... and only then is it stored.
StoreQuestion(j) ==
  /\ pc[j] = "offering"
  /\ confirm' = [confirm EXCEPT ![at[j]] = TRUE]
  /\ Go(j, "done")
  /\ UNCHANGED <<at, home, offer, target, end, reached, doomed,
                 shown, button, registry, crossed, scan, store, fee>>

\* The status message with the cancel button is sent.
LinkGetsStatus(j) ==
  /\ pc[j] = "idle"
  /\ \E m \in Messages : /\ Fresh(m) /\ Show(m, "status")
                         /\ at' = [at EXCEPT ![j] = m]
                         /\ home' = [home EXCEPT ![j] = m]
  /\ Go(j, "queued")
  /\ UNCHANGED <<offer, target, end, reached, doomed,
                 button, registry, crossed, confirm, scan, store, fee>>

\* The handler fails before a download is started, says so and takes a credit.
LinkFails(j) ==
  /\ pc[j] = "idle"
  /\ fee' = [fee EXCEPT ![j] = TRUE]
  /\ Go(j, "done")
  /\ UNCHANGED <<at, home, offer, target, end, reached, doomed,
                 shown, button, registry, crossed, confirm, scan, store>>

-----------------------------------------------------------------------------
\* Presses.  A button can be pressed as long as the message shows it.

PressQuality(j) ==
  /\ pc[j] = "idle"
  /\ \E m \in Messages : shown[m] = "menu" /\ at' = [at EXCEPT ![j] = m]
  /\ Go(j, "starting")
  /\ UNCHANGED <<home, offer, target, end, reached, doomed,
                 shown, button, registry, crossed, confirm, scan, store, fee>>

\* Mutant: the confirmation is still there while the press is answered.
MutPressConfirm(j) ==
  /\ pc[j] = "idle"
  /\ \E m \in Messages :
       /\ shown[m] = "confirm" /\ confirm[m]
       /\ at' = [at EXCEPT ![j] = m]
       /\ \/ Go(j, "starting") /\ offer' = [offer EXCEPT ![j] = m]
          \/ Go(j, "late") /\ UNCHANGED offer
  /\ UNCHANGED <<home, target, end, reached, doomed,
                 shown, button, registry, crossed, confirm, scan, store, fee>>

\* The confirmation is used up first; then the download starts, or the message
\* says that the user declined or came too late.
PressConfirm(j) ==
  /\ pc[j] = "idle"
  /\ \E m \in Messages :
       /\ shown[m] = "confirm" /\ confirm[m]
       /\ confirm' = [confirm EXCEPT ![m] = FALSE]
       /\ at' = [at EXCEPT ![j] = m]
       /\ \/ Go(j, "starting") /\ offer' = [offer EXCEPT ![j] = m]
          \/ Go(j, "late") /\ UNCHANGED offer
  /\ UNCHANGED <<home, target, end, reached, doomed,
                 shown, button, registry, crossed, scan, store, fee>>

\* Another handler sweeps a confirmation nobody pressed in time.
ConfirmLapses(m) ==
  /\ confirm[m]
  /\ confirm' = [confirm EXCEPT ![m] = FALSE]
  /\ UNCHANGED <<handlers, shown, button, registry, crossed, scan, store, fee>>

PressRetry(j) ==
  /\ pc[j] = "idle"
  /\ \E m \in Messages : \E i \in Lookup(m) :
       /\ shown[m] = "retry"
       /\ retry[i] = "idle"
       /\ retry' = [retry EXCEPT ![i] = "running"]
       /\ offer' = [offer EXCEPT ![j] = i]
       /\ at' = [at EXCEPT ![j] = m]
  /\ Go(j, "starting")
  /\ UNCHANGED <<home, target, end, reached, doomed,
                 shown, button, registry, crossed, confirm, scan, key, byMsg, fee>>

\* Mutant: the entry is used up by the press.
MutPressCancel(j) ==
  /\ pc[j] = "idle"
  /\ \E m \in Messages : \E k \in registry[m] :
       /\ shown[m] = "status"
       /\ target' = [target EXCEPT ![j] = k]
       /\ doomed' = [doomed EXCEPT ![k] = @ \/ pc[k] \in Tasks]
       /\ registry' = [registry EXCEPT ![m] = {}]
  /\ UNCHANGED crossed
  /\ Go(j, "toasting")
  /\ UNCHANGED <<at, home, offer, end, reached,
                 shown, button, confirm, scan, store, fee>>

\* task.cancel() takes effect when the task is next resumed; a task that has
\* ended already, or is unwinding, is not affected.
PressCancel(j) ==
  /\ pc[j] = "idle"
  /\ \E m \in Messages : \E k \in registry[m] :
       /\ shown[m] = "status"
       /\ target' = [target EXCEPT ![j] = k]
       /\ doomed' = [doomed EXCEPT ![k] = @ \/ pc[k] \in Tasks]
  /\ Go(j, "toasting")
  /\ UNCHANGED <<at, home, offer, end, reached,
                 shown, button, registry, crossed, confirm, scan, store, fee>>

\* The press is answered; the message is told unless the request got there.
Toasted(j) ==
  /\ pc[j] = "toasting"
  /\ IF reached[target[j]]
       THEN Go(j, "done") /\ UNCHANGED <<at, reached>>
       ELSE /\ Go(j, "late")
            /\ at' = [at EXCEPT ![j] = at[target[j]]]
            /\ reached' = [reached EXCEPT ![target[j]] = TRUE]
  /\ UNCHANGED <<home, offer, target, end, doomed,
                 shown, button, registry, crossed, confirm, scan, store, fee>>

-----------------------------------------------------------------------------
\* From the press to the slot.

\* The message has become the status of this download.
Start(j) ==
  /\ pc[j] = "starting"
  /\ Show(at[j], "status")
  /\ home' = [home EXCEPT ![j] = at[j]]
  /\ Go(j, "queued")
  /\ UNCHANGED <<at, offer, target, end, reached, doomed,
                 button, registry, crossed, confirm, scan, store, fee>>

\* It could not be edited: the status is a new message.  A retry also tries to
\* take the button off the old one.
StartElsewhere(j) ==
  /\ pc[j] = "starting" /\ offer[j] \notin Messages
  /\ \E m \in Messages :
       /\ Fresh(m)
       /\ \/ Show(m, "status")
          \/ /\ offer[j] \in Handlers
             /\ shown' = [shown EXCEPT ![m] = "status", ![at[j]] = "text"]
       /\ at' = [at EXCEPT ![j] = m]
       /\ home' = [home EXCEPT ![j] = m]
  /\ Go(j, "queued")
  /\ UNCHANGED <<offer, target, end, reached, doomed,
                 button, registry, crossed, confirm, scan, store, fee>>

\* Mutant: is_running is not reset.
MutStartFails(j) ==
  /\ pc[j] = "starting"
  /\ Go(j, "done")
  /\ UNCHANGED <<at, home, offer, target, end, reached, doomed,
                 shown, button, registry, crossed, confirm, scan, store, fee>>

\* An exception before the download is started: a retry context can be used
\* again, a confirmation is lost, and a menu shows that the download failed.
StartFails(j) ==
  /\ pc[j] = "starting"
  /\ Go(j, IF offer[j] = None THEN "late" ELSE "done")
  /\ retry' = [i \in Handlers |-> IF i = offer[j] /\ retry[i] = "running"
                                    THEN "idle" ELSE retry[i]]
  /\ UNCHANGED <<at, home, offer, target, end, reached, doomed,
                 shown, button, registry, crossed, confirm, scan, key, byMsg, fee>>

\* The quota errors: the message's context goes, and the reporter says why.
TellQuota(j) ==
  /\ ForgetMessage(at[j])
  /\ reached' = [reached EXCEPT ![j] = TRUE]
  /\ Go(j, "late")

\* A playlist for which no credit is left.
RefusedEarly(j) ==
  /\ pc[j] = "queued"
  /\ TellQuota(j)
  /\ UNCHANGED <<at, home, offer, target, end, doomed,
                 shown, button, registry, crossed, confirm, scan, fee>>

\* The database fails before the slot: the handler tells it, with a button.
FailEarly(j) ==
  /\ pc[j] = "queued"
  /\ end' = [end EXCEPT ![j] = "failed"]
  /\ reached' = [reached EXCEPT ![j] = TRUE]
  /\ Put(j, at[j])
  /\ Go(j, "late")
  /\ UNCHANGED <<at, home, offer, target, doomed,
                 shown, button, registry, crossed, confirm, scan, fee>>

\* Is the task of the handler between its creation and the finally block?
InFlight(j) == pc[j] \in Tasks \cup {"unwinding"}

\* The runs of the same message that are in flight when j comes.
Peers(j) == {k \in Handlers \ {j} : InFlight(k) /\ home[k] = home[j]}

Meet(j) == crossed' = crossed \cup (IF Peers(j) = {} THEN {} ELSE Peers(j) \cup {j})

\* _run_cancellable: the task is created and registered, in the place of any
\* other one of the message.
Register(j) ==
  /\ pc[j] = "queued"
  /\ registry' = [registry EXCEPT ![home[j]] = {j}]
  /\ Meet(j)
  /\ Go(j, "running")
  /\ UNCHANGED <<at, home, offer, target, end, reached, doomed,
                 shown, button, confirm, scan, store, fee>>

-----------------------------------------------------------------------------
\* The pipeline task.

\* A progress edit also brings the cancel button back.
Progress(j) ==
  /\ pc[j] = "running" /\ ~reached[j]
  /\ shown[at[j]] # "gone"
  /\ Show(at[j], "status")
  /\ UNCHANGED <<handlers, button, registry, crossed, confirm, scan, store, fee>>

\* The run shows how it ended.  The text of a failure worth repeating carries a
\* retry button, whose context is stored before the edit is sent.
Tell(j) ==
  /\ pc[j] = "running" /\ ~doomed[j]
  /\ reached' = [reached EXCEPT ![j] = TRUE]
  /\ Go(j, "telling")
  /\ \/ end' = [end EXCEPT ![j] = "failed"] /\ Put(j, at[j])
     \/ \E e \in {"done", "notmedia"} : end' = [end EXCEPT ![j] = e]
        /\ UNCHANGED store
  /\ UNCHANGED <<at, home, offer, target, doomed,
                 shown, button, registry, crossed, confirm, scan, fee>>

ShowEnd(j, m) ==
  IF end[j] = "failed"
    THEN Show(m, "retry") /\ button' = [button EXCEPT ![m] = j]
    ELSE Show(m, "text") /\ UNCHANGED button

\* finally: whatever request the message has in the registry goes.
Unregister(j) ==
  /\ registry' = [registry EXCEPT ![home[j]] = {}]
  /\ UNCHANGED crossed

\* The task has ended and its handler goes on: it leaves, unless the link turned
\* out to be a page that may be searched.
Return(j) ==
  /\ Unregister(j)
  /\ \/ Leave(j)
     \/ end[j] = "notmedia" /\ Go(j, "scanning") /\ UNCHANGED store

Told(j) ==
  /\ pc[j] = "telling" /\ ~doomed[j]
  /\ shown[at[j]] # "gone"
  /\ ShowEnd(j, at[j])
  /\ Return(j)
  /\ UNCHANGED <<at, home, offer, target, end, reached, doomed,
                 confirm, scan, fee>>

\* The message could not be edited: the text is sent as a new message ...
ToldElsewhere(j) ==
  /\ pc[j] = "telling" /\ ~doomed[j]
  /\ \E m \in Messages : /\ Fresh(m)
                         /\ ShowEnd(j, m)
                         /\ at' = [at EXCEPT ![j] = m]
  /\ Go(j, "deleting")
  /\ UNCHANGED <<home, offer, target, end, reached, doomed,
                 registry, crossed, confirm, scan, store, fee>>

\* ... and the old one is deleted.
Deleted(j) ==
  /\ pc[j] = "deleting" /\ ~doomed[j]
  /\ Show(home[j], "gone")
  /\ Return(j)
  /\ UNCHANGED <<at, home, offer, target, end, reached, doomed,
                 button, confirm, scan, fee>>

\* check_quota refuses; that is told by the handler.
Refuse(j) ==
  /\ pc[j] = "running" /\ ~doomed[j]
  /\ Unregister(j)
  /\ TellQuota(j)
  /\ UNCHANGED <<at, home, offer, target, end, doomed,
                 shown, button, confirm, scan, fee>>

\* The page holds media: the choice is stored and offered, but update discards
\* a text that is not terminal once a terminal one was reached.
ScanFinds(j) ==
  /\ pc[j] = "scanning"
  /\ scan' = [scan EXCEPT ![at[j]] = TRUE]
  /\ shown' = IF reached[j] THEN shown ELSE [shown EXCEPT ![at[j]] = "picker"]
  /\ Leave(j)
  /\ UNCHANGED <<at, home, offer, target, end, reached, doomed,
                 button, registry, crossed, confirm, fee>>

ScanFindsNothing(j) ==
  /\ pc[j] = "scanning"
  /\ Go(j, "late")
  /\ UNCHANGED <<at, home, offer, target, end, reached, doomed,
                 shown, button, registry, crossed, confirm, scan, store, fee>>

\* Mutant: only the path that shows the cancellation unregisters.
MutUnwind(j) ==
  /\ pc[j] \in Tasks /\ doomed[j]
  /\ \/ UNCHANGED <<shown, button>>
     \/ /\ pc[j] = "telling" /\ shown[at[j]] # "gone"
        /\ ShowEnd(j, at[j])
     \/ /\ pc[j] = "deleting"
        /\ Show(home[j], "gone") /\ UNCHANGED button
  /\ reached' = [reached EXCEPT ![j] = TRUE]
  /\ doomed' = [doomed EXCEPT ![j] = FALSE]
  /\ IF reached[j] THEN Leave(j) /\ UNCHANGED <<registry, crossed>>
                   ELSE Go(j, "unwinding") /\ UNCHANGED <<registry, crossed, store>>
  /\ UNCHANGED <<at, home, offer, target, end, confirm, scan, fee>>

\* CancelledError: an edit in flight may or may not have got through.  The
\* handler shows the cancellation unless a last text was reached.
Unwind(j) ==
  /\ pc[j] \in Tasks /\ doomed[j]
  /\ \/ UNCHANGED <<shown, button>>
     \/ /\ pc[j] = "telling" /\ shown[at[j]] # "gone"
        /\ ShowEnd(j, at[j])
     \/ /\ pc[j] = "deleting"
        /\ Show(home[j], "gone") /\ UNCHANGED button
  /\ reached' = [reached EXCEPT ![j] = TRUE]
  /\ doomed' = [doomed EXCEPT ![j] = FALSE]
  /\ IF reached[j] THEN Unregister(j) /\ Leave(j)
                   ELSE Go(j, "unwinding") /\ UNCHANGED <<registry, crossed, store>>
  /\ UNCHANGED <<at, home, offer, target, end, confirm, scan, fee>>

\* A text of the handler's own; nothing shows on a message that was deleted.
ShowLast(j) ==
  IF shown[at[j]] = "gone" THEN UNCHANGED <<shown, button>> ELSE ShowEnd(j, at[j])

Unwound(j) ==
  /\ pc[j] = "unwinding"
  /\ ShowLast(j)
  /\ Unregister(j)
  /\ Leave(j)
  /\ UNCHANGED <<at, home, offer, target, end, reached, doomed,
                 confirm, scan, fee>>

LateTold(j) ==
  /\ pc[j] = "late"
  /\ ShowLast(j)
  /\ Leave(j)
  /\ UNCHANGED <<at, home, offer, target, end, reached, doomed,
                 registry, crossed, confirm, scan, fee>>

-----------------------------------------------------------------------------
Press(j) ==
  \/ LinkGetsMenu(j) \/ LinkGetsQuestion(j) \/ LinkGetsStatus(j) \/ LinkFails(j)
  \/ PressQuality(j) \/ PressConfirm(j) \/ PressRetry(j) \/ PressCancel(j)

Handle(j) ==
  \/ StoreQuestion(j) \/ Toasted(j)
  \/ Start(j) \/ StartElsewhere(j) \/ StartFails(j) \/ RefusedEarly(j) \/ FailEarly(j)
  \/ Register(j)
  \/ Progress(j) \/ Tell(j) \/ Told(j) \/ ToldElsewhere(j) \/ Deleted(j)
  \/ Refuse(j) \/ ScanFinds(j) \/ ScanFindsNothing(j)
  \/ Unwind(j) \/ Unwound(j) \/ LateTold(j)

Next ==
  \/ \E j \in Handlers : Press(j) \/ Handle(j) \/ RetryLapses(j)
  \/ \E m \in Messages : ConfirmLapses(m)

Spec == Init /\ [][Next]_vars

-----------------------------------------------------------------------------
(***************************************************************************)
(* Properties.                                                             *)
(***************************************************************************)

\* Is the handler in the course of a download?
Working(j) ==
  pc[j] \in {"starting", "queued", "running", "telling", "deleting",
             "unwinding", "scanning", "late"}

\* The registry never outlives a run: what the cancel button finds is a task
\* that its handler still waits for, registered under the right message.
RegistryIsLive ==
  \A m \in Messages : \A j \in registry[m] :
    pc[j] \in Tasks \cup {"unwinding"} /\ home[j] = m

\* A double press starts one download: no confirmation and no retry context is
\* taken by two handlers at a time (router.py:1077, 1174-1178).
OneRunPerOffer ==
  \A j, k \in Handlers :
    Working(j) /\ Working(k) /\ offer[j] = offer[k] /\ offer[j] # None => j = k

\* is_running is never left stuck: some handler works on every context that
\* says so (the comment at router.py:1231-1236).
RunningIsRun ==
  \A i \in Handlers : retry[i] = "running" =>
    \E j \in Handlers : offer[j] = i /\ Working(j)

\* Both indexes of the retry store list the same contexts.
IndexesAgree ==
  /\ \A m \in Messages : \A i \in byMsg[m] : retry[i] \in Live /\ key[i] = m
  /\ \A i \in Handlers : retry[i] \in Live => byMsg[key[i]] = {i}

\* A retry button finds a context, on its id or its message, as long as none of
\* that message was used, expired or refused: a run that ends never takes the
\* context of the failure after it along.  (A failure that had to be told in a
\* new message has the id only, which the next failure on the old one drops.)
RetryButtonIsAlive ==
  \A m \in Messages : shown[m] = "retry" /\ key[button[m]] = m =>
    \/ Lookup(m) # {}
    \/ \E i \in Handlers : key[i] = m /\ retry[i] \in {"spent", "lapsed", "refused"}

\* The cancel button of a running download finds its task (README.md:145-146),
\* from the first await to the last and however often it was pressed, the retries
\* of a message and its later runs included.  Only two runs that are in flight on
\* one message at a time, which a double press of a menu starts, replace and remove
\* each other's entries.
CancelFindsTheRun ==
  \A j \in Handlers : pc[j] \in Tasks /\ j \notin crossed => registry[home[j]] = {j}
=============================================================================
