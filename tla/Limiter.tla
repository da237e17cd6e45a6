------------------------------ MODULE Limiter ------------------------------
(***************************************************************************)
(* ConcurrencyLimiter.slot (queue/limiter.py): a job holds a slot of its   *)
(* user and, taken after it, a slot of the whole bot.  Both are            *)
(* asyncio.Semaphores, whose queues and wake-ups are modelled as well,     *)
(* because what the limiter guarantees rests on them: a waiter that is     *)
(* granted a slot runs only later, when the event loop resumes it, and may *)
(* be cancelled before that.                                               *)
(*                                                                         *)
(* pc names the await a job is at:                                         *)
(*   "told"    on_wait: the user is being told that the job is queued      *)
(*   "user"    in the queue of the user's semaphore                        *)
(*   "global"  in the queue of the global semaphore                        *)
(*   "running" inside the async with                                       *)
(***************************************************************************)
EXTENDS Naturals, SequencesExt, FiniteSets

CONSTANTS
  Jobs,         \* the calls of slot
  Users,        \* telegram users
  Global,       \* the global semaphore; each user stands for its own
  Owner,        \* the user each job is for
  GlobalLimit,  \* global_limit
  PerUserLimit  \* per_user_limit

ASSUME LimiterAssumption ==
  /\ IsFiniteSet(Jobs)
  /\ Owner \in [Jobs -> Users]
  /\ Global \notin Users
  /\ GlobalLimit \in Nat \ {0}
  /\ PerUserLimit \in Nat \ {0}

Semaphores == Users \cup {Global}

Limit(s) == IF s = Global THEN GlobalLimit ELSE PerUserLimit

VARIABLES
  pc,      \* the await each job is at; "idle" before slot, "done" after
  told,    \* was on_wait called?
  value,   \* Semaphore._value
  queue,   \* Semaphore._waiters, as the jobs that wait
  future,  \* what became of the future a job waits on
  doomed   \* was the job's task cancelled after its future was granted?

vars == <<pc, told, value, queue, future, doomed>>

TypeOK ==
  /\ pc \in [Jobs -> {"idle", "told", "user", "global", "running", "done"}]
  /\ told \in [Jobs -> BOOLEAN]
  /\ value \in [Semaphores -> Nat]
  /\ queue \in [Semaphores -> Seq(Jobs)]
  /\ future \in [Jobs -> {"none", "pending", "granted", "cancelled"}]
  /\ doomed \in [Jobs -> BOOLEAN]

Init ==
  /\ pc = [j \in Jobs |-> "idle"]
  /\ told = [j \in Jobs |-> FALSE]
  /\ value = [s \in Semaphores |-> Limit(s)]
  /\ queue = [s \in Semaphores |-> << >>]
  /\ future = [j \in Jobs |-> "none"]
  /\ doomed = [j \in Jobs |-> FALSE]

-----------------------------------------------------------------------------
\* asyncio.Semaphore.

\* locked(): a newcomer has to queue, also behind a waiter that was granted a
\* slot and has not been resumed yet.
Locked(s) ==
  \/ value[s] = 0
  \/ \E i \in DOMAIN queue[s] : future[queue[s][i]] # "cancelled"

\* The waiter _wake_up_next picks: the first whose future is not done.
FirstPending(s) ==
  {queue[s][i] : i \in {i \in DOMAIN queue[s] :
      /\ future[queue[s][i]] = "pending"
      /\ \A k \in 1 .. i - 1 : future[queue[s][k]] # "pending"}}

\* Values and futures after release() on the semaphores in `freed` and
\* _wake_up_next() on those in `woken`: a slot goes to the picked waiter, if
\* there is one.
Given(s, woken) == s \in woken /\ FirstPending(s) # {}

\* Mutant: the slot handed to a waiter is counted as free as well.
MutValueAfter(freed, woken) ==
  [s \in Semaphores |-> IF s \in freed THEN value[s] + 1 ELSE value[s]]

ValueAfter(freed, woken) ==
  [s \in Semaphores |->
     CASE s \in freed /\ ~Given(s, woken) -> value[s] + 1
       [] s \notin freed /\ Given(s, woken) -> value[s] - 1
       [] OTHER -> value[s]]

FutureAfter(woken) ==
  [j \in Jobs |-> IF \E s \in woken : j \in FirstPending(s) THEN "granted"
                                                            ELSE future[j]]

Release(freed) ==
  /\ value' = ValueAfter(freed, freed)
  /\ future' = FutureAfter(freed)

\* Mutant: the semaphore of older Pythons, which left that out.
MutLeftOver(s) == {}

\* The tail of acquire: a waiter that was resumed passes on what is left over.
LeftOver(s) == IF value[s] > 0 THEN {s} ELSE {}

\* self._waiters.remove(fut)
Without(q, j) == RemoveAt(q, CHOOSE i \in DOMAIN q : q[i] = j)

-----------------------------------------------------------------------------
\* slot.

MustWait(j) == Locked(Global) \/ Locked(Owner[j])

TellUser(j) ==
  /\ pc[j] = "idle"
  /\ MustWait(j)
  /\ pc' = [pc EXCEPT ![j] = "told"]
  /\ told' = [told EXCEPT ![j] = TRUE]
  /\ UNCHANGED <<value, queue, future, doomed>>

\* on_wait has returned, or there was no need for it.  What was locked may be
\* open by now, and the other way round.
AtAcquire(j) == pc[j] = "told" \/ (pc[j] = "idle" /\ ~MustWait(j))

QueueForUser(j) ==
  /\ AtAcquire(j)
  /\ Locked(Owner[j])
  /\ pc' = [pc EXCEPT ![j] = "user"]
  /\ queue' = [queue EXCEPT ![Owner[j]] = Append(@, j)]
  /\ future' = [future EXCEPT ![j] = "pending"]
  /\ UNCHANGED <<told, value, doomed>>

QueueForGlobal(j) ==
  /\ AtAcquire(j)
  /\ ~Locked(Owner[j]) /\ Locked(Global)
  /\ pc' = [pc EXCEPT ![j] = "global"]
  /\ value' = [value EXCEPT ![Owner[j]] = @ - 1]
  /\ queue' = [queue EXCEPT ![Global] = Append(@, j)]
  /\ future' = [future EXCEPT ![j] = "pending"]
  /\ UNCHANGED <<told, doomed>>

\* With both semaphores open neither acquire awaits: the job runs at once.
Proceed(j) ==
  /\ AtAcquire(j)
  /\ ~Locked(Owner[j]) /\ ~Locked(Global)
  /\ pc' = [pc EXCEPT ![j] = "running"]
  /\ value' = [value EXCEPT ![Owner[j]] = @ - 1, ![Global] = @ - 1]
  /\ UNCHANGED <<told, queue, future, doomed>>

\* The event loop resumes a job that was granted its user's slot; it goes on to
\* the global semaphore without an await in between.
ResumeToGlobal(j) ==
  /\ pc[j] = "user" /\ future[j] = "granted" /\ ~doomed[j]
  /\ Locked(Global)
  /\ pc' = [pc EXCEPT ![j] = "global"]
  /\ queue' = [queue EXCEPT ![Owner[j]] = Without(@, j), ![Global] = Append(@, j)]
  /\ value' = ValueAfter({}, LeftOver(Owner[j]))
  /\ future' = [FutureAfter(LeftOver(Owner[j])) EXCEPT ![j] = "pending"]
  /\ UNCHANGED <<told, doomed>>

ResumeAndProceed(j) ==
  /\ pc[j] = "user" /\ future[j] = "granted" /\ ~doomed[j]
  /\ ~Locked(Global)
  /\ pc' = [pc EXCEPT ![j] = "running"]
  /\ queue' = [queue EXCEPT ![Owner[j]] = Without(@, j)]
  /\ value' = [ValueAfter({}, LeftOver(Owner[j])) EXCEPT ![Global] = @ - 1]
  /\ future' = [FutureAfter(LeftOver(Owner[j])) EXCEPT ![j] = "none"]
  /\ UNCHANGED <<told, doomed>>

ResumeInGlobal(j) ==
  /\ pc[j] = "global" /\ future[j] = "granted" /\ ~doomed[j]
  /\ pc' = [pc EXCEPT ![j] = "running"]
  /\ queue' = [queue EXCEPT ![Global] = Without(@, j)]
  /\ value' = ValueAfter({}, LeftOver(Global))
  /\ future' = [FutureAfter(LeftOver(Global)) EXCEPT ![j] = "none"]
  /\ UNCHANGED <<told, doomed>>

\* Mutant: only the global slot is given back.
MutFinish(j) ==
  /\ pc[j] = "running"
  /\ pc' = [pc EXCEPT ![j] = "done"]
  /\ Release({Global})
  /\ UNCHANGED <<told, queue, doomed>>

\* The body of the async with ends: it returns, raises or is cancelled.
Finish(j) ==
  /\ pc[j] = "running"
  /\ pc' = [pc EXCEPT ![j] = "done"]
  /\ Release({Owner[j], Global})
  /\ UNCHANGED <<told, queue, doomed>>

-----------------------------------------------------------------------------
\* Cancellation of a job that waits.  task.cancel() marks the future or, if it
\* is done already, the task; the coroutine unwinds when it is next resumed.

CancelTold(j) ==
  /\ pc[j] = "told"
  /\ pc' = [pc EXCEPT ![j] = "done"]
  /\ UNCHANGED <<told, value, queue, future, doomed>>

CancelWaiting(j) ==
  /\ pc[j] \in {"user", "global"}
  /\ \/ /\ future[j] = "pending"
        /\ future' = [future EXCEPT ![j] = "cancelled"]
        /\ UNCHANGED doomed
     \/ /\ future[j] = "granted" /\ ~doomed[j]
        /\ doomed' = [doomed EXCEPT ![j] = TRUE]
        /\ UNCHANGED future
  /\ UNCHANGED <<pc, told, value, queue>>

\* The except branch of acquire gives a granted slot back, and the finally
\* blocks of slot release what the job held already.
UnwindFromUser(j) ==
  /\ pc[j] = "user"
  /\ future[j] = "cancelled" \/ doomed[j]
  /\ pc' = [pc EXCEPT ![j] = "done"]
  /\ queue' = [queue EXCEPT ![Owner[j]] = Without(@, j)]
  /\ Release(IF doomed[j] THEN {Owner[j]} ELSE {})
  /\ UNCHANGED <<told, doomed>>

\* Mutant: the user's slot is not released when the global acquire raises.
MutUnwindFromGlobal(j) ==
  /\ pc[j] = "global"
  /\ future[j] = "cancelled" \/ doomed[j]
  /\ pc' = [pc EXCEPT ![j] = "done"]
  /\ queue' = [queue EXCEPT ![Global] = Without(@, j)]
  /\ Release(IF doomed[j] THEN {Global} ELSE {})
  /\ UNCHANGED <<told, doomed>>

UnwindFromGlobal(j) ==
  /\ pc[j] = "global"
  /\ future[j] = "cancelled" \/ doomed[j]
  /\ pc' = [pc EXCEPT ![j] = "done"]
  /\ queue' = [queue EXCEPT ![Global] = Without(@, j)]
  /\ Release(IF doomed[j] THEN {Owner[j], Global} ELSE {Owner[j]})
  /\ UNCHANGED <<told, doomed>>

-----------------------------------------------------------------------------
Advance(j) ==
  \/ QueueForUser(j) \/ QueueForGlobal(j) \/ Proceed(j)
  \/ ResumeToGlobal(j) \/ ResumeAndProceed(j) \/ ResumeInGlobal(j)
  \/ UnwindFromUser(j) \/ UnwindFromGlobal(j) \/ Finish(j)

Slot(j) ==
  \/ TellUser(j)
  \/ Advance(j)
  \/ CancelTold(j) \/ CancelWaiting(j)

\* Every job has left: the model ends there.
AllLeft == (\A j \in Jobs : pc[j] = "done") /\ UNCHANGED vars

Next == (\E j \in Jobs : Slot(j)) \/ AllLeft

Spec == Init /\ [][Next]_vars

\* on_wait returns, the event loop resumes what is ready, and a download ends
\* (it runs under time budgets).
FairSpec == Spec /\ \A j \in Jobs : WF_vars(pc[j] # "idle" /\ Advance(j))

-----------------------------------------------------------------------------
(***************************************************************************)
(* Properties.                                                             *)
(***************************************************************************)

Waits(j, s) ==
  \/ pc[j] = "user" /\ s = Owner[j]
  \/ pc[j] = "global" /\ s = Global

\* Does job j own a slot of s: granted, held while it waits for the other, or
\* running with it?
Holds(j, s) ==
  \/ pc[j] = "running" /\ s \in {Owner[j], Global}
  \/ pc[j] = "global" /\ s = Owner[j]
  \/ Waits(j, s) /\ future[j] = "granted"

Holders(s) == {j \in Jobs : Holds(j, s)}

\* No slot is lost or made up, whatever is cancelled when: each is either free
\* or owned by one job (the docstring's "both are released on every exit path",
\* limiter.py:9-14).  In particular all are free again once every job has left.
SlotsAccounted ==
  \A s \in Semaphores : value[s] + Cardinality(Holders(s)) = Limit(s)

\* No lost wake-up: while a slot is free and somebody waits for it, a waiter
\* that was granted one is on its way and will pass the free one on.
NoLostWakeUp ==
  \A s \in Semaphores :
    value[s] > 0 /\ (\E j \in Jobs : Waits(j, s) /\ future[j] = "pending") =>
      \E j \in Jobs : Waits(j, s) /\ future[j] = "granted"

\* A job never sits in a queue unless its user was told so (43-47).
NeverBlocksUntold ==
  \A j \in Jobs : pc[j] \in {"user", "global"} => told[j]

\* Nobody waits for ever: a job that was told to wait runs, or was cancelled.
EveryWaiterLeavesTheQueue ==
  \A j \in Jobs : pc[j] = "told" ~> pc[j] \in {"running", "done"}

\* What a caller may rely on.
Slots == INSTANCE Slots WITH inside <- {j \in Jobs : pc[j] = "running"},
                             left <- {j \in Jobs : pc[j] = "done"}
SlotsSpec == Slots!Spec
=============================================================================
