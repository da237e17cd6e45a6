--------------------------- MODULE ProgressProofs ---------------------------
(***************************************************************************)
(* Proofs about Progress, for any number of updates, retries and failed    *)
(* calls.                                                                  *)
(***************************************************************************)
EXTENDS Progress, FiniteSetTheorems, SequenceTheorems, TLAPS

\* Where an update can be: it runs once it is called, only a terminal text falls
\* back, and its background task starts when it ends.
Called(u) ==
  /\ pc[u] = "idle" <=> u > count
  /\ Terminal(u) => reached /\ pc[u] # "idle"
  /\ pc[u] \in {"fallback", "respond", "delete", "erase"} => Terminal(u)
  /\ pc[u] \in {"delete", "erase"} => old[u] # 0
  /\ dpc[u] # "none" => Terminal(u) /\ pc[u] = "done" /\ old[u] # 0
  /\ doomed[u] => dpc[u] # "none"

CallsOK == \A u \in Updates : Called(u)

\* The text of an update is not out yet.
Untold(u) ==
  \/ pc[u] \in {"waiting", "asleep", "edit", "plain", "fallback", "respond", "erase"}
  \/ dpc[u] \in Tasks \ {"delete"}

\* No text is out before it is told, nor twice.
TextsOK ==
  /\ \A u \in Updates : Untold(u) => ~Visible(u)
  /\ \A m, n \in DOMAIN shown : shown[m] = shown[n] /\ shown[m] \in Updates => m = n

\* Progress comes before the first terminal text.
EarlierOK ==
  \A u, v \in Updates :
    ~Terminal(u) /\ Terminal(v) /\ pc[u] \notin {"idle", "dropped"} => u < v

\* What progress is out was applied.
AppliedOK ==
  \A u \in Updates : ~Terminal(u) /\ pc[u] = "done" /\ Visible(u) => u <= applied

\* A progress text that is about to be edited in is ahead of all that is out.
EditingOK ==
  \A u \in Updates : ~Terminal(u) /\ pc[u] \in {"edit", "plain"} =>
    /\ applied <= u
    /\ \A v \in Updates : Terminal(v) => pc[v] \in {"waiting", "dropped"} /\ ~Visible(v)

\* The only terminal text of the request, so far.
Alone(u) == Terminal(u) /\ \A v \in Updates : Terminal(v) => v = u

\* There is but the message the router sent; it shows some text; it is gone.
Single == Len(shown) = 1 /\ message = 1
Whole == Single /\ shown[1] \in Nat
Wiped == Single /\ shown[1] = Gone

\* Before the first terminal text nothing is sent or deleted.
NewOK == (\A v \in Updates : ~Terminal(v)) => Whole /\ ~delivered

\* What a terminal text has met with on its way ...
Told(u) ==
  /\ pc[u] \in {"waiting", "asleep", "edit", "plain"} => Whole /\ ~delivered
  /\ pc[u] \in {"fallback", "respond"} => Whole /\ ~delivered /\ faults >= 1
  /\ pc[u] = "erase" => Whole /\ ~delivered /\ faults >= 2 /\ old[u] = 1
  /\ pc[u] = "delete" => Len(shown) = 2 /\ old[u] = 1 /\ shown[2] = u
  /\ pc[u] = "done" /\ dpc[u] = "none" => Visible(u) \/ (kind[u] = "done" /\ Wiped)

TellOK == \A u \in Updates : Alone(u) /\ pc[u] # "dropped" => Told(u)

\* ... and its background task, unless four calls have failed.
Retried(u) ==
  /\ ~doomed[u] /\ old[u] = 1
  /\ dpc[u] = "sleep" /\ clean[u] =>
       Wiped /\ ~delivered /\ faults >= 2 /\ kind[u] = "failure"
  /\ dpc[u] = "sleep" /\ ~clean[u] => Whole /\ ~delivered /\ faults >= 3
  /\ faults < 4 =>
       /\ dpc[u] = "edit" => Whole /\ faults >= 3
       /\ dpc[u] = "respond" => Wiped /\ clean[u] /\ faults >= 2
       /\ dpc[u] = "delete" => Single /\ faults >= 3
       /\ dpc[u] = "send" => Wiped /\ faults >= 3
       /\ dpc[u] = "done" => Visible(u) \/ (Wiped /\ faults >= 3)
       /\ dpc[u] \notin {"erase", "mark", "last"}

RetryOK == \A u \in Updates : Alone(u) /\ dpc[u] # "none" => Retried(u)

\* The inductive invariant.
Inv ==
  /\ TypeOK
  /\ CallsOK
  /\ TextsOK
  /\ EarlierOK
  /\ AppliedOK
  /\ EditingOK
  /\ NewOK
  /\ TellOK
  /\ RetryOK

-----------------------------------------------------------------------------
(***************************************************************************)
(* The messages.                                                           *)
(***************************************************************************)

\* The updates are numbered from 1.
LEMMA Numbers == \A u \in Updates : u \in Nat /\ u # 0
  BY DEF Updates

\* Message m, an old or a new one, shows x from now on.
Writes(m, x) ==
  /\ DOMAIN shown' = DOMAIN shown \cup {m}
  /\ shown'[m] = x
  /\ \A k \in DOMAIN shown : k # m => shown'[k] = shown[k]

\* What the texts may be.
Texts == 0 .. count \cup {Gone, Failed}

\* Message m is edited or deleted; a message is sent.
Edits(m, x) ==
  /\ Writes(m, x) /\ m \in DOMAIN shown /\ Len(shown') = Len(shown)
  /\ shown' \in Seq(Texts)

Adds(x) ==
  /\ Writes(Len(shown'), x) /\ Len(shown') = Len(shown) + 1
  /\ Len(shown') \notin DOMAIN shown
  /\ shown' \in Seq(Texts)

\* An edit or a deletion.
LEMMA EditWrites ==
  ASSUME TypeOK, NEW m \in DOMAIN shown, NEW x \in Texts, shown' = [shown EXCEPT ![m] = x]
  PROVE  Edits(m, x)
<1>1. shown \in Seq(Texts)
  BY DEF TypeOK, Texts
<1>2. shown' \in Seq(Texts) /\ Len(shown') = Len(shown)
  BY <1>1
<1> QED
  BY <1>1, <1>2 DEF Edits, Writes

\* A new message.
LEMMA SendWrites ==
  ASSUME TypeOK, NEW x \in Texts, Send(x)
  PROVE  Adds(x)
<1>1. shown \in Seq(Texts)
  BY DEF TypeOK, Texts
<1>2. shown' \in Seq(Texts) /\ Len(shown') = Len(shown) + 1
  BY <1>1 DEF Send
<1>3. DOMAIN shown = 1 .. Len(shown) /\ DOMAIN shown' = 1 .. Len(shown) + 1 /\ Len(shown) \in Nat
  BY <1>1, <1>2
<1>4. shown'[Len(shown) + 1] = x /\ \A k \in DOMAIN shown : shown'[k] = shown[k]
  BY <1>1 DEF Send
<1> QED
  BY <1>2, <1>3, <1>4 DEF Adds, Writes

\* The message that was captured for the fallback is in the chat.
LEMMA MessageExists ==
  ASSUME TypeOK, CallsOK, NEW u \in Updates,
         pc[u] \in {"delete", "erase"} \/ dpc[u] # "none"
  PROVE  old[u] \in DOMAIN shown
<1>1. /\ old[u] \in 0 .. Len(shown) /\ old[u] # 0
      /\ DOMAIN shown = 1 .. Len(shown) /\ Len(shown) \in Nat
  BY DEF TypeOK, CallsOK, Called
<1> QED
  BY <1>1

\* The text of an update that was called may be shown.
LEMMA TextExists ==
  ASSUME TypeOK, CallsOK, NEW u \in Updates, pc[u] # "idle" \/ dpc[u] # "none"
  PROVE  u \in Texts
<1>1. u <= count /\ count \in Nat
  BY Numbers DEF TypeOK, CallsOK, Called
<1> QED
  BY <1>1, Numbers DEF Texts

\* A text that is written is visible; the others are at most as visible as before.
LEMMA WritesVisible ==
  ASSUME NEW m, NEW x, Writes(m, x)
  PROVE  Visible(x)' /\ \A v : v # x /\ Visible(v)' => Visible(v)
  BY DEF Writes, Visible

\* A step of u makes no text visible but its own.
LEMMA OthersVisible ==
  ASSUME NEW u \in Updates,
         \/ shown' = shown
         \/ \E m : Edits(m, u) \/ Edits(m, Gone) \/ Edits(m, Failed)
         \/ Adds(u)
  PROVE  \A v \in Updates : v # u /\ Visible(v)' => Visible(v)
<1>1. CASE shown' = shown
  BY <1>1 DEF Visible
<1>2. CASE \E m, x : Writes(m, x) /\ x \in {u, Gone, Failed}
  <2>1. PICK m, x : Writes(m, x) /\ x \in {u, Gone, Failed}
    BY <1>2
  <2>2. \A v \in Updates : v # u => v # x
    BY <2>1, Numbers, ProgressAssumption
  <2> QED
    BY <2>1, <2>2, WritesVisible
<1> QED
  BY <1>1, <1>2 DEF Edits, Adds

\* It was not out yet, and is not told again.
LEMMA TextsWritten ==
  ASSUME TextsOK, NEW m, NEW x, Writes(m, x), x \in Updates => Untold(x) /\ ~Untold(x)',
         \A v \in Updates : Untold(v)' => Untold(v)
  PROVE  TextsOK'
<1>1. \A v \in Updates : Untold(v)' => ~Visible(v)'
  BY WritesVisible DEF TextsOK
<1>2. ASSUME NEW a \in DOMAIN shown', NEW b \in DOMAIN shown', shown'[a] = shown'[b],
             shown'[a] \in Updates
      PROVE  a = b
  <2>1. CASE shown'[a] = x
    <3>1. ~Visible(x)
      BY <1>2, <2>1 DEF TextsOK
    <3>2. \A k \in DOMAIN shown : shown[k] # x
      BY <3>1 DEF Visible
    <3>3. a = m /\ b = m
      BY <1>2, <2>1, <3>2 DEF Writes
    <3> QED
      BY <3>3
  <2>2. CASE shown'[a] # x
    BY <1>2, <2>2 DEF Writes, TextsOK
  <2> QED
    BY <2>1, <2>2
<1> QED
  BY <1>1, <1>2 DEF TextsOK

\* Nothing is written.
LEMMA TextsStay ==
  ASSUME TextsOK, shown' = shown, \A v \in Updates : Untold(v)' => Untold(v) \/ ~Visible(v)
  PROVE  TextsOK'
  BY DEF TextsOK, Visible

-----------------------------------------------------------------------------
(***************************************************************************)
(* The steps.                                                              *)
(***************************************************************************)

\* The router has sent the status message.
LEMMA InitInv == Init => Inv
<1> SUFFICES ASSUME Init
    PROVE  Inv
  OBVIOUS
<1> USE DEF Init, Terminal
<1>1. TypeOK
  <2>1. shown \in Seq(0 .. count \cup {Gone, Failed}) /\ message \in DOMAIN shown
    <3>1. 0 \in 0 .. count
      OBVIOUS
    <3> QED
      BY <3>1
  <2>2. \A u \in Updates : holder = u <=> pc[u] \in Locked
    BY DEF Updates, Locked
  <2> QED
    <3>1. MaxUpdates \in Nat /\ MaxRetries \in Nat /\ MaxFaults \in Nat
      BY ProgressAssumption
    <3>2. tries \in [Updates -> 0 .. MaxRetries] /\ old \in [Updates -> 0 .. Len(shown)]
      BY <3>1
    <3>3. count \in 0 .. MaxUpdates /\ faults \in 0 .. MaxFaults
      BY <3>1
    <3>4. holder \in 0 .. count /\ applied \in 0 .. count /\ deferred \in 0 .. count
      OBVIOUS
    <3>5. /\ pc \in [Updates -> Awaits \cup {"idle", "done", "dropped"}]
          /\ kind \in [Updates -> {"progress", "done", "failure"}]
          /\ dpc \in [Updates -> Tasks \cup {"none", "done"}]
      OBVIOUS
    <3>6. clean \in [Updates -> BOOLEAN] /\ doomed \in [Updates -> BOOLEAN]
      OBVIOUS
    <3>7. reached \in BOOLEAN /\ delivered \in BOOLEAN /\ uneditable \in BOOLEAN
      OBVIOUS
    <3> HIDE DEF Init
    <3> QED
      BY <2>1, <2>2, <3>2, <3>3, <3>4, <3>5, <3>6, <3>7 DEF TypeOK
<1>2. CallsOK
  BY DEF CallsOK, Called, Updates
<1>3. TextsOK
  BY DEF TextsOK, Visible, Updates, Untold, Tasks
<1>4. EarlierOK /\ AppliedOK /\ EditingOK
  BY DEF EarlierOK, AppliedOK, EditingOK
<1>5. NewOK
  BY DEF NewOK, Whole, Single
<1>6. TellOK /\ RetryOK
  BY DEF TellOK, RetryOK, Alone
<1> QED
  BY <1>1, <1>2, <1>3, <1>4, <1>5, <1>6 DEF Inv

\* An update is called.
LEMMA CallKeeps ==
  ASSUME Inv, NEW u \in Updates, Call(u)
  PROVE  Inv'
<1> USE DEF Inv, Call, Go, Enter, Terminal, updating, reporter, background
<1>1. TypeOK'
  <2>1. (pc \in [Updates -> Awaits \cup {"idle", "done", "dropped"}])'
    BY DEF TypeOK, Locked, Awaits, Tasks
  <2>2. (kind \in [Updates -> {"progress", "done", "failure"}])'
    BY DEF TypeOK
  <2>3. (reached \in BOOLEAN)'
    BY DEF TypeOK
  <2>4. (holder \in 0 .. count)'
    BY Numbers DEF TypeOK, CallsOK, Called
  <2>5. (count \in 0 .. MaxUpdates)'
    BY ProgressAssumption, Numbers DEF TypeOK, Updates, CallsOK, Called
  <2>6. (applied \in 0 .. count)'
    BY Numbers DEF TypeOK, CallsOK, Called
  <2>7. (shown \in Seq(0 .. count \cup {Gone, Failed}))'
    BY Numbers DEF TypeOK, CallsOK, Called
  <2>8. (old \in [Updates -> 0 .. Len(shown)])'
    BY DEF TypeOK
  <2>9. (message \in DOMAIN shown)'
    BY DEF TypeOK
  <2>10. (deferred \in 0 .. count)'
    BY Numbers DEF TypeOK, CallsOK, Called
  <2>11. (\A v \in Updates : holder = v <=> pc[v] \in Locked)'
    BY Numbers DEF TypeOK, Locked, Awaits, Tasks, CallsOK, Called
  <2> QED
    BY <2>1, <2>2, <2>3, <2>4, <2>5, <2>6, <2>7, <2>8, <2>9, <2>10, <2>11 DEF TypeOK
<1>2. CallsOK'
  <2>1. pc[u] = "idle" /\ dpc[u] = "none" /\ ~doomed[u] /\ kind[u] = "progress" /\ count \in Nat
    BY Numbers DEF TypeOK, CallsOK, Called
  <2>2. Called(u)'
    <3>1. pc'[u] \in {"edit", "waiting", "dropped"} /\ ~(u > count')
      BY <2>1, Numbers DEF TypeOK
    <3>2. kind'[u] # "progress" => reached'
      BY DEF TypeOK
    <3> QED
      BY <2>1, <3>1, <3>2 DEF Called
  <2>3. ASSUME NEW v \in Updates, v # u
        PROVE  Called(v)'
    <3>1. pc'[v] = pc[v] /\ kind'[v] = kind[v] /\ (reached => reached')
      BY <2>3 DEF TypeOK
    <3>2. v > count' <=> v > count
      BY <2>1, <2>3, Numbers
    <3> QED
      BY <3>1, <3>2 DEF CallsOK, Called
  <2> QED
    BY <2>2, <2>3 DEF CallsOK
<1>3. TextsOK'
  <2>1. ~Visible(u)
    <3>1. \A m \in DOMAIN shown : shown[m] \in 0 .. count \cup {Gone, Failed}
      BY DEF TypeOK
    <3>2. u \notin 0 .. count \cup {Gone, Failed}
      BY Numbers, ProgressAssumption DEF TypeOK
    <3> QED
      BY <3>1, <3>2 DEF Visible
  <2>2. \A v \in Updates : v # u => (Untold(v)' => Untold(v))
    BY DEF TypeOK, Untold
  <2> QED
    BY <2>1, <2>2, TextsStay
<1>4. EarlierOK'
  BY DEF EarlierOK, CallsOK, Called, TypeOK
<1>5. AppliedOK'
  BY Numbers DEF AppliedOK, TextsOK, Untold, TypeOK, CallsOK, Called, Visible
<1>6. EditingOK'
  <2> SUFFICES ASSUME NEW w \in Updates, ~Terminal(w)', (pc[w] \in {"edit", "plain"})'
      PROVE  (/\ applied <= w
              /\ \A v \in Updates : Terminal(v) =>
                   pc[v] \in {"waiting", "dropped"} /\ ~Visible(v))'
    BY DEF EditingOK
  <2>1. pc[u] = "idle" /\ kind[u] = "progress" /\ count \in Nat /\ applied \in 0 .. count
    BY Numbers DEF TypeOK, CallsOK, Called
  <2>2. CASE w = u
    <3>1. ~reached /\ kind'[u] = "progress"
      BY <2>2 DEF TypeOK
    <3>2. \A v \in Updates : ~Terminal(v)'
      BY <2>1, <3>1 DEF CallsOK, Called, TypeOK
    <3> QED
      BY <2>1, <2>2, <3>2, Numbers
  <2>3. CASE w # u
    <3>1. ~Terminal(w) /\ pc[w] \in {"edit", "plain"} /\ holder = w
      BY <2>3 DEF TypeOK, Locked
    <3>2. pc'[u] \in {"waiting", "dropped"}
      BY <3>1, Numbers DEF TypeOK
    <3>3. ~Visible(u)
      <4>1. \A m \in DOMAIN shown : shown[m] \in 0 .. count \cup {Gone, Failed}
        BY DEF TypeOK
      <4>2. u \notin 0 .. count \cup {Gone, Failed}
        BY <2>1, Numbers, ProgressAssumption
      <4> QED
        BY <4>1, <4>2 DEF Visible
    <3>4. \A v \in Updates : v # u => pc'[v] = pc[v] /\ kind'[v] = kind[v]
      BY DEF TypeOK
    <3> QED
      BY <3>1, <3>2, <3>3, <3>4 DEF EditingOK, Visible
  <2> QED
    BY <2>2, <2>3
<1>7. NewOK'
  BY Numbers DEF NewOK, CallsOK, Called, TypeOK, Whole, Single
<1>8. TellOK'
  <2> SUFFICES ASSUME NEW v \in Updates, Alone(v)', (pc[v] # "dropped")'
      PROVE  Told(v)'
    BY DEF TellOK
  <2>1. CASE v = u
    <3>1. \A w \in Updates : ~Terminal(w)
      BY <2>1, Numbers DEF Alone, TypeOK, CallsOK, Called
    <3>2. Whole /\ ~delivered
      BY <3>1 DEF NewOK
    <3>3. pc'[u] \in {"edit", "waiting", "dropped"}
      BY DEF TypeOK
    <3> QED
      BY <2>1, <3>2, <3>3 DEF Told, Whole, Single
  <2>2. CASE v # u
    <3>1. kind'[v] = kind[v] /\ pc'[v] = pc[v]
      BY <2>2 DEF TypeOK
    <3>2. Alone(v)
      BY <2>2, <3>1, Numbers DEF Alone, TypeOK, CallsOK, Called
    <3> QED
      BY <3>1, <3>2 DEF TellOK, Told, Whole, Wiped, Single, Visible
  <2> QED
    BY <2>1, <2>2
<1>9. RetryOK'
  <2> SUFFICES ASSUME NEW v \in Updates, Alone(v)', (dpc[v] # "none")'
      PROVE  Retried(v)'
    BY DEF RetryOK
  <2>1. Alone(v) /\ (dpc[v] # "none" => Retried(v)) /\ Told(v)
    BY DEF Alone, RetryOK, TellOK, TypeOK, CallsOK, Called
  <2>2. CASE v = u
    BY <2>1, <2>2, Numbers, ProgressAssumption DEF Alone, Told, Retried, Whole, Wiped, Single,
       TypeOK, CallsOK, Called, Awaits, Tasks, Locked, Visible
  <2>3. CASE v # u
    BY <2>1, <2>3, Numbers DEF Retried, Alone, Whole, Wiped, Single, TypeOK, CallsOK, Called,
       Awaits, Locked, EditingOK, Visible
  <2> QED
    BY <2>2, <2>3
<1> QED
  BY <1>1, <1>2, <1>3, <1>4, <1>5, <1>6, <1>7, <1>8, <1>9

\* The lock is passed on.
LEMMA AcquireKeeps ==
  ASSUME Inv, NEW u \in Updates, Acquire(u)
  PROVE  Inv'
<1> USE DEF Inv, Acquire, Go, Stale, Terminal, updating, reporter, background
<1>1. TypeOK'
  <2>1. (pc \in [Updates -> Awaits \cup {"idle", "done", "dropped"}])'
    BY DEF TypeOK, Locked, Awaits, Tasks
  <2>2. (holder \in 0 .. count)'
    BY Numbers DEF TypeOK, CallsOK, Called
  <2>3. (\A v \in Updates : holder = v <=> pc[v] \in Locked)'
    BY Numbers DEF TypeOK, Locked, Awaits, Tasks, CallsOK, Called
  <2> QED
    BY <2>1, <2>2, <2>3 DEF TypeOK
<1>2. CallsOK'
  BY DEF TypeOK, CallsOK, Called, Locked, Awaits, Tasks
<1>3. TextsOK'
  BY TextsStay DEF TypeOK, Untold, Locked, Awaits, Tasks
<1>4. EarlierOK'
  BY DEF EarlierOK, CallsOK, Called, TypeOK
<1>5. AppliedOK'
  BY Numbers DEF AppliedOK, TextsOK, Untold, TypeOK, CallsOK, Called, Visible
<1>6. EditingOK'
  BY Numbers DEF EditingOK, CallsOK, Called, TypeOK, Locked, Visible
<1>7. NewOK'
  BY Numbers DEF NewOK, CallsOK, Called, TypeOK, Whole, Single
<1>8. TellOK'
  <2> SUFFICES ASSUME NEW v \in Updates, Alone(v)', (pc[v] # "dropped")'
      PROVE  Told(v)'
    BY DEF TellOK
  <2>1. Alone(v) /\ (pc[v] # "dropped" => Told(v))
    BY DEF Alone, TellOK, TypeOK, CallsOK, Called
  <2>2. CASE v = u
    BY <2>1, <2>2, Numbers, ProgressAssumption DEF Alone, Told, Whole, Wiped, Single, TypeOK,
       CallsOK, Called, Awaits, Tasks, Locked, Visible
  <2>3. CASE v # u
    BY <2>1, <2>3, Numbers DEF Told, Alone, Whole, Wiped, Single, TypeOK, CallsOK, Called,
       Awaits, Locked, EditingOK, Visible
  <2> QED
    BY <2>2, <2>3
<1>9. RetryOK'
  <2> SUFFICES ASSUME NEW v \in Updates, Alone(v)', (dpc[v] # "none")'
      PROVE  Retried(v)'
    BY DEF RetryOK
  <2>1. Alone(v) /\ (dpc[v] # "none" => Retried(v)) /\ Told(v)
    BY DEF Alone, RetryOK, TellOK, TypeOK, CallsOK, Called
  <2>2. CASE v = u
    BY <2>1, <2>2, Numbers, ProgressAssumption DEF Alone, Told, Retried, Whole, Wiped, Single,
       TypeOK, CallsOK, Called, Awaits, Tasks, Locked, Visible
  <2>3. CASE v # u
    BY <2>1, <2>3, Numbers DEF Retried, Alone, Whole, Wiped, Single, TypeOK, CallsOK, Called,
       Awaits, Locked, EditingOK, Visible
  <2> QED
    BY <2>2, <2>3
<1> QED
  BY <1>1, <1>2, <1>3, <1>4, <1>5, <1>6, <1>7, <1>8, <1>9

\* The text is edited in.
LEMMA EditedWrites ==
  ASSUME TypeOK, CallsOK, NEW u \in Updates, Edited(u)
  PROVE  Edits(message, u)
<1> Gone \in Texts /\ Failed \in Texts
  BY DEF Texts
<1> QED
  BY EditWrites, TextExists, MessageExists DEF Edited, Go, Show, Noted, MarkDelivered,
                                               TypeOK, Tasks

\* ... and keeps the invariant.
LEMMA EditedKeeps ==
  ASSUME Inv, NEW u \in Updates, Edited(u)
  PROVE  Inv'
<1> USE DEF Inv, Edited, Go, Show, Noted, MarkDelivered, Terminal, updating, reporter,
            background
<1>1. Edits(message, u)
  BY EditedWrites
<1>2. shown' \in Seq(Texts) /\ Texts' = Texts
  BY <1>1 DEF Edits, Texts, TypeOK
<1>3. TypeOK'
  <2>1. (pc \in [Updates -> Awaits \cup {"idle", "done", "dropped"}])'
    BY DEF TypeOK, Locked, Awaits, Tasks
  <2>2. (holder \in 0 .. count)'
    BY Numbers DEF TypeOK, CallsOK, Called
  <2>3. (applied \in 0 .. count)'
    BY Numbers DEF TypeOK, CallsOK, Called
  <2>4. (uneditable \in BOOLEAN)'
    BY DEF TypeOK
  <2>5. (reached \in BOOLEAN)'
    BY DEF TypeOK
  <2>6. (delivered \in BOOLEAN)'
    BY DEF TypeOK
  <2>7. (doomed \in [Updates -> BOOLEAN])'
    BY DEF TypeOK
  <2>8. (shown \in Seq(0 .. count \cup {Gone, Failed}))'
    BY <1>2 DEF Texts
  <2>9. (old \in [Updates -> 0 .. Len(shown)])'
    BY <1>1 DEF TypeOK, Edits
  <2>10. (message \in DOMAIN shown)'
    BY <1>1 DEF TypeOK, Edits
  <2>11. (\A v \in Updates : holder = v <=> pc[v] \in Locked)'
    BY Numbers DEF TypeOK, Locked, Awaits, Tasks, CallsOK, Called
  <2> QED
    BY <2>1, <2>2, <2>3, <2>4, <2>5, <2>6, <2>7, <2>8, <2>9, <2>10, <2>11 DEF TypeOK
<1>4. CallsOK'
  BY DEF TypeOK, CallsOK, Called, Locked, Awaits, Tasks
<1>5. TextsOK'
  BY <1>1, TextsWritten, TextsStay, Numbers, ProgressAssumption DEF TypeOK, Untold,
                                                                    CallsOK, Called, Edits,
                                                                    Locked, Awaits, Tasks
<1>6. EarlierOK'
  BY DEF EarlierOK, CallsOK, Called, TypeOK
<1>7. AppliedOK'
  <2>1. \A v \in Updates : v # u /\ Visible(v)' => Visible(v)
    BY <1>1, WritesVisible DEF Edits
  <2>2. \A v \in Updates : v # u /\ pc'[v] = "done" => pc[v] = "done"
    BY DEF TypeOK
  <2>3. \A v \in Updates : ~Terminal(v) /\ pc[v] = "done" /\ Visible(v) => v <= u
    <3>1. CASE Terminal(u)
      BY <3>1, Numbers DEF EarlierOK
    <3>2. CASE ~Terminal(u)
      BY <3>2, Numbers DEF EditingOK, AppliedOK, TypeOK
    <3> QED
      BY <3>1, <3>2
  <2>4. applied' = u /\ kind' = kind /\ u <= u
    BY Numbers
  <2> QED
    BY <2>1, <2>2, <2>3, <2>4 DEF AppliedOK
<1>8. EditingOK'
  BY <1>1, WritesVisible, Numbers DEF EditingOK, CallsOK, Called, TypeOK, Locked, Edits
<1>9. NewOK'
  BY <1>1, Numbers DEF NewOK, CallsOK, Called, TypeOK, Whole, Single, Edits, Writes
<1>10. TellOK'
  <2> SUFFICES ASSUME NEW v \in Updates, Alone(v)', (pc[v] # "dropped")'
      PROVE  Told(v)'
    BY DEF TellOK
  <2>1. Alone(v) /\ (pc[v] # "dropped" => Told(v))
    BY DEF Alone, TellOK, TypeOK, CallsOK, Called
  <2>2. CASE v = u
    BY <1>1, <2>1, <2>2, Numbers, ProgressAssumption DEF Alone, Told, Whole, Wiped, Single,
       TypeOK, CallsOK, Called, Awaits, Tasks, Locked, Edits, Writes, Visible
  <2>3. CASE v # u
    BY <1>1, <2>1, <2>3, Numbers DEF Told, Alone, Whole, Wiped, Single, TypeOK, CallsOK,
       Called, Awaits, Locked, EditingOK, Edits, Writes, Visible
  <2> QED
    BY <2>2, <2>3
<1>11. RetryOK'
  <2> SUFFICES ASSUME NEW v \in Updates, Alone(v)', (dpc[v] # "none")'
      PROVE  Retried(v)'
    BY DEF RetryOK
  <2>1. Alone(v) /\ (dpc[v] # "none" => Retried(v)) /\ Told(v)
    BY DEF Alone, RetryOK, TellOK, TypeOK, CallsOK, Called
  <2>2. CASE v = u
    BY <1>1, <2>1, <2>2, Numbers, ProgressAssumption DEF Alone, Told, Retried, Whole, Wiped,
       Single, TypeOK, CallsOK, Called, Awaits, Tasks, Locked, Edits, Writes, Visible
  <2>3. CASE v # u
    BY <1>1, <2>1, <2>3, Numbers DEF Retried, Alone, Whole, Wiped, Single, TypeOK, CallsOK,
       Called, Awaits, Locked, EditingOK, Edits, Writes, Visible
  <2> QED
    BY <2>2, <2>3
<1> QED
  BY <1>3, <1>4, <1>5, <1>6, <1>7, <1>8, <1>9, <1>10, <1>11

\* The content is rejected.
LEMMA RejectedKeeps ==
  ASSUME Inv, NEW u \in Updates, Rejected(u)
  PROVE  Inv'
<1> USE DEF Inv, Rejected, Go, Terminal, updating, reporter, background
<1>1. TypeOK'
  <2>1. (pc \in [Updates -> Awaits \cup {"idle", "done", "dropped"}])'
    BY DEF TypeOK, Locked, Awaits, Tasks
  <2>2. (\A v \in Updates : holder = v <=> pc[v] \in Locked)'
    BY Numbers DEF TypeOK, Locked, Awaits, Tasks, CallsOK, Called
  <2> QED
    BY <2>1, <2>2 DEF TypeOK
<1>2. CallsOK'
  BY DEF TypeOK, CallsOK, Called, Locked, Awaits, Tasks
<1>3. TextsOK'
  BY TextsStay DEF TypeOK, Untold, Locked, Awaits, Tasks
<1>4. EarlierOK'
  BY DEF EarlierOK, CallsOK, Called, TypeOK
<1>5. AppliedOK'
  BY Numbers DEF AppliedOK, TextsOK, Untold, TypeOK, CallsOK, Called, Visible
<1>6. EditingOK'
  BY Numbers DEF EditingOK, CallsOK, Called, TypeOK, Locked, Visible
<1>7. NewOK'
  BY Numbers DEF NewOK, CallsOK, Called, TypeOK, Whole, Single
<1>8. TellOK'
  <2> SUFFICES ASSUME NEW v \in Updates, Alone(v)', (pc[v] # "dropped")'
      PROVE  Told(v)'
    BY DEF TellOK
  <2>1. Alone(v) /\ (pc[v] # "dropped" => Told(v))
    BY DEF Alone, TellOK, TypeOK, CallsOK, Called
  <2>2. CASE v = u
    BY <2>1, <2>2, Numbers, ProgressAssumption DEF Alone, Told, Whole, Wiped, Single, TypeOK,
       CallsOK, Called, Awaits, Tasks, Locked, Visible
  <2>3. CASE v # u
    BY <2>1, <2>3, Numbers DEF Told, Alone, Whole, Wiped, Single, TypeOK, CallsOK, Called,
       Awaits, Locked, EditingOK, Visible
  <2> QED
    BY <2>2, <2>3
<1>9. RetryOK'
  <2> SUFFICES ASSUME NEW v \in Updates, Alone(v)', (dpc[v] # "none")'
      PROVE  Retried(v)'
    BY DEF RetryOK
  <2>1. Alone(v) /\ (dpc[v] # "none" => Retried(v)) /\ Told(v)
    BY DEF Alone, RetryOK, TellOK, TypeOK, CallsOK, Called
  <2>2. CASE v = u
    BY <2>1, <2>2, Numbers, ProgressAssumption DEF Alone, Told, Retried, Whole, Wiped, Single,
       TypeOK, CallsOK, Called, Awaits, Tasks, Locked, Visible
  <2>3. CASE v # u
    BY <2>1, <2>3, Numbers DEF Retried, Alone, Whole, Wiped, Single, TypeOK, CallsOK, Called,
       Awaits, Locked, EditingOK, Visible
  <2> QED
    BY <2>2, <2>3
<1> QED
  BY <1>1, <1>2, <1>3, <1>4, <1>5, <1>6, <1>7, <1>8, <1>9

\* The edit fails.
LEMMA EditFailsKeeps ==
  ASSUME Inv, NEW u \in Updates, EditFails(u)
  PROVE  Inv'
<1> USE DEF Inv, EditFails, Go, FallBack, Fails, EditFailsOn, Terminal, updating,
            reporter, background
<1>1. TypeOK'
  <2>1. (pc \in [Updates -> Awaits \cup {"idle", "done", "dropped"}])'
    BY DEF TypeOK, Locked, Awaits, Tasks
  <2>2. (holder \in 0 .. count)'
    BY Numbers DEF TypeOK, CallsOK, Called
  <2>3. (uneditable \in BOOLEAN)'
    BY DEF TypeOK
  <2>4. (faults \in 0 .. MaxFaults)'
    BY ProgressAssumption DEF TypeOK
  <2>5. (\A v \in Updates : holder = v <=> pc[v] \in Locked)'
    BY Numbers DEF TypeOK, Locked, Awaits, Tasks, CallsOK, Called
  <2> QED
    BY <2>1, <2>2, <2>3, <2>4, <2>5 DEF TypeOK
<1>2. CallsOK'
  BY DEF TypeOK, CallsOK, Called, Locked, Awaits, Tasks
<1>3. TextsOK'
  BY TextsStay DEF TypeOK, Untold, Locked, Awaits, Tasks
<1>4. EarlierOK'
  BY DEF EarlierOK, CallsOK, Called, TypeOK
<1>5. AppliedOK'
  BY Numbers DEF AppliedOK, TextsOK, Untold, TypeOK, CallsOK, Called, Visible
<1>6. EditingOK'
  BY Numbers DEF EditingOK, CallsOK, Called, TypeOK, Locked, Visible
<1>7. NewOK'
  BY Numbers DEF NewOK, CallsOK, Called, TypeOK, Whole, Single
<1>8. TellOK'
  <2> SUFFICES ASSUME NEW v \in Updates, Alone(v)', (pc[v] # "dropped")'
      PROVE  Told(v)'
    BY DEF TellOK
  <2>1. Alone(v) /\ (pc[v] # "dropped" => Told(v))
    BY DEF Alone, TellOK, TypeOK, CallsOK, Called
  <2>2. CASE v = u
    BY <2>1, <2>2, Numbers, ProgressAssumption DEF Alone, Told, Whole, Wiped, Single, TypeOK,
       CallsOK, Called, Awaits, Tasks, Locked, Visible
  <2>3. CASE v # u
    BY <2>1, <2>3, Numbers DEF Told, Alone, Whole, Wiped, Single, TypeOK, CallsOK, Called,
       Awaits, Locked, EditingOK, Visible
  <2> QED
    BY <2>2, <2>3
<1>9. RetryOK'
  <2> SUFFICES ASSUME NEW v \in Updates, Alone(v)', (dpc[v] # "none")'
      PROVE  Retried(v)'
    BY DEF RetryOK
  <2>1. Alone(v) /\ (dpc[v] # "none" => Retried(v)) /\ Told(v)
    BY DEF Alone, RetryOK, TellOK, TypeOK, CallsOK, Called
  <2>2. CASE v = u
    BY <2>1, <2>2, Numbers, ProgressAssumption DEF Alone, Told, Retried, Whole, Wiped, Single,
       TypeOK, CallsOK, Called, Awaits, Tasks, Locked, Visible
  <2>3. CASE v # u
    BY <2>1, <2>3, Numbers DEF Retried, Alone, Whole, Wiped, Single, TypeOK, CallsOK, Called,
       Awaits, Locked, EditingOK, Visible
  <2> QED
    BY <2>2, <2>3
<1> QED
  BY <1>1, <1>2, <1>3, <1>4, <1>5, <1>6, <1>7, <1>8, <1>9

\* Telegram asks for a pause.
LEMMA FloodedKeeps ==
  ASSUME Inv, NEW u \in Updates, Flooded(u)
  PROVE  Inv'
<1> USE DEF Inv, Flooded, Go, FallBack, Fails, Terminal, updating, reporter, background
<1>1. TypeOK'
  <2>1. (pc \in [Updates -> Awaits \cup {"idle", "done", "dropped"}])'
    BY DEF TypeOK, Locked, Awaits, Tasks
  <2>2. (holder \in 0 .. count)'
    BY Numbers DEF TypeOK, CallsOK, Called
  <2>3. (tries \in [Updates -> 0 .. MaxRetries])'
    <3>1. tries[u] \in 0 .. MaxRetries /\ MaxRetries \in Nat \ {0}
      BY ProgressAssumption DEF TypeOK
    <3>2. tries[u] < MaxRetries => tries[u] + 1 \in 0 .. MaxRetries
      BY <3>1
    <3>3. tries[u] < 1 => tries[u] + 1 \in 0 .. MaxRetries
      BY <3>1
    <3> QED
      BY <3>2, <3>3 DEF TypeOK
  <2>4. (faults \in 0 .. MaxFaults)'
    BY ProgressAssumption DEF TypeOK
  <2>5. (\A v \in Updates : holder = v <=> pc[v] \in Locked)'
    <3>1. holder = u /\ pc[u] = "edit"
      BY DEF TypeOK, Locked
    <3>2. \/ holder' = 0 /\ \E x \in {"asleep", "done", "fallback"} : Go(u, x)
          \/ holder' = u /\ Go(u, "respond")
      BY <3>1
    <3>3. \A v \in Updates : v # u => (pc'[v] = pc[v] /\ pc[v] \notin Locked)
      BY <3>1, <3>2 DEF TypeOK
    <3>4. holder' = u <=> pc'[u] \in Locked
      BY <3>2, Numbers DEF TypeOK, Locked
    <3>5. holder' \in {0, u}
      BY <3>2
    <3> QED
      BY <3>3, <3>4, <3>5, Numbers
  <2> QED
    BY <2>1, <2>2, <2>3, <2>4, <2>5 DEF TypeOK
<1>2. CallsOK'
  BY DEF TypeOK, CallsOK, Called, Locked, Awaits, Tasks
<1>3. TextsOK'
  BY TextsStay DEF TypeOK, Untold, Locked, Awaits, Tasks
<1>4. EarlierOK'
  BY DEF EarlierOK, CallsOK, Called, TypeOK
<1>5. AppliedOK'
  BY Numbers DEF AppliedOK, TextsOK, Untold, TypeOK, CallsOK, Called, Visible
<1>6. EditingOK'
  BY Numbers DEF EditingOK, CallsOK, Called, TypeOK, Locked, Visible
<1>7. NewOK'
  BY Numbers DEF NewOK, CallsOK, Called, TypeOK, Whole, Single
<1>8. TellOK'
  <2> SUFFICES ASSUME NEW v \in Updates, Alone(v)', (pc[v] # "dropped")'
      PROVE  Told(v)'
    BY DEF TellOK
  <2>1. Alone(v) /\ (pc[v] # "dropped" => Told(v))
    BY DEF Alone, TellOK, TypeOK, CallsOK, Called
  <2>2. CASE v = u
    BY <2>1, <2>2, Numbers, ProgressAssumption DEF Alone, Told, Whole, Wiped, Single, TypeOK,
       CallsOK, Called, Awaits, Tasks, Locked, Visible
  <2>3. CASE v # u
    BY <2>1, <2>3, Numbers DEF Told, Alone, Whole, Wiped, Single, TypeOK, CallsOK, Called,
       Awaits, Locked, EditingOK, Visible
  <2> QED
    BY <2>2, <2>3
<1>9. RetryOK'
  <2> SUFFICES ASSUME NEW v \in Updates, Alone(v)', (dpc[v] # "none")'
      PROVE  Retried(v)'
    BY DEF RetryOK
  <2>1. Alone(v) /\ (dpc[v] # "none" => Retried(v)) /\ Told(v)
    BY DEF Alone, RetryOK, TellOK, TypeOK, CallsOK, Called
  <2>2. CASE v = u
    BY <2>1, <2>2, Numbers, ProgressAssumption DEF Alone, Told, Retried, Whole, Wiped, Single,
       TypeOK, CallsOK, Called, Awaits, Tasks, Locked, Visible
  <2>3. CASE v # u
    BY <2>1, <2>3, Numbers DEF Retried, Alone, Whole, Wiped, Single, TypeOK, CallsOK, Called,
       Awaits, Locked, EditingOK, Visible
  <2> QED
    BY <2>2, <2>3
<1> QED
  BY <1>1, <1>2, <1>3, <1>4, <1>5, <1>6, <1>7, <1>8, <1>9

\* The pause is over.
LEMMA WakeKeeps ==
  ASSUME Inv, NEW u \in Updates, Wake(u)
  PROVE  Inv'
<1> USE DEF Inv, Wake, Go, Stale, Enter, Terminal, updating, reporter, background
<1>1. TypeOK'
  <2>1. (pc \in [Updates -> Awaits \cup {"idle", "done", "dropped"}])'
    <3>1. \E x \in {"done", "edit", "waiting"} : Go(u, x)
      OBVIOUS
    <3> QED
      BY <3>1 DEF TypeOK, Locked, Awaits
  <2>2. (holder \in 0 .. count)'
    BY Numbers DEF TypeOK, CallsOK, Called
  <2>3. (\A v \in Updates : holder = v <=> pc[v] \in Locked)'
    BY Numbers DEF TypeOK, Locked, Awaits, Tasks, CallsOK, Called
  <2> QED
    BY <2>1, <2>2, <2>3 DEF TypeOK
<1>2. CallsOK'
  BY DEF TypeOK, CallsOK, Called, Locked, Awaits, Tasks
<1>3. TextsOK'
  BY TextsStay DEF TypeOK, Untold, Locked, Awaits, Tasks
<1>4. EarlierOK'
  BY DEF EarlierOK, CallsOK, Called, TypeOK
<1>5. AppliedOK'
  BY Numbers DEF AppliedOK, TextsOK, Untold, TypeOK, CallsOK, Called, Visible
<1>6. EditingOK'
  <2> SUFFICES ASSUME NEW w \in Updates, ~Terminal(w)', (pc[w] \in {"edit", "plain"})'
      PROVE  (/\ applied <= w
              /\ \A v \in Updates : Terminal(v) =>
                   pc[v] \in {"waiting", "dropped"} /\ ~Visible(v))'
    BY DEF EditingOK
  <2>1. CASE w = u
    <3>1. ~Terminal(u) /\ ~Stale(u)
      BY <2>1 DEF TypeOK
    <3>2. ~reached /\ applied <= u
      BY <3>1, Numbers DEF TypeOK, Stale
    <3> QED
      BY <2>1, <3>2 DEF CallsOK, Called
  <2>2. CASE w # u
    <3>1. ~Terminal(w) /\ pc[w] \in {"edit", "plain"} /\ holder = w
      BY <2>2 DEF TypeOK, Locked
    <3>2. ~Terminal(u)
      BY <3>1 DEF EditingOK
    <3>3. \A v \in Updates : v # u => pc'[v] = pc[v]
      BY DEF TypeOK
    <3> QED
      BY <3>1, <3>2, <3>3 DEF EditingOK, Visible
  <2> QED
    BY <2>1, <2>2
<1>7. NewOK'
  BY Numbers DEF NewOK, CallsOK, Called, TypeOK, Whole, Single
<1>8. TellOK'
  <2> SUFFICES ASSUME NEW v \in Updates, Alone(v)', (pc[v] # "dropped")'
      PROVE  Told(v)'
    BY DEF TellOK
  <2>1. Alone(v) /\ (pc[v] # "dropped" => Told(v))
    BY DEF Alone, TellOK, TypeOK, CallsOK, Called
  <2>2. CASE v = u
    BY <2>1, <2>2, Numbers, ProgressAssumption DEF Alone, Told, Whole, Wiped, Single, TypeOK,
       CallsOK, Called, Awaits, Tasks, Locked, Visible
  <2>3. CASE v # u
    BY <2>1, <2>3, Numbers DEF Told, Alone, Whole, Wiped, Single, TypeOK, CallsOK, Called,
       Awaits, Locked, EditingOK, Visible
  <2> QED
    BY <2>2, <2>3
<1>9. RetryOK'
  <2> SUFFICES ASSUME NEW v \in Updates, Alone(v)', (dpc[v] # "none")'
      PROVE  Retried(v)'
    BY DEF RetryOK
  <2>1. Alone(v) /\ (dpc[v] # "none" => Retried(v)) /\ Told(v)
    BY DEF Alone, RetryOK, TellOK, TypeOK, CallsOK, Called
  <2>2. CASE v = u
    BY <2>1, <2>2, Numbers, ProgressAssumption DEF Alone, Told, Retried, Whole, Wiped, Single,
       TypeOK, CallsOK, Called, Awaits, Tasks, Locked, Visible
  <2>3. CASE v # u
    BY <2>1, <2>3, Numbers DEF Retried, Alone, Whole, Wiped, Single, TypeOK, CallsOK, Called,
       Awaits, Locked, EditingOK, Visible
  <2> QED
    BY <2>2, <2>3
<1> QED
  BY <1>1, <1>2, <1>3, <1>4, <1>5, <1>6, <1>7, <1>8, <1>9

\* The text goes out as a new message.
LEMMA RespondedWrites ==
  ASSUME TypeOK, CallsOK, NEW u \in Updates, Responded(u)
  PROVE  Adds(u)
<1> Gone \in Texts /\ Failed \in Texts
  BY DEF Texts
<1> QED
  BY SendWrites, TextExists, MessageExists DEF Responded, Go, Noted, MarkDelivered,
                                               TypeOK, Tasks

\* ... and keeps the invariant.
LEMMA RespondedKeeps ==
  ASSUME Inv, NEW u \in Updates, Responded(u)
  PROVE  Inv'
<1> USE DEF Inv, Responded, Go, Noted, MarkDelivered, Terminal, updating, reporter,
            background
<1>1. Adds(u)
  BY RespondedWrites
<1>2. shown' \in Seq(Texts) /\ Texts' = Texts
  BY <1>1 DEF Adds, Texts, TypeOK
<1>3. TypeOK'
  <2>1. (pc \in [Updates -> Awaits \cup {"idle", "done", "dropped"}])'
    BY DEF TypeOK, Locked, Awaits, Tasks
  <2>2. (holder \in 0 .. count)'
    BY Numbers DEF TypeOK, CallsOK, Called
  <2>3. (old \in [Updates -> 0 .. Len(shown)])'
    BY <1>1 DEF TypeOK, Adds
  <2>4. (applied \in 0 .. count)'
    BY Numbers DEF TypeOK, CallsOK, Called
  <2>5. (uneditable \in BOOLEAN)'
    BY DEF TypeOK
  <2>6. (reached \in BOOLEAN)'
    BY DEF TypeOK
  <2>7. (delivered \in BOOLEAN)'
    BY DEF TypeOK
  <2>8. (doomed \in [Updates -> BOOLEAN])'
    BY DEF TypeOK
  <2>9. (shown \in Seq(0 .. count \cup {Gone, Failed}))'
    BY <1>2 DEF Texts
  <2>10. (message \in DOMAIN shown)'
    BY <1>1 DEF TypeOK, Adds
  <2>11. (\A v \in Updates : holder = v <=> pc[v] \in Locked)'
    BY Numbers DEF TypeOK, Locked, Awaits, Tasks, CallsOK, Called
  <2> QED
    BY <2>1, <2>2, <2>3, <2>4, <2>5, <2>6, <2>7, <2>8, <2>9, <2>10, <2>11 DEF TypeOK
<1>4. CallsOK'
  <2>1. Called(u)'
    <3>1. message # 0 /\ Called(u)
      BY DEF TypeOK, CallsOK
    <3>2. pc'[u] = "delete" /\ old'[u] = message /\ reached' = (reached \/ Terminal(u))
      BY DEF TypeOK
    <3>3. doomed[u] => doomed'[u]
      BY DEF TypeOK
    <3> QED
      BY <3>1, <3>2 DEF Called, TypeOK
  <2>2. ASSUME NEW v \in Updates, v # u
        PROVE  Called(v)'
    <3>1. doomed'[v] => doomed[v] \/ dpc[v] # "none"
      BY <2>2 DEF TypeOK, Tasks
    <3>2. /\ pc'[v] = pc[v] /\ dpc'[v] = dpc[v] /\ old'[v] = old[v]
          /\ kind' = kind /\ count' = count
          /\ reached => reached'
      BY <2>2 DEF TypeOK
    <3> QED
      BY <3>1, <3>2 DEF CallsOK, Called
  <2> QED
    BY <2>1, <2>2 DEF CallsOK
<1>5. TextsOK'
  BY <1>1, TextsWritten, TextsStay, Numbers, ProgressAssumption DEF TypeOK, Untold,
                                                                    CallsOK, Called, Adds,
                                                                    Locked, Awaits, Tasks
<1>6. EarlierOK'
  BY DEF EarlierOK, CallsOK, Called, TypeOK
<1>7. AppliedOK'
  <2>1. \A v \in Updates : v # u /\ Visible(v)' => Visible(v)
    BY <1>1, WritesVisible DEF Adds
  <2>2. \A v \in Updates : pc'[v] = "done" => pc[v] = "done"
    BY DEF TypeOK
  <2>3. \A v \in Updates : ~Terminal(v) /\ pc[v] = "done" => v <= u
    BY Numbers DEF EarlierOK, CallsOK, Called
  <2>4. applied' = u /\ kind' = kind /\ Terminal(u)
    BY DEF CallsOK, Called
  <2> QED
    BY <2>1, <2>2, <2>3, <2>4 DEF AppliedOK
<1>8. EditingOK'
  BY <1>1, WritesVisible, Numbers DEF EditingOK, CallsOK, Called, TypeOK, Locked, Adds
<1>9. NewOK'
  BY <1>1, Numbers DEF NewOK, CallsOK, Called, TypeOK, Whole, Single, Adds, Writes
<1>10. TellOK'
  <2> SUFFICES ASSUME NEW v \in Updates, Alone(v)', (pc[v] # "dropped")'
      PROVE  Told(v)'
    BY DEF TellOK
  <2>1. Alone(v) /\ (pc[v] # "dropped" => Told(v))
    BY DEF Alone, TellOK, TypeOK, CallsOK, Called
  <2>2. CASE v = u
    <3>1. Whole /\ pc'[u] = "delete" /\ old'[u] = 1
      BY <2>1, <2>2 DEF Told, TypeOK, Whole, Single
    <3>2. Len(shown') = 2 /\ shown'[2] = u
      BY <1>1, <3>1 DEF Adds, Writes, Whole, Single
    <3> QED
      BY <2>2, <3>1, <3>2 DEF Told
  <2>3. CASE v # u
    BY <1>1, <2>1, <2>3, Numbers DEF Told, Alone, Whole, Wiped, Single, TypeOK, CallsOK,
       Called, Awaits, Locked, EditingOK, Adds, Writes, Visible
  <2> QED
    BY <2>2, <2>3
<1>11. RetryOK'
  <2> SUFFICES ASSUME NEW v \in Updates, Alone(v)', (dpc[v] # "none")'
      PROVE  Retried(v)'
    BY DEF RetryOK
  <2>1. Alone(v) /\ (dpc[v] # "none" => Retried(v)) /\ Told(v)
    BY DEF Alone, RetryOK, TellOK, TypeOK, CallsOK, Called
  <2>2. CASE v = u
    BY <1>1, <2>1, <2>2, Numbers, ProgressAssumption DEF Alone, Told, Retried, Whole, Wiped,
       Single, TypeOK, CallsOK, Called, Awaits, Tasks, Locked, Adds, Writes, Visible
  <2>3. CASE v # u
    BY <1>1, <2>1, <2>3, Numbers DEF Retried, Alone, Whole, Wiped, Single, TypeOK, CallsOK,
       Called, Awaits, Locked, EditingOK, Adds, Writes, Visible
  <2> QED
    BY <2>2, <2>3
<1> QED
  BY <1>3, <1>4, <1>5, <1>6, <1>7, <1>8, <1>9, <1>10, <1>11

\* The new message fails.
LEMMA RespondFailsKeeps ==
  ASSUME Inv, NEW u \in Updates, RespondFails(u)
  PROVE  Inv'
<1> USE DEF Inv, RespondFails, Go, Fails, Terminal, updating, reporter, background
<1>1. TypeOK'
  <2>1. (pc \in [Updates -> Awaits \cup {"idle", "done", "dropped"}])'
    BY DEF TypeOK, Locked, Awaits, Tasks
  <2>2. (old \in [Updates -> 0 .. Len(shown)])'
    BY DEF TypeOK
  <2>3. (faults \in 0 .. MaxFaults)'
    BY ProgressAssumption DEF TypeOK
  <2>4. (\A v \in Updates : holder = v <=> pc[v] \in Locked)'
    BY Numbers DEF TypeOK, Locked, Awaits, Tasks, CallsOK, Called
  <2> QED
    BY <2>1, <2>2, <2>3, <2>4 DEF TypeOK
<1>2. CallsOK'
  BY DEF TypeOK, CallsOK, Called, Locked, Awaits, Tasks
<1>3. TextsOK'
  BY TextsStay DEF TypeOK, Untold, Locked, Awaits, Tasks
<1>4. EarlierOK'
  BY DEF EarlierOK, CallsOK, Called, TypeOK
<1>5. AppliedOK'
  BY Numbers DEF AppliedOK, TextsOK, Untold, TypeOK, CallsOK, Called, Visible
<1>6. EditingOK'
  BY Numbers DEF EditingOK, CallsOK, Called, TypeOK, Locked, Visible
<1>7. NewOK'
  BY Numbers DEF NewOK, CallsOK, Called, TypeOK, Whole, Single
<1>8. TellOK'
  <2> SUFFICES ASSUME NEW v \in Updates, Alone(v)', (pc[v] # "dropped")'
      PROVE  Told(v)'
    BY DEF TellOK
  <2>1. Alone(v) /\ (pc[v] # "dropped" => Told(v))
    BY DEF Alone, TellOK, TypeOK, CallsOK, Called
  <2>2. CASE v = u
    BY <2>1, <2>2, Numbers, ProgressAssumption DEF Alone, Told, Whole, Wiped, Single, TypeOK,
       CallsOK, Called, Awaits, Tasks, Locked, Visible
  <2>3. CASE v # u
    BY <2>1, <2>3, Numbers DEF Told, Alone, Whole, Wiped, Single, TypeOK, CallsOK, Called,
       Awaits, Locked, EditingOK, Visible
  <2> QED
    BY <2>2, <2>3
<1>9. RetryOK'
  <2> SUFFICES ASSUME NEW v \in Updates, Alone(v)', (dpc[v] # "none")'
      PROVE  Retried(v)'
    BY DEF RetryOK
  <2>1. Alone(v) /\ (dpc[v] # "none" => Retried(v)) /\ Told(v)
    BY DEF Alone, RetryOK, TellOK, TypeOK, CallsOK, Called
  <2>2. CASE v = u
    BY <2>1, <2>2, Numbers, ProgressAssumption DEF Alone, Told, Retried, Whole, Wiped, Single,
       TypeOK, CallsOK, Called, Awaits, Tasks, Locked, Visible
  <2>3. CASE v # u
    BY <2>1, <2>3, Numbers DEF Retried, Alone, Whole, Wiped, Single, TypeOK, CallsOK, Called,
       Awaits, Locked, EditingOK, Visible
  <2> QED
    BY <2>2, <2>3
<1> QED
  BY <1>1, <1>2, <1>3, <1>4, <1>5, <1>6, <1>7, <1>8, <1>9

\* The old message is deleted.
LEMMA DeletedWrites ==
  ASSUME TypeOK, CallsOK, NEW u \in Updates, Deleted(u)
  PROVE  Edits(old[u], Gone) \/ shown' = shown
<1> Gone \in Texts /\ Failed \in Texts
  BY DEF Texts
<1> QED
  BY EditWrites, TextExists, MessageExists DEF Deleted, Go, Delete, Fails, TypeOK, Tasks

\* ... and keeps the invariant.
LEMMA DeletedKeeps ==
  ASSUME Inv, NEW u \in Updates, Deleted(u)
  PROVE  Inv'
<1> USE DEF Inv, Deleted, Go, Delete, Fails, Terminal, updating, reporter, background
<1>1. Edits(old[u], Gone) \/ shown' = shown
  BY DeletedWrites
<1>2. shown' \in Seq(Texts) /\ Texts' = Texts
  BY <1>1 DEF Edits, Texts, TypeOK
<1>3. TypeOK'
  <2>1. (pc \in [Updates -> Awaits \cup {"idle", "done", "dropped"}])'
    BY DEF TypeOK, Locked, Awaits, Tasks
  <2>2. (holder \in 0 .. count)'
    BY Numbers DEF TypeOK, CallsOK, Called
  <2>3. (shown \in Seq(0 .. count \cup {Gone, Failed}))'
    BY <1>2 DEF Texts
  <2>4. (old \in [Updates -> 0 .. Len(shown)])'
    BY <1>1 DEF TypeOK, Edits
  <2>5. (message \in DOMAIN shown)'
    BY <1>1 DEF TypeOK, Edits
  <2>6. (faults \in 0 .. MaxFaults)'
    BY ProgressAssumption DEF TypeOK
  <2>7. (\A v \in Updates : holder = v <=> pc[v] \in Locked)'
    BY Numbers DEF TypeOK, Locked, Awaits, Tasks, CallsOK, Called
  <2> QED
    BY <2>1, <2>2, <2>3, <2>4, <2>5, <2>6, <2>7 DEF TypeOK
<1>4. CallsOK'
  BY DEF TypeOK, CallsOK, Called, Locked, Awaits, Tasks
<1>5. TextsOK'
  BY <1>1, TextsWritten, TextsStay, Numbers, ProgressAssumption DEF TypeOK, Untold,
                                                                    CallsOK, Called, Edits,
                                                                    Locked, Awaits, Tasks
<1>6. EarlierOK'
  BY DEF EarlierOK, CallsOK, Called, TypeOK
<1>7. AppliedOK'
  <2>1. \A v \in Updates : v # u /\ Visible(v)' => Visible(v)
    BY <1>1, OthersVisible, Zenon
  <2>2. \A v \in Updates : ~Terminal(v) /\ pc'[v] = "done" => v # u /\ pc[v] = "done"
    BY DEF TypeOK, CallsOK, Called
  <2> QED
    BY <2>1, <2>2 DEF AppliedOK
<1>8. EditingOK'
  BY <1>1, WritesVisible, Numbers DEF EditingOK, CallsOK, Called, TypeOK, Locked, Edits
<1>9. NewOK'
  BY <1>1, Numbers DEF NewOK, CallsOK, Called, TypeOK, Whole, Single, Edits, Writes
<1>10. TellOK'
  <2> SUFFICES ASSUME NEW v \in Updates, Alone(v)', (pc[v] # "dropped")'
      PROVE  Told(v)'
    BY DEF TellOK
  <2>1. Alone(v) /\ (pc[v] # "dropped" => Told(v))
    BY DEF Alone, TellOK, TypeOK, CallsOK, Called
  <2>2. CASE v = u
    BY <1>1, <2>1, <2>2, Numbers, ProgressAssumption DEF Alone, Told, Whole, Wiped, Single,
       TypeOK, CallsOK, Called, Awaits, Tasks, Locked, Edits, Writes, Visible
  <2>3. CASE v # u
    BY <1>1, <2>1, <2>3, Numbers DEF Told, Alone, Whole, Wiped, Single, TypeOK, CallsOK,
       Called, Awaits, Locked, EditingOK, Edits, Writes, Visible
  <2> QED
    BY <2>2, <2>3
<1>11. RetryOK'
  <2> SUFFICES ASSUME NEW v \in Updates, Alone(v)', (dpc[v] # "none")'
      PROVE  Retried(v)'
    BY DEF RetryOK
  <2>1. Alone(v) /\ (dpc[v] # "none" => Retried(v)) /\ Told(v)
    BY DEF Alone, RetryOK, TellOK, TypeOK, CallsOK, Called
  <2>2. CASE v = u
    BY <1>1, <2>1, <2>2, Numbers, ProgressAssumption DEF Alone, Told, Retried, Whole, Wiped,
       Single, TypeOK, CallsOK, Called, Awaits, Tasks, Locked, Edits, Writes, Visible
  <2>3. CASE v # u
    BY <1>1, <2>1, <2>3, Numbers DEF Retried, Alone, Whole, Wiped, Single, TypeOK, CallsOK,
       Called, Awaits, Locked, EditingOK, Edits, Writes, Visible
  <2> QED
    BY <2>2, <2>3
<1> QED
  BY <1>3, <1>4, <1>5, <1>6, <1>7, <1>8, <1>9, <1>10, <1>11

\* The old message is deleted, nothing having been told.
LEMMA ErasedWrites ==
  ASSUME TypeOK, CallsOK, NEW u \in Updates, Erased(u)
  PROVE  Edits(old[u], Gone)
<1> Gone \in Texts /\ Failed \in Texts
  BY DEF Texts
<1> QED
  BY EditWrites, TextExists, MessageExists DEF Erased, Go, Delete, Defer, TypeOK, Tasks

\* ... and keeps the invariant.
LEMMA ErasedKeeps ==
  ASSUME Inv, NEW u \in Updates, Erased(u)
  PROVE  Inv'
<1> USE DEF Inv, Erased, Go, Delete, Defer, Terminal, updating, reporter, background
<1>1. Edits(old[u], Gone)
  BY ErasedWrites
<1>2. shown' \in Seq(Texts) /\ Texts' = Texts
  BY <1>1 DEF Edits, Texts, TypeOK
<1>3. TypeOK'
  <2>1. (pc \in [Updates -> Awaits \cup {"idle", "done", "dropped"}])'
    BY DEF TypeOK, Locked, Awaits, Tasks
  <2>2. (holder \in 0 .. count)'
    BY Numbers DEF TypeOK, CallsOK, Called
  <2>3. (shown \in Seq(0 .. count \cup {Gone, Failed}))'
    BY <1>2 DEF Texts
  <2>4. (old \in [Updates -> 0 .. Len(shown)])'
    BY <1>1 DEF TypeOK, Edits
  <2>5. (message \in DOMAIN shown)'
    BY <1>1 DEF TypeOK, Edits
  <2>6. (dpc \in [Updates -> Tasks \cup {"none", "done"}])'
    BY DEF TypeOK, Locked, Awaits, Tasks
  <2>7. (clean \in [Updates -> BOOLEAN])'
    BY DEF TypeOK
  <2>8. (doomed \in [Updates -> BOOLEAN])'
    BY DEF TypeOK
  <2>9. (deferred \in 0 .. count)'
    BY Numbers DEF TypeOK, CallsOK, Called
  <2>10. (\A v \in Updates : holder = v <=> pc[v] \in Locked)'
    BY Numbers DEF TypeOK, Locked, Awaits, Tasks, CallsOK, Called
  <2> QED
    BY <2>1, <2>2, <2>3, <2>4, <2>5, <2>6, <2>7, <2>8, <2>9, <2>10 DEF TypeOK
<1>4. CallsOK'
  BY DEF TypeOK, CallsOK, Called, Locked, Awaits, Tasks
<1>5. TextsOK'
  BY <1>1, TextsWritten, TextsStay, Numbers, ProgressAssumption DEF TypeOK, Untold,
                                                                    CallsOK, Called, Edits,
                                                                    Locked, Awaits, Tasks
<1>6. EarlierOK'
  BY DEF EarlierOK, CallsOK, Called, TypeOK
<1>7. AppliedOK'
  <2>1. \A v \in Updates : v # u /\ Visible(v)' => Visible(v)
    BY <1>1, OthersVisible, Zenon
  <2>2. \A v \in Updates : ~Terminal(v) /\ pc'[v] = "done" => v # u /\ pc[v] = "done"
    BY DEF TypeOK, CallsOK, Called
  <2> QED
    BY <2>1, <2>2 DEF AppliedOK
<1>8. EditingOK'
  BY <1>1, WritesVisible, Numbers DEF EditingOK, CallsOK, Called, TypeOK, Locked, Edits
<1>9. NewOK'
  BY <1>1, Numbers DEF NewOK, CallsOK, Called, TypeOK, Whole, Single, Edits, Writes
<1>10. TellOK'
  <2> SUFFICES ASSUME NEW v \in Updates, Alone(v)', (pc[v] # "dropped")'
      PROVE  Told(v)'
    BY DEF TellOK
  <2>1. Alone(v) /\ (pc[v] # "dropped" => Told(v))
    BY DEF Alone, TellOK, TypeOK, CallsOK, Called
  <2>2. CASE v = u
    BY <1>1, <2>1, <2>2, Numbers, ProgressAssumption DEF Alone, Told, Whole, Wiped, Single,
       TypeOK, CallsOK, Called, Awaits, Tasks, Locked, Edits, Writes, Visible
  <2>3. CASE v # u
    BY <1>1, <2>1, <2>3, Numbers DEF Told, Alone, Whole, Wiped, Single, TypeOK, CallsOK,
       Called, Awaits, Locked, EditingOK, Edits, Writes, Visible
  <2> QED
    BY <2>2, <2>3
<1>11. RetryOK'
  <2> SUFFICES ASSUME NEW v \in Updates, Alone(v)', (dpc[v] # "none")'
      PROVE  Retried(v)'
    BY DEF RetryOK
  <2>1. Alone(v) /\ (dpc[v] # "none" => Retried(v)) /\ Told(v)
    BY DEF Alone, RetryOK, TellOK, TypeOK, CallsOK, Called
  <2>2. CASE v = u
    BY <1>1, <2>1, <2>2, Numbers, ProgressAssumption DEF Alone, Told, Retried, Whole, Wiped,
       Single, TypeOK, CallsOK, Called, Awaits, Tasks, Locked, Edits, Writes, Visible
  <2>3. CASE v # u
    BY <1>1, <2>1, <2>3, Numbers DEF Retried, Alone, Whole, Wiped, Single, TypeOK, CallsOK,
       Called, Awaits, Locked, EditingOK, Edits, Writes, Visible
  <2> QED
    BY <2>2, <2>3
<1> QED
  BY <1>3, <1>4, <1>5, <1>6, <1>7, <1>8, <1>9, <1>10, <1>11

\* It cannot be deleted.
LEMMA EraseFailsKeeps ==
  ASSUME Inv, NEW u \in Updates, EraseFails(u)
  PROVE  Inv'
<1> USE DEF Inv, EraseFails, Go, Fails, Defer, Terminal, updating, reporter, background
<1>1. TypeOK'
  <2>1. (pc \in [Updates -> Awaits \cup {"idle", "done", "dropped"}])'
    BY DEF TypeOK, Locked, Awaits, Tasks
  <2>2. (holder \in 0 .. count)'
    BY Numbers DEF TypeOK, CallsOK, Called
  <2>3. (faults \in 0 .. MaxFaults)'
    BY ProgressAssumption DEF TypeOK
  <2>4. (dpc \in [Updates -> Tasks \cup {"none", "done"}])'
    BY DEF TypeOK, Locked, Awaits, Tasks
  <2>5. (clean \in [Updates -> BOOLEAN])'
    BY DEF TypeOK
  <2>6. (doomed \in [Updates -> BOOLEAN])'
    BY DEF TypeOK
  <2>7. (deferred \in 0 .. count)'
    BY Numbers DEF TypeOK, CallsOK, Called
  <2>8. (\A v \in Updates : holder = v <=> pc[v] \in Locked)'
    BY Numbers DEF TypeOK, Locked, Awaits, Tasks, CallsOK, Called
  <2> QED
    BY <2>1, <2>2, <2>3, <2>4, <2>5, <2>6, <2>7, <2>8 DEF TypeOK
<1>2. CallsOK'
  BY DEF TypeOK, CallsOK, Called, Locked, Awaits, Tasks
<1>3. TextsOK'
  BY TextsStay DEF TypeOK, Untold, Locked, Awaits, Tasks
<1>4. EarlierOK'
  BY DEF EarlierOK, CallsOK, Called, TypeOK
<1>5. AppliedOK'
  BY Numbers DEF AppliedOK, TextsOK, Untold, TypeOK, CallsOK, Called, Visible
<1>6. EditingOK'
  BY Numbers DEF EditingOK, CallsOK, Called, TypeOK, Locked, Visible
<1>7. NewOK'
  BY Numbers DEF NewOK, CallsOK, Called, TypeOK, Whole, Single
<1>8. TellOK'
  <2> SUFFICES ASSUME NEW v \in Updates, Alone(v)', (pc[v] # "dropped")'
      PROVE  Told(v)'
    BY DEF TellOK
  <2>1. Alone(v) /\ (pc[v] # "dropped" => Told(v))
    BY DEF Alone, TellOK, TypeOK, CallsOK, Called
  <2>2. CASE v = u
    BY <2>1, <2>2, Numbers, ProgressAssumption DEF Alone, Told, Whole, Wiped, Single, TypeOK,
       CallsOK, Called, Awaits, Tasks, Locked, Visible
  <2>3. CASE v # u
    BY <2>1, <2>3, Numbers DEF Told, Alone, Whole, Wiped, Single, TypeOK, CallsOK, Called,
       Awaits, Locked, EditingOK, Visible
  <2> QED
    BY <2>2, <2>3
<1>9. RetryOK'
  <2> SUFFICES ASSUME NEW v \in Updates, Alone(v)', (dpc[v] # "none")'
      PROVE  Retried(v)'
    BY DEF RetryOK
  <2>1. Alone(v) /\ (dpc[v] # "none" => Retried(v)) /\ Told(v)
    BY DEF Alone, RetryOK, TellOK, TypeOK, CallsOK, Called
  <2>2. CASE v = u
    BY <2>1, <2>2, Numbers, ProgressAssumption DEF Alone, Told, Retried, Whole, Wiped, Single,
       TypeOK, CallsOK, Called, Awaits, Tasks, Locked, Visible
  <2>3. CASE v # u
    BY <2>1, <2>3, Numbers DEF Retried, Alone, Whole, Wiped, Single, TypeOK, CallsOK, Called,
       Awaits, Locked, EditingOK, Visible
  <2> QED
    BY <2>2, <2>3
<1> QED
  BY <1>1, <1>2, <1>3, <1>4, <1>5, <1>6, <1>7, <1>8, <1>9

\* The update is cancelled.
LEMMA CancelWrites ==
  ASSUME TypeOK, CallsOK, NEW u \in Updates, Cancel(u)
  PROVE  \/ shown' = shown
         \/ pc[u] \in {"edit", "plain"} /\ Edits(message, u) /\ shown[message] # Gone
         \/ pc[u] = "respond" /\ Adds(u)
         \/ pc[u] \in {"delete", "erase"} /\ Edits(old[u], Gone)
<1> Gone \in Texts /\ Failed \in Texts
  BY DEF Texts
<1> QED
  BY EditWrites, SendWrites, TextExists, MessageExists DEF Cancel, Go, Delete, Show,
                                                           TypeOK, Tasks

\* ... and keeps the invariant.
LEMMA CancelKeeps ==
  ASSUME Inv, NEW u \in Updates, Cancel(u)
  PROVE  Inv'
<1> USE DEF Inv, Cancel, Go, Delete, Show, Terminal, updating, reporter, background
<1>1. \/ shown' = shown
      \/ pc[u] \in {"edit", "plain"} /\ Edits(message, u) /\ shown[message] # Gone
      \/ pc[u] = "respond" /\ Adds(u)
      \/ pc[u] \in {"delete", "erase"} /\ Edits(old[u], Gone)
  BY CancelWrites
<1>2. shown' \in Seq(Texts) /\ Texts' = Texts
  BY <1>1 DEF Edits, Adds, Texts, TypeOK
<1>3. TypeOK'
  <2>1. (pc \in [Updates -> Awaits \cup {"idle", "done", "dropped"}])'
    BY DEF TypeOK, Locked, Awaits, Tasks
  <2>2. (holder \in 0 .. count)'
    BY Numbers DEF TypeOK, CallsOK, Called
  <2>3. (shown \in Seq(0 .. count \cup {Gone, Failed}))'
    BY <1>2 DEF Texts
  <2>4. (old \in [Updates -> 0 .. Len(shown)])'
    BY <1>1 DEF TypeOK, Edits, Adds
  <2>5. (message \in DOMAIN shown)'
    BY <1>1 DEF TypeOK, Edits, Adds
  <2>6. (\A v \in Updates : holder = v <=> pc[v] \in Locked)'
    BY Numbers DEF TypeOK, Locked, Awaits, Tasks, CallsOK, Called
  <2> QED
    BY <2>1, <2>2, <2>3, <2>4, <2>5, <2>6 DEF TypeOK
<1>4. CallsOK'
  BY DEF TypeOK, CallsOK, Called, Locked, Awaits, Tasks
<1>5. TextsOK'
  BY <1>1, TextsWritten, TextsStay, Numbers, ProgressAssumption DEF TypeOK, Untold,
                                                                    CallsOK, Called, Edits, Adds,
                                                                    Locked, Awaits, Tasks
<1>6. EarlierOK'
  BY DEF EarlierOK, CallsOK, Called, TypeOK
<1>7. AppliedOK'
  <2>1. \A v \in Updates : v # u /\ Visible(v)' => Visible(v)
    BY <1>1, OthersVisible, Zenon
  <2>2. \A v \in Updates : ~Terminal(v) /\ pc'[v] = "done" => v # u /\ pc[v] = "done"
    BY DEF TypeOK, CallsOK, Called
  <2> QED
    BY <2>1, <2>2 DEF AppliedOK
<1>8. EditingOK'
  <2> SUFFICES ASSUME NEW w \in Updates, ~Terminal(w), (pc[w] \in {"edit", "plain"})'
      PROVE  (/\ applied <= w
              /\ \A v \in Updates : Terminal(v) =>
                   pc[v] \in {"waiting", "dropped"} /\ ~Visible(v))'
    BY DEF EditingOK
  <2>1. w # u /\ pc[w] \in {"edit", "plain"}
    BY DEF TypeOK
  <2>2. pc[u] \notin Locked
    BY <2>1 DEF TypeOK, Locked
  <2>3. shown' = shown
    BY <1>1, <2>2 DEF Locked
  <2> QED
    BY <2>1, <2>3 DEF EditingOK, TypeOK, Visible
<1>9. NewOK'
  BY <1>1, Numbers DEF NewOK, CallsOK, Called, TypeOK, Whole, Single, Edits, Adds, Writes
<1>10. TellOK'
  <2> SUFFICES ASSUME NEW v \in Updates, Alone(v)', (pc[v] # "dropped")'
      PROVE  Told(v)'
    BY DEF TellOK
  <2>1. Alone(v) /\ (pc[v] # "dropped" => Told(v))
    BY DEF Alone, TellOK, TypeOK, CallsOK, Called
  <2>2. CASE v = u
    BY <1>1, <2>1, <2>2, Numbers, ProgressAssumption DEF Alone, Told, Whole, Wiped, Single,
       TypeOK, CallsOK, Called, Awaits, Tasks, Locked, Edits, Adds, Writes, Visible
  <2>3. CASE v # u
    <3>1. Terminal(v) /\ ~Terminal(u) /\ pc'[v] = pc[v] /\ Told(v)
      BY <2>1, <2>3 DEF Alone, TypeOK
    <3>2. CASE shown' = shown
      BY <3>1, <3>2 DEF Told, Whole, Wiped, Single, Visible
    <3>3. CASE pc[u] \in {"edit", "plain"} /\ Edits(message, u)
      <4>1. pc[v] = "waiting"
        BY <2>3, <3>1, <3>3 DEF EditingOK, TypeOK
      <4>2. Whole
        BY <3>1, <4>1 DEF Told
      <4>3. Len(shown') = 1 /\ shown'[1] = u
        BY <3>3, <4>2 DEF Edits, Writes, Whole, Single
      <4> QED
        BY <3>1, <4>1, <4>2, <4>3, Numbers DEF Told, Whole, Single
    <3>4. pc[u] \notin {"respond", "delete", "erase"}
      BY <3>1 DEF CallsOK, Called
    <3> QED
      BY <1>1, <3>2, <3>3, <3>4
  <2> QED
    BY <2>2, <2>3
<1>11. RetryOK'
  <2> SUFFICES ASSUME NEW v \in Updates, Alone(v)', (dpc[v] # "none")'
      PROVE  Retried(v)'
    BY DEF RetryOK
  <2>1. Alone(v) /\ (dpc[v] # "none" => Retried(v)) /\ Told(v)
    BY DEF Alone, RetryOK, TellOK, TypeOK, CallsOK, Called
  <2>2. CASE v = u
    BY <1>1, <2>1, <2>2, Numbers, ProgressAssumption DEF Alone, Told, Retried, Whole, Wiped,
       Single, TypeOK, CallsOK, Called, Awaits, Tasks, Locked, Edits, Adds, Writes, Visible
  <2>3. CASE v # u
    <3>1. Terminal(v) /\ ~Terminal(u)
      BY <2>1, <2>3 DEF Alone
    <3>2. pc[u] \notin Locked
      <4>1. pc[v] = "done"
        BY <2>1 DEF CallsOK, Called
      <4> QED
        BY <3>1, <4>1 DEF EditingOK, CallsOK, Called, Locked
    <3>3. shown' = shown
      BY <1>1, <3>2 DEF Locked
    <3> QED
      BY <2>1, <3>3 DEF Retried, Whole, Wiped, Single, Visible
  <2> QED
    BY <2>2, <2>3
<1> QED
  BY <1>3, <1>4, <1>5, <1>6, <1>7, <1>8, <1>9, <1>10, <1>11

\* The background task starts.
LEMMA DeferredWakesKeeps ==
  ASSUME Inv, NEW u \in Updates, DeferredWakes(u)
  PROVE  Inv'
<1> USE DEF Inv, DeferredWakes, DeferredAt, DeferredGo, Terminal, updating, reporter,
            background
<1>1. TypeOK'
  <2>1. (dpc \in [Updates -> Tasks \cup {"none", "done"}])'
    <3>1. \E x \in {"done", "edit", "delete", "respond"} : DeferredGo(u, x)
      BY DEF TypeOK, CallsOK, Called
    <3> QED
      BY <3>1 DEF TypeOK, Tasks
  <2> QED
    BY <2>1 DEF TypeOK
<1>2. CallsOK'
  BY DEF TypeOK, CallsOK, Called, Locked, Awaits, Tasks
<1>3. TextsOK'
  BY TextsStay DEF TypeOK, Untold, Locked, Awaits, Tasks
<1>4. EarlierOK'
  BY DEF EarlierOK, CallsOK, Called, TypeOK
<1>5. AppliedOK'
  BY Numbers DEF AppliedOK, TextsOK, Untold, TypeOK, CallsOK, Called, Visible
<1>6. EditingOK'
  BY Numbers DEF EditingOK, CallsOK, Called, TypeOK, Locked, Visible
<1>7. NewOK'
  BY Numbers DEF NewOK, CallsOK, Called, TypeOK, Whole, Single
<1>8. TellOK'
  <2> SUFFICES ASSUME NEW v \in Updates, Alone(v)', (pc[v] # "dropped")'
      PROVE  Told(v)'
    BY DEF TellOK
  <2>1. Alone(v) /\ (pc[v] # "dropped" => Told(v))
    BY DEF Alone, TellOK, TypeOK, CallsOK, Called
  <2>2. CASE v = u
    BY <2>1, <2>2, Numbers, ProgressAssumption DEF Alone, Told, Whole, Wiped, Single, TypeOK,
       CallsOK, Called, Awaits, Tasks, Locked, Visible
  <2>3. CASE v # u
    BY <2>1, <2>3, Numbers DEF Told, Alone, Whole, Wiped, Single, TypeOK, CallsOK, Called,
       Awaits, Locked, EditingOK, Visible
  <2> QED
    BY <2>2, <2>3
<1>9. RetryOK'
  <2> SUFFICES ASSUME NEW v \in Updates, Alone(v)', (dpc[v] # "none")'
      PROVE  Retried(v)'
    BY DEF RetryOK
  <2>1. Alone(v) /\ (dpc[v] # "none" => Retried(v)) /\ Told(v)
    BY DEF Alone, RetryOK, TellOK, TypeOK, CallsOK, Called
  <2>2. CASE v = u
    BY <2>1, <2>2, Numbers, ProgressAssumption DEF Alone, Told, Retried, Whole, Wiped, Single,
       TypeOK, CallsOK, Called, Awaits, Tasks, Locked, Visible
  <2>3. CASE v # u
    BY <2>1, <2>3, Numbers DEF Retried, Alone, Whole, Wiped, Single, TypeOK, CallsOK, Called,
       Awaits, Locked, EditingOK, Visible
  <2> QED
    BY <2>2, <2>3
<1> QED
  BY <1>1, <1>2, <1>3, <1>4, <1>5, <1>6, <1>7, <1>8, <1>9

\* It edits the text in.
LEMMA DeferredEditedWrites ==
  ASSUME TypeOK, CallsOK, NEW u \in Updates, DeferredEdited(u)
  PROVE  Edits(old[u], u)
<1> Gone \in Texts /\ Failed \in Texts
  BY DEF Texts
<1> QED
  BY EditWrites, TextExists, MessageExists DEF DeferredEdited, DeferredAt, DeferredGo,
                                               Show, MarkDelivered, TypeOK, Tasks

\* ... and keeps the invariant.
LEMMA DeferredEditedKeeps ==
  ASSUME Inv, NEW u \in Updates, DeferredEdited(u)
  PROVE  Inv'
<1> USE DEF Inv, DeferredEdited, DeferredAt, DeferredGo, Show, MarkDelivered, Terminal,
            updating, reporter, background
<1>1. Edits(old[u], u)
  BY DeferredEditedWrites
<1>2. shown' \in Seq(Texts) /\ Texts' = Texts
  BY <1>1 DEF Edits, Texts, TypeOK
<1>3. TypeOK'
  <2>1. (dpc \in [Updates -> Tasks \cup {"none", "done"}])'
    BY DEF TypeOK, Locked, Awaits, Tasks
  <2>2. (reached \in BOOLEAN)'
    BY DEF TypeOK
  <2>3. (delivered \in BOOLEAN)'
    BY DEF TypeOK
  <2>4. (doomed \in [Updates -> BOOLEAN])'
    BY DEF TypeOK
  <2>5. (shown \in Seq(0 .. count \cup {Gone, Failed}))'
    BY <1>2 DEF Texts
  <2>6. (old \in [Updates -> 0 .. Len(shown)])'
    BY <1>1 DEF TypeOK, Edits
  <2>7. (message \in DOMAIN shown)'
    BY <1>1 DEF TypeOK, Edits
  <2> QED
    BY <2>1, <2>2, <2>3, <2>4, <2>5, <2>6, <2>7 DEF TypeOK
<1>4. CallsOK'
  BY DEF TypeOK, CallsOK, Called, Locked, Awaits, Tasks
<1>5. TextsOK'
  BY <1>1, TextsWritten, TextsStay, Numbers, ProgressAssumption DEF TypeOK, Untold,
                                                                    CallsOK, Called, Edits,
                                                                    Locked, Awaits, Tasks
<1>6. EarlierOK'
  BY DEF EarlierOK, CallsOK, Called, TypeOK
<1>7. AppliedOK'
  <2>1. \A v \in Updates : v # u /\ Visible(v)' => Visible(v)
    BY <1>1, OthersVisible, Zenon
  <2>2. \A v \in Updates : ~Terminal(v) /\ pc'[v] = "done" => v # u /\ pc[v] = "done"
    BY DEF TypeOK, CallsOK, Called
  <2> QED
    BY <2>1, <2>2 DEF AppliedOK
<1>8. EditingOK'
  BY <1>1, WritesVisible, Numbers DEF EditingOK, CallsOK, Called, TypeOK, Locked, Edits
<1>9. NewOK'
  BY <1>1, Numbers DEF NewOK, CallsOK, Called, TypeOK, Whole, Single, Edits, Writes
<1>10. TellOK'
  <2> SUFFICES ASSUME NEW v \in Updates, Alone(v)', (pc[v] # "dropped")'
      PROVE  Told(v)'
    BY DEF TellOK
  <2>1. Alone(v) /\ (pc[v] # "dropped" => Told(v))
    BY DEF Alone, TellOK, TypeOK, CallsOK, Called
  <2>2. CASE v = u
    BY <1>1, <2>1, <2>2, Numbers, ProgressAssumption DEF Alone, Told, Whole, Wiped, Single,
       TypeOK, CallsOK, Called, Awaits, Tasks, Locked, Edits, Writes, Visible
  <2>3. CASE v # u
    BY <1>1, <2>1, <2>3, Numbers DEF Told, Alone, Whole, Wiped, Single, TypeOK, CallsOK,
       Called, Awaits, Locked, EditingOK, Edits, Writes, Visible
  <2> QED
    BY <2>2, <2>3
<1>11. RetryOK'
  <2> SUFFICES ASSUME NEW v \in Updates, Alone(v)', (dpc[v] # "none")'
      PROVE  Retried(v)'
    BY DEF RetryOK
  <2>1. Alone(v) /\ (dpc[v] # "none" => Retried(v)) /\ Told(v)
    BY DEF Alone, RetryOK, TellOK, TypeOK, CallsOK, Called
  <2>2. CASE v = u
    BY <1>1, <2>1, <2>2, Numbers, ProgressAssumption DEF Alone, Told, Retried, Whole, Wiped,
       Single, TypeOK, CallsOK, Called, Awaits, Tasks, Locked, Edits, Writes, Visible
  <2>3. CASE v # u
    BY <1>1, <2>1, <2>3, Numbers DEF Retried, Alone, Whole, Wiped, Single, TypeOK, CallsOK,
       Called, Awaits, Locked, EditingOK, Edits, Writes, Visible
  <2> QED
    BY <2>2, <2>3
<1> QED
  BY <1>3, <1>4, <1>5, <1>6, <1>7, <1>8, <1>9, <1>10, <1>11

\* Its edit fails.
LEMMA DeferredEditFailsKeeps ==
  ASSUME Inv, NEW u \in Updates, DeferredEditFails(u)
  PROVE  Inv'
<1> USE DEF Inv, DeferredEditFails, DeferredAt, DeferredGo, EditFailsOn, Fails, Terminal,
            updating, reporter, background
<1>1. TypeOK'
  <2>1. (dpc \in [Updates -> Tasks \cup {"none", "done"}])'
    BY DEF TypeOK, Locked, Awaits, Tasks
  <2>2. (faults \in 0 .. MaxFaults)'
    BY ProgressAssumption DEF TypeOK
  <2> QED
    BY <2>1, <2>2 DEF TypeOK
<1>2. CallsOK'
  BY DEF TypeOK, CallsOK, Called, Locked, Awaits, Tasks
<1>3. TextsOK'
  BY TextsStay DEF TypeOK, Untold, Locked, Awaits, Tasks
<1>4. EarlierOK'
  BY DEF EarlierOK, CallsOK, Called, TypeOK
<1>5. AppliedOK'
  BY Numbers DEF AppliedOK, TextsOK, Untold, TypeOK, CallsOK, Called, Visible
<1>6. EditingOK'
  BY Numbers DEF EditingOK, CallsOK, Called, TypeOK, Locked, Visible
<1>7. NewOK'
  BY Numbers DEF NewOK, CallsOK, Called, TypeOK, Whole, Single
<1>8. TellOK'
  <2> SUFFICES ASSUME NEW v \in Updates, Alone(v)', (pc[v] # "dropped")'
      PROVE  Told(v)'
    BY DEF TellOK
  <2>1. Alone(v) /\ (pc[v] # "dropped" => Told(v))
    BY DEF Alone, TellOK, TypeOK, CallsOK, Called
  <2>2. CASE v = u
    BY <2>1, <2>2, Numbers, ProgressAssumption DEF Alone, Told, Whole, Wiped, Single, TypeOK,
       CallsOK, Called, Awaits, Tasks, Locked, Visible
  <2>3. CASE v # u
    BY <2>1, <2>3, Numbers DEF Told, Alone, Whole, Wiped, Single, TypeOK, CallsOK, Called,
       Awaits, Locked, EditingOK, Visible
  <2> QED
    BY <2>2, <2>3
<1>9. RetryOK'
  <2> SUFFICES ASSUME NEW v \in Updates, Alone(v)', (dpc[v] # "none")'
      PROVE  Retried(v)'
    BY DEF RetryOK
  <2>1. Alone(v) /\ (dpc[v] # "none" => Retried(v)) /\ Told(v)
    BY DEF Alone, RetryOK, TellOK, TypeOK, CallsOK, Called
  <2>2. CASE v = u
    BY <2>1, <2>2, Numbers, ProgressAssumption DEF Alone, Told, Retried, Whole, Wiped, Single,
       TypeOK, CallsOK, Called, Awaits, Tasks, Locked, Visible
  <2>3. CASE v # u
    BY <2>1, <2>3, Numbers DEF Retried, Alone, Whole, Wiped, Single, TypeOK, CallsOK, Called,
       Awaits, Locked, EditingOK, Visible
  <2> QED
    BY <2>2, <2>3
<1> QED
  BY <1>1, <1>2, <1>3, <1>4, <1>5, <1>6, <1>7, <1>8, <1>9

\* It sends the text.
LEMMA DeferredRespondedWrites ==
  ASSUME TypeOK, CallsOK, NEW u \in Updates, DeferredResponded(u)
  PROVE  Adds(u)
<1> Gone \in Texts /\ Failed \in Texts
  BY DEF Texts
<1> QED
  BY SendWrites, TextExists, MessageExists DEF DeferredResponded, DeferredAt, DeferredGo,
                                               MarkDelivered, TypeOK, Tasks

\* ... and keeps the invariant.
LEMMA DeferredRespondedKeeps ==
  ASSUME Inv, NEW u \in Updates, DeferredResponded(u)
  PROVE  Inv'
<1> USE DEF Inv, DeferredResponded, DeferredAt, DeferredGo, MarkDelivered, Terminal,
            updating, reporter, background
<1>1. Adds(u)
  BY DeferredRespondedWrites
<1>2. shown' \in Seq(Texts) /\ Texts' = Texts
  BY <1>1 DEF Adds, Texts, TypeOK
<1>3. TypeOK'
  <2>1. (dpc \in [Updates -> Tasks \cup {"none", "done"}])'
    BY DEF TypeOK, Locked, Awaits, Tasks
  <2>2. (reached \in BOOLEAN)'
    BY DEF TypeOK
  <2>3. (delivered \in BOOLEAN)'
    BY DEF TypeOK
  <2>4. (doomed \in [Updates -> BOOLEAN])'
    BY DEF TypeOK
  <2>5. (shown \in Seq(0 .. count \cup {Gone, Failed}))'
    BY <1>2 DEF Texts
  <2>6. (old \in [Updates -> 0 .. Len(shown)])'
    BY <1>1 DEF TypeOK, Adds
  <2>7. (message \in DOMAIN shown)'
    BY <1>1 DEF TypeOK, Adds
  <2> QED
    BY <2>1, <2>2, <2>3, <2>4, <2>5, <2>6, <2>7 DEF TypeOK
<1>4. CallsOK'
  BY DEF TypeOK, CallsOK, Called, Locked, Awaits, Tasks
<1>5. TextsOK'
  BY <1>1, TextsWritten, TextsStay, Numbers, ProgressAssumption DEF TypeOK, Untold,
                                                                    CallsOK, Called, Adds,
                                                                    Locked, Awaits, Tasks
<1>6. EarlierOK'
  BY DEF EarlierOK, CallsOK, Called, TypeOK
<1>7. AppliedOK'
  <2>1. \A v \in Updates : v # u /\ Visible(v)' => Visible(v)
    BY <1>1, OthersVisible, Zenon
  <2>2. \A v \in Updates : ~Terminal(v) /\ pc'[v] = "done" => v # u /\ pc[v] = "done"
    BY DEF TypeOK, CallsOK, Called
  <2> QED
    BY <2>1, <2>2 DEF AppliedOK
<1>8. EditingOK'
  BY <1>1, WritesVisible, Numbers DEF EditingOK, CallsOK, Called, TypeOK, Locked, Adds
<1>9. NewOK'
  BY <1>1, Numbers DEF NewOK, CallsOK, Called, TypeOK, Whole, Single, Adds, Writes
<1>10. TellOK'
  <2> SUFFICES ASSUME NEW v \in Updates, Alone(v)', (pc[v] # "dropped")'
      PROVE  Told(v)'
    BY DEF TellOK
  <2>1. Alone(v) /\ (pc[v] # "dropped" => Told(v))
    BY DEF Alone, TellOK, TypeOK, CallsOK, Called
  <2>2. CASE v = u
    BY <1>1, <2>1, <2>2, Numbers, ProgressAssumption DEF Alone, Told, Whole, Wiped, Single,
       TypeOK, CallsOK, Called, Awaits, Tasks, Locked, Adds, Writes, Visible
  <2>3. CASE v # u
    BY <1>1, <2>1, <2>3, Numbers DEF Told, Alone, Whole, Wiped, Single, TypeOK, CallsOK,
       Called, Awaits, Locked, EditingOK, Adds, Writes, Visible
  <2> QED
    BY <2>2, <2>3
<1>11. RetryOK'
  <2> SUFFICES ASSUME NEW v \in Updates, Alone(v)', (dpc[v] # "none")'
      PROVE  Retried(v)'
    BY DEF RetryOK
  <2>1. Alone(v) /\ (dpc[v] # "none" => Retried(v)) /\ Told(v)
    BY DEF Alone, RetryOK, TellOK, TypeOK, CallsOK, Called
  <2>2. CASE v = u
    BY <1>1, <2>1, <2>2, Numbers, ProgressAssumption DEF Alone, Told, Retried, Whole, Wiped,
       Single, TypeOK, CallsOK, Called, Awaits, Tasks, Locked, Adds, Writes, Visible
  <2>3. CASE v # u
    BY <1>1, <2>1, <2>3, Numbers DEF Retried, Alone, Whole, Wiped, Single, TypeOK, CallsOK,
       Called, Awaits, Locked, EditingOK, Adds, Writes, Visible
  <2> QED
    BY <2>2, <2>3
<1> QED
  BY <1>3, <1>4, <1>5, <1>6, <1>7, <1>8, <1>9, <1>10, <1>11

\* Its message fails.
LEMMA DeferredRespondFailsKeeps ==
  ASSUME Inv, NEW u \in Updates, DeferredRespondFails(u)
  PROVE  Inv'
<1> USE DEF Inv, DeferredRespondFails, DeferredAt, DeferredGo, Fails, Terminal, updating,
            reporter, background
<1>1. TypeOK'
  <2>1. (dpc \in [Updates -> Tasks \cup {"none", "done"}])'
    BY DEF TypeOK, Locked, Awaits, Tasks
  <2>2. (faults \in 0 .. MaxFaults)'
    BY ProgressAssumption DEF TypeOK
  <2> QED
    BY <2>1, <2>2 DEF TypeOK
<1>2. CallsOK'
  BY DEF TypeOK, CallsOK, Called, Locked, Awaits, Tasks
<1>3. TextsOK'
  BY TextsStay DEF TypeOK, Untold, Locked, Awaits, Tasks
<1>4. EarlierOK'
  BY DEF EarlierOK, CallsOK, Called, TypeOK
<1>5. AppliedOK'
  BY Numbers DEF AppliedOK, TextsOK, Untold, TypeOK, CallsOK, Called, Visible
<1>6. EditingOK'
  BY Numbers DEF EditingOK, CallsOK, Called, TypeOK, Locked, Visible
<1>7. NewOK'
  BY Numbers DEF NewOK, CallsOK, Called, TypeOK, Whole, Single
<1>8. TellOK'
  <2> SUFFICES ASSUME NEW v \in Updates, Alone(v)', (pc[v] # "dropped")'
      PROVE  Told(v)'
    BY DEF TellOK
  <2>1. Alone(v) /\ (pc[v] # "dropped" => Told(v))
    BY DEF Alone, TellOK, TypeOK, CallsOK, Called
  <2>2. CASE v = u
    BY <2>1, <2>2, Numbers, ProgressAssumption DEF Alone, Told, Whole, Wiped, Single, TypeOK,
       CallsOK, Called, Awaits, Tasks, Locked, Visible
  <2>3. CASE v # u
    BY <2>1, <2>3, Numbers DEF Told, Alone, Whole, Wiped, Single, TypeOK, CallsOK, Called,
       Awaits, Locked, EditingOK, Visible
  <2> QED
    BY <2>2, <2>3
<1>9. RetryOK'
  <2> SUFFICES ASSUME NEW v \in Updates, Alone(v)', (dpc[v] # "none")'
      PROVE  Retried(v)'
    BY DEF RetryOK
  <2>1. Alone(v) /\ (dpc[v] # "none" => Retried(v)) /\ Told(v)
    BY DEF Alone, RetryOK, TellOK, TypeOK, CallsOK, Called
  <2>2. CASE v = u
    BY <2>1, <2>2, Numbers, ProgressAssumption DEF Alone, Told, Retried, Whole, Wiped, Single,
       TypeOK, CallsOK, Called, Awaits, Tasks, Locked, Visible
  <2>3. CASE v # u
    BY <2>1, <2>3, Numbers DEF Retried, Alone, Whole, Wiped, Single, TypeOK, CallsOK, Called,
       Awaits, Locked, EditingOK, Visible
  <2> QED
    BY <2>2, <2>3
<1> QED
  BY <1>1, <1>2, <1>3, <1>4, <1>5, <1>6, <1>7, <1>8, <1>9

\* It deletes the old message.
LEMMA DeferredDeletedWrites ==
  ASSUME TypeOK, CallsOK, NEW u \in Updates, DeferredDeleted(u)
  PROVE  (Edits(old[u], Gone) /\ UNCHANGED faults) \/ (shown' = shown /\ Fails)
<1> Gone \in Texts /\ Failed \in Texts
  BY DEF Texts
<1> QED
  BY EditWrites, TextExists, MessageExists DEF DeferredDeleted, DeferredAt, DeferredGo,
                                               Delete, Fails, TypeOK, Tasks

\* ... and keeps the invariant.
LEMMA DeferredDeletedKeeps ==
  ASSUME Inv, NEW u \in Updates, DeferredDeleted(u)
  PROVE  Inv'
<1> USE DEF Inv, DeferredDeleted, DeferredAt, DeferredGo, Delete, Fails, Terminal,
            updating, reporter, background
<1>1. (Edits(old[u], Gone) /\ UNCHANGED faults) \/ (shown' = shown /\ Fails)
  BY DeferredDeletedWrites
<1>2. shown' \in Seq(Texts) /\ Texts' = Texts
  BY <1>1 DEF Edits, Texts, TypeOK
<1>3. TypeOK'
  <2>1. (dpc \in [Updates -> Tasks \cup {"none", "done"}])'
    BY DEF TypeOK, Locked, Awaits, Tasks
  <2>2. (shown \in Seq(0 .. count \cup {Gone, Failed}))'
    BY <1>2 DEF Texts
  <2>3. (old \in [Updates -> 0 .. Len(shown)])'
    BY <1>1 DEF TypeOK, Edits
  <2>4. (message \in DOMAIN shown)'
    BY <1>1 DEF TypeOK, Edits
  <2>5. (faults \in 0 .. MaxFaults)'
    BY ProgressAssumption DEF TypeOK
  <2> QED
    BY <2>1, <2>2, <2>3, <2>4, <2>5 DEF TypeOK
<1>4. CallsOK'
  BY DEF TypeOK, CallsOK, Called, Locked, Awaits, Tasks
<1>5. TextsOK'
  BY <1>1, TextsWritten, TextsStay, Numbers, ProgressAssumption DEF TypeOK, Untold,
                                                                    CallsOK, Called, Edits,
                                                                    Locked, Awaits, Tasks
<1>6. EarlierOK'
  BY DEF EarlierOK, CallsOK, Called, TypeOK
<1>7. AppliedOK'
  <2>1. \A v \in Updates : v # u /\ Visible(v)' => Visible(v)
    BY <1>1, OthersVisible, Zenon
  <2>2. \A v \in Updates : ~Terminal(v) /\ pc'[v] = "done" => v # u /\ pc[v] = "done"
    BY DEF TypeOK, CallsOK, Called
  <2> QED
    BY <2>1, <2>2 DEF AppliedOK
<1>8. EditingOK'
  BY <1>1, WritesVisible, Numbers DEF EditingOK, CallsOK, Called, TypeOK, Locked, Edits
<1>9. NewOK'
  BY <1>1, Numbers DEF NewOK, CallsOK, Called, TypeOK, Whole, Single, Edits, Writes
<1>10. TellOK'
  <2> SUFFICES ASSUME NEW v \in Updates, Alone(v)', (pc[v] # "dropped")'
      PROVE  Told(v)'
    BY DEF TellOK
  <2>1. Alone(v) /\ (pc[v] # "dropped" => Told(v))
    BY DEF Alone, TellOK, TypeOK, CallsOK, Called
  <2>2. CASE v = u
    BY <1>1, <2>1, <2>2, Numbers, ProgressAssumption DEF Alone, Told, Whole, Wiped, Single,
       TypeOK, CallsOK, Called, Awaits, Tasks, Locked, Edits, Writes, Visible
  <2>3. CASE v # u
    BY <1>1, <2>1, <2>3, Numbers DEF Told, Alone, Whole, Wiped, Single, TypeOK, CallsOK,
       Called, Awaits, Locked, EditingOK, Edits, Writes, Visible
  <2> QED
    BY <2>2, <2>3
<1>11. RetryOK'
  <2> SUFFICES ASSUME NEW v \in Updates, Alone(v)', (dpc[v] # "none")'
      PROVE  Retried(v)'
    BY DEF RetryOK
  <2>1. Alone(v) /\ (dpc[v] # "none" => Retried(v)) /\ Told(v)
    BY DEF Alone, RetryOK, TellOK, TypeOK, CallsOK, Called
  <2>2. CASE v = u
    BY <1>1, <2>1, <2>2, Numbers, ProgressAssumption DEF Alone, Told, Retried, Whole, Wiped,
       Single, TypeOK, CallsOK, Called, Awaits, Tasks, Locked, Edits, Writes, Visible
  <2>3. CASE v # u
    BY <1>1, <2>1, <2>3, Numbers DEF Retried, Alone, Whole, Wiped, Single, TypeOK, CallsOK,
       Called, Awaits, Locked, EditingOK, Edits, Writes, Visible
  <2> QED
    BY <2>2, <2>3
<1> QED
  BY <1>3, <1>4, <1>5, <1>6, <1>7, <1>8, <1>9, <1>10, <1>11

\* It deletes the old message, nothing having been told.
LEMMA DeferredErasedWrites ==
  ASSUME TypeOK, CallsOK, NEW u \in Updates, DeferredErased(u)
  PROVE  (Edits(old[u], Gone) /\ dpc'[u] = "send") \/ (shown' = shown /\ Fails /\ dpc'[u] = "mark")
<1> Gone \in Texts /\ Failed \in Texts
  BY DEF Texts
<1> QED
  BY EditWrites, TextExists, MessageExists DEF DeferredErased, DeferredAt, DeferredGo,
                                               Delete, Fails, TypeOK, Tasks

\* ... and keeps the invariant.
LEMMA DeferredErasedKeeps ==
  ASSUME Inv, NEW u \in Updates, DeferredErased(u)
  PROVE  Inv'
<1> USE DEF Inv, DeferredErased, DeferredAt, DeferredGo, Delete, Fails, Terminal,
            updating, reporter, background
<1>1. (Edits(old[u], Gone) /\ dpc'[u] = "send") \/ (shown' = shown /\ Fails /\ dpc'[u] = "mark")
  BY DeferredErasedWrites
<1>2. shown' \in Seq(Texts) /\ Texts' = Texts
  BY <1>1 DEF Edits, Texts, TypeOK
<1>3. TypeOK'
  <2>1. (dpc \in [Updates -> Tasks \cup {"none", "done"}])'
    BY DEF TypeOK, Locked, Awaits, Tasks
  <2>2. (shown \in Seq(0 .. count \cup {Gone, Failed}))'
    BY <1>2 DEF Texts
  <2>3. (old \in [Updates -> 0 .. Len(shown)])'
    BY <1>1 DEF TypeOK, Edits
  <2>4. (message \in DOMAIN shown)'
    BY <1>1 DEF TypeOK, Edits
  <2>5. (faults \in 0 .. MaxFaults)'
    BY ProgressAssumption DEF TypeOK
  <2> QED
    BY <2>1, <2>2, <2>3, <2>4, <2>5 DEF TypeOK
<1>4. CallsOK'
  BY DEF TypeOK, CallsOK, Called, Locked, Awaits, Tasks
<1>5. TextsOK'
  BY <1>1, TextsWritten, TextsStay, Numbers, ProgressAssumption DEF TypeOK, Untold,
                                                                    CallsOK, Called, Edits,
                                                                    Locked, Awaits, Tasks
<1>6. EarlierOK'
  BY DEF EarlierOK, CallsOK, Called, TypeOK
<1>7. AppliedOK'
  <2>1. \A v \in Updates : v # u /\ Visible(v)' => Visible(v)
    BY <1>1, OthersVisible, Zenon
  <2>2. \A v \in Updates : ~Terminal(v) /\ pc'[v] = "done" => v # u /\ pc[v] = "done"
    BY DEF TypeOK, CallsOK, Called
  <2> QED
    BY <2>1, <2>2 DEF AppliedOK
<1>8. EditingOK'
  BY <1>1, WritesVisible, Numbers DEF EditingOK, CallsOK, Called, TypeOK, Locked, Edits
<1>9. NewOK'
  BY <1>1, Numbers DEF NewOK, CallsOK, Called, TypeOK, Whole, Single, Edits, Writes
<1>10. TellOK'
  <2> SUFFICES ASSUME NEW v \in Updates, Alone(v)', (pc[v] # "dropped")'
      PROVE  Told(v)'
    BY DEF TellOK
  <2>1. Alone(v) /\ (pc[v] # "dropped" => Told(v))
    BY DEF Alone, TellOK, TypeOK, CallsOK, Called
  <2>2. CASE v = u
    BY <1>1, <2>1, <2>2, Numbers, ProgressAssumption DEF Alone, Told, Whole, Wiped, Single,
       TypeOK, CallsOK, Called, Awaits, Tasks, Locked, Edits, Writes, Visible
  <2>3. CASE v # u
    BY <1>1, <2>1, <2>3, Numbers DEF Told, Alone, Whole, Wiped, Single, TypeOK, CallsOK,
       Called, Awaits, Locked, EditingOK, Edits, Writes, Visible
  <2> QED
    BY <2>2, <2>3
<1>11. RetryOK'
  <2> SUFFICES ASSUME NEW v \in Updates, Alone(v)', (dpc[v] # "none")'
      PROVE  Retried(v)'
    BY DEF RetryOK
  <2>1. Alone(v) /\ (dpc[v] # "none" => Retried(v)) /\ Told(v)
    BY DEF Alone, RetryOK, TellOK, TypeOK, CallsOK, Called
  <2>2. CASE v = u
    BY <1>1, <2>1, <2>2, Numbers, ProgressAssumption DEF Alone, Told, Retried, Whole, Wiped,
       Single, TypeOK, CallsOK, Called, Awaits, Tasks, Locked, Edits, Writes, Visible
  <2>3. CASE v # u
    BY <1>1, <2>1, <2>3, Numbers DEF Retried, Alone, Whole, Wiped, Single, TypeOK, CallsOK,
       Called, Awaits, Locked, EditingOK, Edits, Writes, Visible
  <2> QED
    BY <2>2, <2>3
<1> QED
  BY <1>3, <1>4, <1>5, <1>6, <1>7, <1>8, <1>9, <1>10, <1>11

\* It marks the old message.
LEMMA DeferredMarkedWrites ==
  ASSUME TypeOK, CallsOK, NEW u \in Updates, DeferredMarked(u)
  PROVE  Edits(old[u], Failed) \/ shown' = shown
<1> Gone \in Texts /\ Failed \in Texts
  BY DEF Texts
<1> QED
  BY EditWrites, TextExists, MessageExists DEF DeferredMarked, DeferredAt, DeferredGo,
                                               Show, EditFailsOn, Fails, TypeOK, Tasks

\* ... and keeps the invariant.
LEMMA DeferredMarkedKeeps ==
  ASSUME Inv, NEW u \in Updates, DeferredMarked(u)
  PROVE  Inv'
<1> USE DEF Inv, DeferredMarked, DeferredAt, DeferredGo, Show, EditFailsOn, Fails,
            Terminal, updating, reporter, background
<1>1. Edits(old[u], Failed) \/ shown' = shown
  BY DeferredMarkedWrites
<1>2. shown' \in Seq(Texts) /\ Texts' = Texts
  BY <1>1 DEF Edits, Texts, TypeOK
<1>3. TypeOK'
  <2>1. (dpc \in [Updates -> Tasks \cup {"none", "done"}])'
    BY DEF TypeOK, Locked, Awaits, Tasks
  <2>2. (shown \in Seq(0 .. count \cup {Gone, Failed}))'
    BY <1>2 DEF Texts
  <2>3. (old \in [Updates -> 0 .. Len(shown)])'
    BY <1>1 DEF TypeOK, Edits
  <2>4. (message \in DOMAIN shown)'
    BY <1>1 DEF TypeOK, Edits
  <2>5. (faults \in 0 .. MaxFaults)'
    BY ProgressAssumption DEF TypeOK
  <2> QED
    BY <2>1, <2>2, <2>3, <2>4, <2>5 DEF TypeOK
<1>4. CallsOK'
  BY DEF TypeOK, CallsOK, Called, Locked, Awaits, Tasks
<1>5. TextsOK'
  BY <1>1, TextsWritten, TextsStay, Numbers, ProgressAssumption DEF TypeOK, Untold,
                                                                    CallsOK, Called, Edits,
                                                                    Locked, Awaits, Tasks
<1>6. EarlierOK'
  BY DEF EarlierOK, CallsOK, Called, TypeOK
<1>7. AppliedOK'
  <2>1. \A v \in Updates : v # u /\ Visible(v)' => Visible(v)
    BY <1>1, OthersVisible, Zenon
  <2>2. \A v \in Updates : ~Terminal(v) /\ pc'[v] = "done" => v # u /\ pc[v] = "done"
    BY DEF TypeOK, CallsOK, Called
  <2> QED
    BY <2>1, <2>2 DEF AppliedOK
<1>8. EditingOK'
  BY <1>1, WritesVisible, Numbers DEF EditingOK, CallsOK, Called, TypeOK, Locked, Edits
<1>9. NewOK'
  BY <1>1, Numbers DEF NewOK, CallsOK, Called, TypeOK, Whole, Single, Edits, Writes
<1>10. TellOK'
  <2> SUFFICES ASSUME NEW v \in Updates, Alone(v)', (pc[v] # "dropped")'
      PROVE  Told(v)'
    BY DEF TellOK
  <2>1. Alone(v) /\ (pc[v] # "dropped" => Told(v))
    BY DEF Alone, TellOK, TypeOK, CallsOK, Called
  <2>2. CASE v = u
    BY <1>1, <2>1, <2>2, Numbers, ProgressAssumption DEF Alone, Told, Whole, Wiped, Single,
       TypeOK, CallsOK, Called, Awaits, Tasks, Locked, Edits, Writes, Visible
  <2>3. CASE v # u
    BY <1>1, <2>1, <2>3, Numbers DEF Told, Alone, Whole, Wiped, Single, TypeOK, CallsOK,
       Called, Awaits, Locked, EditingOK, Edits, Writes, Visible
  <2> QED
    BY <2>2, <2>3
<1>11. RetryOK'
  <2> SUFFICES ASSUME NEW v \in Updates, Alone(v)', (dpc[v] # "none")'
      PROVE  Retried(v)'
    BY DEF RetryOK
  <2>1. Alone(v) /\ (dpc[v] # "none" => Retried(v)) /\ Told(v)
    BY DEF Alone, RetryOK, TellOK, TypeOK, CallsOK, Called
  <2>2. CASE v = u
    BY <1>1, <2>1, <2>2, Numbers, ProgressAssumption DEF Alone, Told, Retried, Whole, Wiped,
       Single, TypeOK, CallsOK, Called, Awaits, Tasks, Locked, Edits, Writes, Visible
  <2>3. CASE v # u
    BY <1>1, <2>1, <2>3, Numbers DEF Retried, Alone, Whole, Wiped, Single, TypeOK, CallsOK,
       Called, Awaits, Locked, EditingOK, Edits, Writes, Visible
  <2> QED
    BY <2>2, <2>3
<1> QED
  BY <1>3, <1>4, <1>5, <1>6, <1>7, <1>8, <1>9, <1>10, <1>11

\* It sends a plain message.
LEMMA DeferredSendsWrites ==
  ASSUME TypeOK, CallsOK, NEW u \in Updates, DeferredSends(u)
  PROVE  \/ Adds(u) /\ dpc'[u] = "done"
         \/ /\ shown' = shown /\ doomed' = doomed /\ delivered' = delivered /\ reached' = reached
            /\ Fails /\ dpc'[u] \in {"last", "done"}
<1> Gone \in Texts /\ Failed \in Texts
  BY DEF Texts
<1> QED
  BY SendWrites, TextExists, MessageExists DEF DeferredSends, DeferredAt, DeferredGo,
                                               Fails, MarkDelivered, TypeOK, Tasks

\* ... and keeps the invariant.
LEMMA DeferredSendsKeeps ==
  ASSUME Inv, NEW u \in Updates, DeferredSends(u)
  PROVE  Inv'
<1> USE DEF Inv, DeferredSends, DeferredAt, DeferredGo, Fails, MarkDelivered, Terminal,
            updating, reporter, background
<1>1. \/ Adds(u) /\ dpc'[u] = "done"
      \/ /\ shown' = shown /\ doomed' = doomed /\ delivered' = delivered /\ reached' = reached
         /\ Fails /\ dpc'[u] \in {"last", "done"}
  BY DeferredSendsWrites
<1>2. shown' \in Seq(Texts) /\ Texts' = Texts
  BY <1>1 DEF Adds, Texts, TypeOK
<1>3. TypeOK'
  <2>1. (dpc \in [Updates -> Tasks \cup {"none", "done"}])'
    BY DEF TypeOK, Locked, Awaits, Tasks
  <2>2. (reached \in BOOLEAN)'
    BY DEF TypeOK
  <2>3. (delivered \in BOOLEAN)'
    BY DEF TypeOK
  <2>4. (doomed \in [Updates -> BOOLEAN])'
    BY DEF TypeOK
  <2>5. (shown \in Seq(0 .. count \cup {Gone, Failed}))'
    BY <1>2 DEF Texts
  <2>6. (old \in [Updates -> 0 .. Len(shown)])'
    BY <1>1 DEF TypeOK, Adds
  <2>7. (message \in DOMAIN shown)'
    BY <1>1 DEF TypeOK, Adds
  <2>8. (faults \in 0 .. MaxFaults)'
    BY ProgressAssumption DEF TypeOK
  <2> QED
    BY <2>1, <2>2, <2>3, <2>4, <2>5, <2>6, <2>7, <2>8 DEF TypeOK
<1>4. CallsOK'
  <2>1. Called(u)'
    <3>1. Called(u) /\ Terminal(u) /\ dpc[u] # "none" /\ dpc'[u] \in {"last", "done"}
      BY DEF CallsOK, Called, TypeOK
    <3>2. reached => reached'
      BY <1>1
    <3> QED
      BY <3>1, <3>2 DEF Called
  <2>2. ASSUME NEW v \in Updates, v # u
        PROVE  Called(v)'
    <3>1. doomed'[v] => doomed[v] \/ dpc[v] # "none"
      BY <2>2 DEF TypeOK, Tasks
    <3>2. /\ pc'[v] = pc[v] /\ dpc'[v] = dpc[v] /\ old'[v] = old[v]
          /\ kind' = kind /\ count' = count
          /\ reached => reached'
      BY <2>2 DEF TypeOK
    <3> QED
      BY <3>1, <3>2 DEF CallsOK, Called
  <2> QED
    BY <2>1, <2>2 DEF CallsOK
<1>5. TextsOK'
  BY <1>1, TextsWritten, TextsStay, Numbers, ProgressAssumption DEF TypeOK, Untold,
                                                                    CallsOK, Called, Adds,
                                                                    Locked, Awaits, Tasks
<1>6. EarlierOK'
  BY DEF EarlierOK, CallsOK, Called, TypeOK
<1>7. AppliedOK'
  <2>1. \A v \in Updates : v # u /\ Visible(v)' => Visible(v)
    BY <1>1, OthersVisible, Zenon
  <2>2. \A v \in Updates : ~Terminal(v) /\ pc'[v] = "done" => v # u /\ pc[v] = "done"
    BY DEF TypeOK, CallsOK, Called
  <2> QED
    BY <2>1, <2>2 DEF AppliedOK
<1>8. EditingOK'
  BY <1>1, WritesVisible, Numbers DEF EditingOK, CallsOK, Called, TypeOK, Locked, Adds
<1>9. NewOK'
  BY <1>1, Numbers DEF NewOK, CallsOK, Called, TypeOK, Whole, Single, Adds, Writes
<1>10. TellOK'
  <2> SUFFICES ASSUME NEW v \in Updates, Alone(v)', (pc[v] # "dropped")'
      PROVE  Told(v)'
    BY DEF TellOK
  <2>1. Alone(v) /\ (pc[v] # "dropped" => Told(v))
    BY DEF Alone, TellOK, TypeOK, CallsOK, Called
  <2>2. CASE v = u
    BY <1>1, <2>1, <2>2, Numbers, ProgressAssumption DEF Alone, Told, Whole, Wiped, Single,
       TypeOK, CallsOK, Called, Awaits, Tasks, Locked, Adds, Writes, Visible
  <2>3. CASE v # u
    BY <1>1, <2>1, <2>3, Numbers DEF Told, Alone, Whole, Wiped, Single, TypeOK, CallsOK,
       Called, Awaits, Locked, EditingOK, Adds, Writes, Visible
  <2> QED
    BY <2>2, <2>3
<1>11. RetryOK'
  <2> SUFFICES ASSUME NEW v \in Updates, Alone(v)', (dpc[v] # "none")'
      PROVE  Retried(v)'
    BY DEF RetryOK
  <2>1. Alone(v) /\ (dpc[v] # "none" => Retried(v)) /\ Told(v)
    BY DEF Alone, RetryOK, TellOK, TypeOK, CallsOK, Called
  <2>2. CASE v = u
    <3>1. Terminal(u) /\ dpc[u] \in {"send", "last"} /\ Retried(u)
      BY <2>1, <2>2 DEF Alone
    <3>2. CASE Adds(u) /\ dpc'[u] = "done"
      <4>1. Visible(u)'
        BY <3>2, WritesVisible DEF Adds
      <4>2. ~doomed'[u] /\ old'[u] = 1
        BY <3>1 DEF Retried
      <4> QED
        BY <2>2, <3>2, <4>1, <4>2 DEF Retried
    <3>3. CASE Fails /\ dpc'[u] \in {"last", "done"} /\ doomed' = doomed
      <4>1. ~doomed'[u] /\ old'[u] = 1 /\ (faults < 4 => faults >= 3)
        BY <3>1, <3>3 DEF Retried
      <4>2. ~(faults' < 4)
        BY <3>3, <4>1 DEF Fails, TypeOK
      <4> QED
        BY <2>2, <3>3, <4>1, <4>2 DEF Retried
    <3> QED
      BY <1>1, <3>2, <3>3
  <2>3. CASE v # u
    BY <1>1, <2>1, <2>3, Numbers DEF Retried, Alone, Whole, Wiped, Single, TypeOK, CallsOK,
       Called, Awaits, Locked, EditingOK, Adds, Writes, Visible
  <2> QED
    BY <2>2, <2>3
<1> QED
  BY <1>3, <1>4, <1>5, <1>6, <1>7, <1>8, <1>9, <1>10, <1>11

\* It is cancelled.
LEMMA DeferredUnwindsWrites ==
  ASSUME TypeOK, CallsOK, NEW u \in Updates, DeferredUnwinds(u)
  PROVE  \/ shown' = shown
         \/ dpc[u] = "edit" /\ Edits(old[u], u)
         \/ dpc[u] \in {"respond", "send", "last"} /\ Adds(u)
         \/ dpc[u] \in {"delete", "erase"} /\ Edits(old[u], Gone)
         \/ dpc[u] = "mark" /\ Edits(old[u], Failed)
<1> Gone \in Texts /\ Failed \in Texts
  BY DEF Texts
<1> QED
  BY EditWrites, SendWrites, TextExists, MessageExists DEF DeferredUnwinds, DeferredAt,
                                                           DeferredGo, Show, Delete,
                                                           TypeOK, Tasks

\* ... and keeps the invariant.
LEMMA DeferredUnwindsKeeps ==
  ASSUME Inv, NEW u \in Updates, DeferredUnwinds(u)
  PROVE  Inv'
<1> USE DEF Inv, DeferredUnwinds, DeferredAt, DeferredGo, Show, Delete, Terminal,
            updating, reporter, background
<1>1. \/ shown' = shown
      \/ dpc[u] = "edit" /\ Edits(old[u], u)
      \/ dpc[u] \in {"respond", "send", "last"} /\ Adds(u)
      \/ dpc[u] \in {"delete", "erase"} /\ Edits(old[u], Gone)
      \/ dpc[u] = "mark" /\ Edits(old[u], Failed)
  BY DeferredUnwindsWrites
<1>2. shown' \in Seq(Texts) /\ Texts' = Texts
  BY <1>1 DEF Edits, Adds, Texts, TypeOK
<1>3. TypeOK'
  <2>1. (dpc \in [Updates -> Tasks \cup {"none", "done"}])'
    BY DEF TypeOK, Locked, Awaits, Tasks
  <2>2. (shown \in Seq(0 .. count \cup {Gone, Failed}))'
    BY <1>2 DEF Texts
  <2>3. (old \in [Updates -> 0 .. Len(shown)])'
    BY <1>1 DEF TypeOK, Edits, Adds
  <2>4. (message \in DOMAIN shown)'
    BY <1>1 DEF TypeOK, Edits, Adds
  <2> QED
    BY <2>1, <2>2, <2>3, <2>4 DEF TypeOK
<1>4. CallsOK'
  BY DEF TypeOK, CallsOK, Called, Locked, Awaits, Tasks
<1>5. TextsOK'
  BY <1>1, TextsWritten, TextsStay, Numbers, ProgressAssumption DEF TypeOK, Untold,
                                                                    CallsOK, Called, Edits, Adds,
                                                                    Locked, Awaits, Tasks
<1>6. EarlierOK'
  BY DEF EarlierOK, CallsOK, Called, TypeOK
<1>7. AppliedOK'
  <2>1. \A v \in Updates : v # u /\ Visible(v)' => Visible(v)
    BY <1>1, OthersVisible, Zenon
  <2>2. \A v \in Updates : ~Terminal(v) /\ pc'[v] = "done" => v # u /\ pc[v] = "done"
    BY DEF TypeOK, CallsOK, Called
  <2> QED
    BY <2>1, <2>2 DEF AppliedOK
<1>8. EditingOK'
  <2>1. Terminal(u) /\ pc[u] = "done"
    BY DEF CallsOK, Called, Tasks
  <2>2. \A w \in Updates : ~Terminal(w) => pc[w] \notin {"edit", "plain"}
    BY <2>1 DEF EditingOK
  <2> QED
    BY <2>2 DEF EditingOK
<1>9. NewOK'
  BY <1>1, Numbers DEF NewOK, CallsOK, Called, TypeOK, Whole, Single, Edits, Adds, Writes
<1>10. TellOK'
  <2>1. \A v \in Updates : ~Alone(v)
    BY DEF Alone, RetryOK, Retried, CallsOK, Called, Tasks
  <2>2. kind' = kind
    OBVIOUS
  <2> QED
    BY <2>1, <2>2 DEF TellOK, Alone
<1>11. RetryOK'
  <2>1. \A v \in Updates : ~Alone(v)
    BY DEF Alone, RetryOK, Retried, CallsOK, Called, Tasks
  <2>2. kind' = kind
    OBVIOUS
  <2> QED
    BY <2>1, <2>2 DEF RetryOK, Alone
<1> QED
  BY <1>3, <1>4, <1>5, <1>6, <1>7, <1>8, <1>9, <1>10, <1>11
-----------------------------------------------------------------------------
\* Every step keeps the invariant.
LEMMA NextKeeps ==
  ASSUME Inv, [Next]_vars
  PROVE  Inv'
<1>1. CASE UNCHANGED vars
  BY <1>1 DEF vars, updating, reporter, background, Inv, TypeOK, CallsOK, Called, TextsOK,
     Untold,
     Visible, EarlierOK, AppliedOK, EditingOK, NewOK, Whole, Wiped, Single, TellOK, Told, Alone,
     RetryOK, Retried, Terminal
<1>2. ASSUME NEW u \in Updates, Call(u) \/ Advance(u) \/ Cancel(u)
      PROVE  Inv'
  BY <1>2, CallKeeps, AcquireKeeps, EditedKeeps, RejectedKeeps, EditFailsKeeps, FloodedKeeps,
     WakeKeeps, RespondedKeeps, RespondFailsKeeps, DeletedKeeps, ErasedKeeps, EraseFailsKeeps,
     CancelKeeps DEF Advance
<1>3. ASSUME NEW u \in Updates, Retry(u)
      PROVE  Inv'
  BY <1>3, DeferredWakesKeeps, DeferredEditedKeeps, DeferredEditFailsKeeps,
     DeferredRespondedKeeps, DeferredRespondFailsKeeps, DeferredDeletedKeeps,
     DeferredErasedKeeps, DeferredMarkedKeeps, DeferredSendsKeeps, DeferredUnwindsKeeps
     DEF Retry
<1> QED
  BY <1>1, <1>2, <1>3 DEF Next, AtRest

-----------------------------------------------------------------------------
\* What a step writes: a terminal text, no text, or a progress text with the lock.
LEMMA StepWrites ==
  ASSUME Inv, [Next]_vars
  PROVE  \/ shown' = shown
         \/ \E x : Adds(x)
         \/ \E m, x : /\ Edits(m, x)
                      /\ x \in Updates => Terminal(x) \/ pc[x] \in {"edit", "plain"}
<1> USE DEF Inv
<1>1. Gone \notin Updates /\ Failed \notin Updates
  BY Numbers, ProgressAssumption
<1>2. \A u \in Updates : dpc[u] # "none" => Terminal(u)
  BY DEF CallsOK, Called
<1>3. CASE UNCHANGED vars
  BY <1>3 DEF vars
<1>4. ASSUME NEW u \in Updates,
             \/ Call(u) \/ Acquire(u) \/ Rejected(u) \/ EditFails(u) \/ Flooded(u) \/ Wake(u)
             \/ RespondFails(u) \/ EraseFails(u) \/ DeferredWakes(u) \/ DeferredEditFails(u)
             \/ DeferredRespondFails(u)
      PROVE  shown' = shown
  BY <1>4 DEF Call, Acquire, Rejected, EditFails, Flooded, Wake, RespondFails, EraseFails,
     DeferredWakes, DeferredEditFails, DeferredRespondFails
<1>5. ASSUME NEW u \in Updates, Edited(u)
      PROVE  Edits(message, u) /\ pc[u] \in {"edit", "plain"}
  BY <1>5, EditedWrites DEF Edited
<1>6. ASSUME NEW u \in Updates, Responded(u) \/ DeferredResponded(u)
      PROVE  Adds(u)
  BY <1>6, RespondedWrites, DeferredRespondedWrites
<1>7. ASSUME NEW u \in Updates, Deleted(u) \/ Erased(u) \/ DeferredDeleted(u) \/ DeferredErased(u)
      PROVE  Edits(old[u], Gone) \/ shown' = shown
  BY <1>7, DeletedWrites, ErasedWrites, DeferredDeletedWrites, DeferredErasedWrites
<1>8. ASSUME NEW u \in Updates, DeferredEdited(u)
      PROVE  Edits(old[u], u) /\ Terminal(u)
  BY <1>2, <1>8, DeferredEditedWrites DEF DeferredEdited, DeferredAt
<1>9. ASSUME NEW u \in Updates, DeferredMarked(u) \/ DeferredSends(u)
      PROVE  Edits(old[u], Failed) \/ Adds(u) \/ shown' = shown
  BY <1>9, DeferredMarkedWrites, DeferredSendsWrites
<1>10. CASE \E u \in Updates : Cancel(u)
  BY <1>1, <1>10, CancelWrites
<1>11. CASE \E u \in Updates : DeferredUnwinds(u)
  BY <1>1, <1>2, <1>11, DeferredUnwindsWrites
<1> QED
  BY <1>1, <1>3, <1>4, <1>5, <1>6, <1>7, <1>8, <1>9, <1>10, <1>11
     DEF Next, AtRest, Advance, Retry

-----------------------------------------------------------------------------
\* The results.

\* The inductive invariant: who can be where, what is out, and what a terminal
\* text has met with (MessageProgressReporter.update, _deferred_terminal_retry).
THEOREM Invariance == Spec => []Inv
<1>1. Init => Inv
  BY InitInv
<1>2. Inv /\ [Next]_vars => Inv'
  BY NextKeeps
<1> QED
  BY <1>1, <1>2, PTL DEF Spec

\* The types of the state; and the lock has one holder, who is at an await that
\* needs it (the async with blocks of update).
THEOREM TypeCorrect == Spec => []TypeOK
<1>1. Inv => TypeOK
  BY DEF Inv
<1> QED
  BY <1>1, Invariance, PTL

\* No terminal text is in the chat twice (update, _deferred_terminal_retry).
THEOREM NeverToldTwice == Spec => []ToldOnce
<1>1. Inv => ToldOnce
  <2> SUFFICES ASSUME Inv, NEW u \in Updates
      PROVE  Cardinality({m \in DOMAIN shown : shown[m] = u}) <= 1
    BY DEF ToldOnce
  <2> DEFINE M == {m \in DOMAIN shown : shown[m] = u}
  <2>1. \A m, n \in M : m = n
    BY DEF Inv, TextsOK
  <2>2. CASE M = {}
    BY <2>2, FS_EmptySet
  <2>3. CASE M # {}
    <3>1. PICK m \in M : TRUE
      BY <2>3
    <3>2. M = {m}
      BY <2>1, <3>1
    <3>3. Cardinality(M) = 1
      BY <3>2, FS_Singleton, Zenon
    <3> QED
      BY <3>3
  <2> QED
    BY <2>2, <2>3
<1> QED
  BY <1>1, Invariance, PTL

\* A message never goes back: from a terminal text to progress, or to older progress
\* (the sequence numbers and the checks around the lock in update).
THEOREM OnlyForwards == Spec => NeverBackwards
<1>1. ASSUME Inv, [Next]_vars, NEW m \in DOMAIN shown, shown[m] \in Updates,
             shown'[m] \in Updates, shown'[m] # shown[m],
             Terminal(shown[m]) \/ pc[shown[m]] = "done"
      PROVE  \/ Terminal(shown'[m])
             \/ ~Terminal(shown[m]) /\ shown[m] < shown'[m]
  <2> DEFINE w == shown[m]
             x == shown'[m]
  <2>1. CASE \E k, y : /\ Edits(k, y)
                       /\ y \in Updates => Terminal(y) \/ pc[y] \in {"edit", "plain"}
    <3>1. x \in Updates => Terminal(x) \/ pc[x] \in {"edit", "plain"}
      BY <1>1, <2>1 DEF Edits, Writes
    <3>2. Visible(w)
      BY DEF Visible
    <3> SUFFICES ASSUME ~Terminal(x)
        PROVE  ~Terminal(w) /\ w < x
      OBVIOUS
    <3>3. applied <= x /\ ~Terminal(w)
      BY <1>1, <3>1, <3>2 DEF Inv, EditingOK
    <3>4. w <= applied
      BY <1>1, <3>2, <3>3 DEF Inv, AppliedOK
    <3>5. w \in Nat /\ x \in Nat /\ applied \in Nat /\ w # x
      BY <1>1, Numbers DEF Inv, TypeOK
    <3> HIDE DEF w, x
    <3> QED
      BY <3>3, <3>4, <3>5
  <2>2. CASE shown' = shown \/ \E y : Adds(y)
    BY <1>1, <2>2 DEF Adds, Writes
  <2> QED
    BY <1>1, <2>1, <2>2, StepWrites
<1>2. Inv /\ [Next]_vars =>
        [\A m \in DOMAIN shown :
           /\ shown[m] \in Updates /\ shown'[m] \in Updates
           /\ shown'[m] # shown[m]
           /\ Terminal(shown[m]) \/ pc[shown[m]] = "done"
           => \/ Terminal(shown'[m])
              \/ ~Terminal(shown[m]) /\ shown[m] < shown'[m]]_shown
  BY <1>1
<1> QED
  BY <1>2, Invariance, PTL DEF Spec, NeverBackwards

\* When everything has come to rest, the verdict is in the chat or nothing looks
\* like a running download, after as many as three failed calls (the fallbacks of
\* update and of _deferred_terminal_retry).
THEOREM FalseProgressEnds == Spec => []NoFalseProgress
<1>1. Inv => NoFalseProgress
  <2> SUFFICES ASSUME Inv, Quiet, faults <= 3, NEW u \in Updates, Verdict(u), ~Visible(u),
                      NEW m \in DOMAIN shown
      PROVE  ~LooksRunning(m)
    BY DEF NoFalseProgress
  <2>1. Alone(u) /\ pc[u] = "done" /\ Told(u) /\ (dpc[u] # "none" => Retried(u))
    BY DEF Verdict, Alone, Inv, TellOK, RetryOK
  <2>2. faults < 4 /\ dpc[u] \in {"none", "done"}
    BY DEF Quiet, Inv, TypeOK
  <2>3. Wiped
    BY <2>1, <2>2 DEF Told, Retried
  <2>4. m = 1
    BY <2>3 DEF Wiped, Single, Inv, TypeOK
  <2>5. Gone \notin Updates /\ Gone # 0
    BY Numbers, ProgressAssumption
  <2> QED
    BY <2>3, <2>4, <2>5 DEF LooksRunning, Wiped
<1> QED
  BY <1>1, Invariance, PTL

\* Neither the edit nor the new message works, and the failure is told all the
\* same (_deferred_terminal_retry).
THEOREM FailureTold == Spec => []FailureSurvivesTwoFaults
<1>1. Inv => FailureSurvivesTwoFaults
  <2> SUFFICES ASSUME Inv, Quiet, faults <= 2, NEW u \in Updates, Verdict(u),
                      kind[u] = "failure"
      PROVE  Visible(u)
    BY DEF FailureSurvivesTwoFaults
  <2>1. Alone(u) /\ pc[u] = "done" /\ Told(u) /\ (dpc[u] # "none" => Retried(u))
    BY DEF Verdict, Alone, Inv, TellOK, RetryOK
  <2>2. faults < 4 /\ ~(faults >= 3) /\ dpc[u] \in {"none", "done"}
    BY DEF Quiet, Inv, TypeOK
  <2> QED
    BY <2>1, <2>2 DEF Told, Retried
<1> QED
  BY <1>1, Invariance, PTL

=============================================================================
