--------------------------- MODULE RequestsProofs ---------------------------
(***************************************************************************)
(* The safety of Requests for any number of handlers and messages.         *)
(*                                                                         *)
(* The invariant falls into parts that look at different variables:        *)
(*   where the handlers are     pc, at, home, target                       *)
(*   the registry               pc, home, registry, crossed                *)
(*   who works on what          pc, at, offer, shown, confirm, retry       *)
(*   the retry store            retry, key, byMsg                          *)
(*   the buttons                shown, button                              *)
(* and a lemma for each says which changes of its variables keep it.  The  *)
(* lemma of an action then names the change the action is.                 *)
(***************************************************************************)
EXTENDS Requests, TLAPS

-----------------------------------------------------------------------------
\* The run of the handler has not ended.
Before == {"idle", "offering", "starting", "queued", "running"}

\* Where a handler's texts go, and where its run is registered.
AtInv ==
  \A j \in Handlers :
    /\ pc[j] \in {"idle", "offering", "starting"} => home[j] = None
    /\ pc[j] \in {"offering", "starting", "queued", "running"} => at[j] \in Messages
    /\ pc[j] \in Tasks \cup {"queued", "unwinding"} => home[j] \in Messages
    /\ pc[j] = "toasting" => target[j] \in Handlers

\* Two runs in flight on one message have met.
ApartInv ==
  \A i, k \in Handlers :
    InFlight(i) /\ InFlight(k) /\ home[i] = home[k] /\ i # k => i \in crossed /\ k \in crossed

RegistryInv == RegistryIsLive /\ CancelFindsTheRun /\ ApartInv

\* A confirmation is offered once, and a retry context is free or in one run.
OfferInv ==
  /\ \A m \in Messages : confirm[m] => shown[m] # "nothing"
  /\ \A k \in Handlers :
       /\ pc[k] \in {"idle", "offering", "toasting"} => offer[k] = None
       /\ offer[k] \in Messages => ~confirm[offer[k]] /\ shown[offer[k]] # "nothing"
       /\ offer[k] \in Handlers => retry[offer[k]] # "none"
       /\ offer[k] \in Handlers /\ Working(k) => retry[offer[k]] # "idle"
       /\ pc[k] \in Before => retry[k] = "none"

\* The question of a live window is out and not yet stored.
QuestionInv ==
  \A k \in Handlers : pc[k] = "offering" =>
    /\ shown[at[k]] # "nothing" /\ ~confirm[at[k]]
    /\ \A i \in Handlers : offer[i] # at[k] /\ (pc[i] = "offering" /\ at[i] = at[k] => i = k)

WorkInv == OfferInv /\ QuestionInv /\ OneRunPerOffer /\ RunningIsRun

Over == {"spent", "lapsed", "refused"}

\* A context has a message, and one that another has replaced leaves a live one or one
\* that came to its end.
KeyInv ==
  \A i \in Handlers :
    /\ retry[i] = "none" => key[i] = None
    /\ retry[i] # "none" => key[i] \in Messages
    /\ retry[i] = "dropped" =>
         byMsg[key[i]] # {} \/ \E h \in Handlers : key[h] = key[i] /\ retry[h] \in Over

StoreInv == IndexesAgree /\ KeyInv

ButtonInv == \A m \in Messages : shown[m] = "retry" => button[m] \in Handlers

\* The inductive invariant.
IInv ==
  /\ TypeOK /\ AtInv /\ RegistryInv /\ WorkInv /\ StoreInv /\ ButtonInv

-----------------------------------------------------------------------------
\* The registry.

\* A handler stays where it is or moves on without coming to or leaving a task.
RegistryStays(k) ==
  \/ /\ home'[k] = home[k]
     /\ pc[k] \in Tasks \cup {"unwinding"} <=> pc'[k] \in Tasks \cup {"unwinding"}
     /\ pc'[k] \in Tasks => pc[k] \in Tasks
  \/ /\ home[k] = None
     /\ pc[k] \notin Tasks \cup {"unwinding"}
     /\ pc'[k] \notin Tasks \cup {"unwinding"}

LEMMA RegistryKept ==
  ASSUME TypeOK, RegistryInv, AtInv, registry' = registry, crossed' = crossed,
         \A k \in Handlers : RegistryStays(k)
  PROVE  RegistryInv'
<1>1. RegistryIsLive'
  <2> SUFFICES ASSUME NEW m \in Messages, NEW k \in registry[m]
      PROVE  pc'[k] \in Tasks \cup {"unwinding"} /\ home'[k] = m
    BY DEF RegistryIsLive
  <2>1. k \in Handlers
    BY DEF TypeOK, AtMostOne
  <2>2. pc[k] \in Tasks \cup {"unwinding"} /\ home[k] = m
    BY DEF RegistryInv, RegistryIsLive
  <2> QED
    BY <2>1, <2>2 DEF RegistryStays
<1>2. ASSUME NEW j \in Handlers, pc'[j] \in Tasks, j \notin crossed
      PROVE  registry'[home'[j]] = {j}
  <2>1. pc[j] \in Tasks /\ home'[j] = home[j]
    BY <1>2 DEF RegistryStays
  <2> QED
    BY <1>2, <2>1 DEF RegistryInv, CancelFindsTheRun
<1>3. ApartInv'
  BY DEF RegistryInv, ApartInv, InFlight, RegistryStays
<1> QED
  BY <1>1, <1>2, <1>3 DEF RegistryInv, CancelFindsTheRun

\* The entry of a run goes with the run.
LEMMA RegistryEnds ==
  ASSUME TypeOK, RegistryInv, AtInv, NEW j \in Handlers, Unregister(j),
         pc[j] \in Tasks \cup {"unwinding"}, home' = home,
         pc'[j] \notin Tasks \cup {"unwinding"}, \A k \in Handlers \ {j} : pc'[k] = pc[k]
  PROVE  RegistryInv'
<1>1. home[j] \in Messages
  BY DEF AtInv
<1>2. /\ registry' = [m \in Messages |-> IF m = home[j] THEN {} ELSE registry[m]]
      /\ crossed' = crossed
  BY <1>1 DEF TypeOK, Unregister
<1>3. RegistryIsLive'
  <2> SUFFICES ASSUME NEW m \in Messages, NEW k \in registry'[m]
      PROVE  pc'[k] \in Tasks \cup {"unwinding"} /\ home'[k] = m
    BY DEF RegistryIsLive
  <2>1. m # home[j] /\ k \in registry[m]
    BY <1>2
  <2>2. k \in Handlers /\ k # j
    BY <2>1 DEF TypeOK, AtMostOne, RegistryInv, RegistryIsLive
  <2>3. pc[k] \in Tasks \cup {"unwinding"} /\ home[k] = m
    BY <2>1 DEF RegistryInv, RegistryIsLive
  <2> QED
    BY <2>2, <2>3
<1>4. ASSUME NEW i \in Handlers, pc'[i] \in Tasks, i \notin crossed
      PROVE  registry'[home'[i]] = {i}
  <2>1. i # j /\ pc[i] \in Tasks
    BY <1>4
  <2>2. home[i] \in Messages /\ home[i] # home[j]
    BY <1>4, <2>1 DEF AtInv, RegistryInv, ApartInv, InFlight
  <2>3. registry[home[i]] = {i}
    BY <1>4, <2>1 DEF RegistryInv, CancelFindsTheRun
  <2> QED
    BY <1>2, <2>2, <2>3
<1>5. ApartInv'
  BY <1>2 DEF RegistryInv, ApartInv, InFlight
<1> QED
  BY <1>2, <1>3, <1>4, <1>5 DEF RegistryInv, CancelFindsTheRun

-----------------------------------------------------------------------------
\* The retry store.

StoreType ==
  /\ retry \in [Handlers -> Live \cup {"none", "spent", "refused", "lapsed", "dropped"}]
  /\ key \in [Handlers -> Messages \cup {None}]
  /\ byMsg \in [Messages -> AtMostOne(Handlers)]

\* No context comes back, and only that of j is new.
StoreMoves(j) ==
  \A k \in Handlers :
    \/ retry'[k] = retry[k]
    \/ retry[k] \in Live /\ retry'[k] \notin Live \cup {"none"}
    \/ k = j /\ retry[k] = "none" /\ retry'[k] = "idle"

LEMMA StoreStays ==
  ASSUME TypeOK, StoreInv, NEW j, UNCHANGED store
  PROVE  StoreType' /\ StoreInv' /\ StoreMoves(j)
BY DEF TypeOK, StoreType, StoreInv, IndexesAgree, KeyInv, StoreMoves, store

LEMMA StorePut ==
  ASSUME TypeOK, StoreInv, NEW j \in Handlers, NEW m \in Messages,
         retry[j] = "none", Put(j, m)
  PROVE  StoreType' /\ StoreInv' /\ StoreMoves(j)
<1>1. retry' = [i \in Handlers |-> IF i = j THEN "idle"
                                   ELSE IF i \in byMsg[m] THEN "dropped" ELSE retry[i]]
  BY DEF Put
<1>2. key' = [i \in Handlers |-> IF i = j THEN m ELSE key[i]]
  BY DEF Put, TypeOK
<1>3. byMsg' = [n \in Messages |-> IF n = m THEN {j} ELSE byMsg[n]]
  BY DEF Put, TypeOK
<1>4. \A n \in Messages : j \notin byMsg[n]
  BY DEF StoreInv, IndexesAgree, Live
<1>5. \A i \in byMsg[m] : i \in Handlers /\ retry[i] \in Live /\ key[i] = m
  BY DEF StoreInv, IndexesAgree, TypeOK, AtMostOne
<1>6. StoreType'
  <2>1. retry' \in [Handlers -> Live \cup {"none", "spent", "refused", "lapsed", "dropped"}]
    BY <1>1 DEF TypeOK, Live
  <2>2. key' \in [Handlers -> Messages \cup {None}]
    BY <1>2 DEF TypeOK
  <2>3. byMsg' \in [Messages -> AtMostOne(Handlers)]
    BY <1>3 DEF TypeOK, AtMostOne
  <2> QED
    BY <2>1, <2>2, <2>3 DEF StoreType
<1>7. IndexesAgree'
  <2>1. ASSUME NEW n \in Messages, NEW i \in byMsg'[n]
        PROVE  retry'[i] \in Live /\ key'[i] = n
    <3>1. CASE n = m
      BY <2>1, <3>1, <1>1, <1>2, <1>3 DEF Live
    <3>2. CASE n # m
      <4>1. i \in byMsg[n] /\ i # j
        BY <2>1, <3>2, <1>3, <1>4
      <4>2. i \in Handlers
        BY <4>1 DEF TypeOK, AtMostOne
      <4>3. retry[i] \in Live /\ key[i] = n
        BY <4>1 DEF StoreInv, IndexesAgree
      <4> QED
        BY <1>1, <1>2, <1>5, <3>2, <4>1, <4>2, <4>3
    <3> QED
      BY <3>1, <3>2
  <2>2. ASSUME NEW i \in Handlers, retry'[i] \in Live
        PROVE  byMsg'[key'[i]] = {i}
    <3>1. CASE i = j
      BY <3>1, <1>2, <1>3
    <3>2. CASE i # j
      <4>1. i \notin byMsg[m] /\ retry[i] \in Live
        BY <2>2, <3>2, <1>1 DEF Live
      <4>2. byMsg[key[i]] = {i} /\ key[i] \in Messages
        BY <4>1 DEF StoreInv, IndexesAgree, KeyInv, Live
      <4>3. key[i] # m
        BY <4>1, <4>2
      <4> QED
        BY <1>2, <1>3, <3>2, <4>2, <4>3
    <3> QED
      BY <3>1, <3>2
  <2> QED
    BY <2>1, <2>2 DEF IndexesAgree
<1>8. KeyInv'
  <2> SUFFICES ASSUME NEW i \in Handlers
      PROVE  /\ retry'[i] = "none" => key'[i] = None
             /\ retry'[i] # "none" => key'[i] \in Messages
             /\ retry'[i] = "dropped" =>
                  \/ byMsg'[key'[i]] # {}
                  \/ \E h \in Handlers : key'[h] = key'[i] /\ retry'[h] \in Over
    BY DEF KeyInv
  <2>1. CASE i = j
    BY <2>1, <1>1, <1>2
  <2>2. CASE i # j /\ i \in byMsg[m]
    BY <2>2, <1>1, <1>2, <1>3, <1>5
  <2>3. CASE i # j /\ i \notin byMsg[m]
    <3>1. retry'[i] = retry[i] /\ key'[i] = key[i]
      BY <2>3, <1>1, <1>2
    <3>2. /\ retry[i] = "none" => key[i] = None
          /\ retry[i] # "none" => key[i] \in Messages
      BY DEF StoreInv, KeyInv
    <3>3. ASSUME retry[i] = "dropped"
          PROVE  \/ byMsg'[key[i]] # {}
                 \/ \E h \in Handlers : key'[h] = key[i] /\ retry'[h] \in Over
      <4>1. CASE byMsg[key[i]] # {}
        BY <4>1, <3>2, <3>3, <1>3
      <4>2. CASE \E h \in Handlers : key[h] = key[i] /\ retry[h] \in Over
        <5> PICK h \in Handlers : key[h] = key[i] /\ retry[h] \in Over
          BY <4>2
        <5>1. h # j /\ h \notin byMsg[m]
          BY <1>5 DEF Over, Live
        <5> QED
          BY <5>1, <1>1, <1>2
      <4> QED
        BY <4>1, <4>2, <3>3 DEF StoreInv, KeyInv
    <3> QED
      BY <3>1, <3>2, <3>3
  <2> QED
    BY <2>1, <2>2, <2>3
<1>9. StoreMoves(j)
  BY <1>1, <1>5 DEF StoreMoves, Live
<1> QED
  BY <1>6, <1>7, <1>8, <1>9 DEF StoreInv

LEMMA StoreForget ==
  ASSUME TypeOK, StoreInv, NEW j, NEW i \in Handlers, NEW why \in {"spent", "lapsed"},
         Forget(i, why)
  PROVE  StoreType' /\ StoreInv' /\ StoreMoves(j) /\ retry'[i] \notin Live
<1>1. CASE retry[i] \notin Live
  <2>1. retry' = retry /\ byMsg' = byMsg /\ key' = key
    BY <1>1 DEF Forget, TypeOK
  <2> QED
    BY <1>1, <2>1, StoreStays DEF store
<1>2. CASE retry[i] \in Live
  <2>1. retry' = [k \in Handlers |-> IF k = i THEN why ELSE retry[k]]
    BY <1>2 DEF Forget, TypeOK
  <2>2. key' = key
    BY DEF Forget
  <2>3. key[i] \in Messages /\ byMsg[key[i]] = {i}
    BY <1>2 DEF StoreInv, IndexesAgree, KeyInv, Live
  <2>4. byMsg' = [m \in Messages |-> IF m = key[i] THEN {} ELSE byMsg[m]]
    <3>1. byMsg' = [m \in Messages |-> IF m = key[i] THEN byMsg[m] \ {i} ELSE byMsg[m]]
      BY <1>2 DEF Forget
    <3>2. byMsg[key[i]] \ {i} = {}
      BY <2>3
    <3> QED
      BY <3>1, <3>2
  <2>5. StoreType'
    <3>1. retry' \in [Handlers -> Live \cup {"none", "spent", "refused", "lapsed", "dropped"}]
      BY <2>1 DEF TypeOK, Live
    <3>2. byMsg' \in [Messages -> AtMostOne(Handlers)]
      BY <2>4 DEF TypeOK, AtMostOne
    <3> QED
      BY <3>1, <3>2, <2>2 DEF StoreType, TypeOK
  <2>6. IndexesAgree'
    <3>1. ASSUME NEW n \in Messages, NEW k \in byMsg'[n]
          PROVE  retry'[k] \in Live /\ key'[k] = n
      <4>1. n # key[i] /\ k \in byMsg[n]
        BY <3>1, <2>4
      <4>2. k \in Handlers /\ retry[k] \in Live /\ key[k] = n
        BY <4>1 DEF StoreInv, IndexesAgree, TypeOK, AtMostOne
      <4> QED
        BY <4>1, <4>2, <2>1, <2>2
    <3>2. ASSUME NEW k \in Handlers, retry'[k] \in Live
          PROVE  byMsg'[key'[k]] = {k}
      <4>1. k # i /\ retry[k] \in Live
        BY <3>2, <2>1 DEF Live
      <4>2. byMsg[key[k]] = {k} /\ key[k] \in Messages
        BY <4>1 DEF StoreInv, IndexesAgree, KeyInv, Live
      <4> QED
        BY <4>1, <4>2, <2>2, <2>3, <2>4
    <3> QED
      BY <3>1, <3>2 DEF IndexesAgree
  <2>7. KeyInv'
    <3> SUFFICES ASSUME NEW k \in Handlers
        PROVE  /\ retry'[k] = "none" => key'[k] = None
               /\ retry'[k] # "none" => key'[k] \in Messages
               /\ retry'[k] = "dropped" =>
                    \/ byMsg'[key'[k]] # {}
                    \/ \E h \in Handlers : key'[h] = key'[k] /\ retry'[h] \in Over
      BY DEF KeyInv
    <3>1. CASE k = i
      BY <3>1, <2>1, <2>2, <2>3
    <3>2. CASE k # i
      <4>1. retry'[k] = retry[k] /\ key'[k] = key[k]
        BY <3>2, <2>1, <2>2
      <4>2. /\ retry[k] = "none" => key[k] = None
            /\ retry[k] # "none" => key[k] \in Messages
        BY DEF StoreInv, KeyInv
      <4>3. ASSUME retry[k] = "dropped"
            PROVE  \/ byMsg'[key[k]] # {}
                   \/ \E h \in Handlers : key'[h] = key[k] /\ retry'[h] \in Over
        <5>1. CASE key[k] = key[i]
          BY <5>1, <2>1, <2>2 DEF Over
        <5>2. CASE key[k] # key[i] /\ byMsg[key[k]] # {}
          BY <5>2, <4>2, <4>3, <2>4
        <5>3. CASE \E h \in Handlers : key[h] = key[k] /\ retry[h] \in Over
          BY <5>3, <2>1, <2>2 DEF Over
        <5> QED
          BY <5>1, <5>2, <5>3, <4>3 DEF StoreInv, KeyInv
      <4> QED
        BY <4>1, <4>2, <4>3
    <3> QED
      BY <3>1, <3>2
  <2>8. StoreMoves(j) /\ retry'[i] \notin Live
    BY <1>2, <2>1 DEF StoreMoves, Live
  <2> QED
    BY <2>5, <2>6, <2>7, <2>8 DEF StoreInv
<1> QED
  BY <1>1, <1>2

LEMMA StoreForgetMessage ==
  ASSUME TypeOK, StoreInv, NEW j, NEW m \in Messages, ForgetMessage(m)
  PROVE  StoreType' /\ StoreInv' /\ StoreMoves(j)
<1>1. retry' = [i \in Handlers |-> IF i \in byMsg[m] THEN "refused" ELSE retry[i]]
  BY DEF ForgetMessage
<1>2. key' = key
  BY DEF ForgetMessage
<1>3. byMsg' = [n \in Messages |-> IF n = m THEN {} ELSE byMsg[n]]
  BY DEF ForgetMessage, TypeOK
<1>4. \A i \in byMsg[m] : i \in Handlers /\ retry[i] \in Live /\ key[i] = m
  BY DEF StoreInv, IndexesAgree, TypeOK, AtMostOne
<1>5. StoreType'
  <2>1. retry' \in [Handlers -> Live \cup {"none", "spent", "refused", "lapsed", "dropped"}]
    BY <1>1 DEF TypeOK, Live
  <2>2. byMsg' \in [Messages -> AtMostOne(Handlers)]
    BY <1>3 DEF TypeOK, AtMostOne
  <2> QED
    BY <2>1, <2>2, <1>2 DEF StoreType, TypeOK
<1>6. IndexesAgree'
  <2>1. ASSUME NEW n \in Messages, NEW k \in byMsg'[n]
        PROVE  retry'[k] \in Live /\ key'[k] = n
    <3>1. n # m /\ k \in byMsg[n]
      BY <2>1, <1>3
    <3>2. k \in Handlers /\ retry[k] \in Live /\ key[k] = n
      BY <3>1 DEF StoreInv, IndexesAgree, TypeOK, AtMostOne
    <3> QED
      BY <3>1, <3>2, <1>1, <1>2, <1>4
  <2>2. ASSUME NEW k \in Handlers, retry'[k] \in Live
        PROVE  byMsg'[key'[k]] = {k}
    <3>1. k \notin byMsg[m] /\ retry[k] \in Live
      BY <2>2, <1>1 DEF Live
    <3>2. byMsg[key[k]] = {k} /\ key[k] \in Messages
      BY <3>1 DEF StoreInv, IndexesAgree, KeyInv, Live
    <3>3. key[k] # m
      BY <3>1, <3>2
    <3> QED
      BY <3>2, <3>3, <1>2, <1>3
  <2> QED
    BY <2>1, <2>2 DEF IndexesAgree
<1>7. KeyInv'
  <2> SUFFICES ASSUME NEW k \in Handlers
      PROVE  /\ retry'[k] = "none" => key'[k] = None
             /\ retry'[k] # "none" => key'[k] \in Messages
             /\ retry'[k] = "dropped" =>
                  \/ byMsg'[key'[k]] # {}
                  \/ \E h \in Handlers : key'[h] = key'[k] /\ retry'[h] \in Over
    BY DEF KeyInv
  <2>1. CASE k \in byMsg[m]
    BY <2>1, <1>1, <1>2, <1>4
  <2>2. CASE k \notin byMsg[m]
    <3>1. retry'[k] = retry[k] /\ key'[k] = key[k]
      BY <2>2, <1>1, <1>2
    <3>2. /\ retry[k] = "none" => key[k] = None
          /\ retry[k] # "none" => key[k] \in Messages
      BY DEF StoreInv, KeyInv
    <3>3. ASSUME retry[k] = "dropped"
          PROVE  \/ byMsg'[key[k]] # {}
                 \/ \E h \in Handlers : key'[h] = key[k] /\ retry'[h] \in Over
      <4>1. CASE key[k] = m /\ byMsg[m] # {}
        <5> PICK h \in byMsg[m] : TRUE
          BY <4>1
        <5> QED
          BY <4>1, <1>1, <1>2, <1>4 DEF Over
      <4>2. CASE key[k] # m /\ byMsg[key[k]] # {}
        BY <4>2, <3>2, <3>3, <1>3
      <4>3. CASE \E h \in Handlers : key[h] = key[k] /\ retry[h] \in Over
        <5> PICK h \in Handlers : key[h] = key[k] /\ retry[h] \in Over
          BY <4>3
        <5>1. retry'[h] = retry[h]
          BY <1>1, <1>4 DEF Over, Live
        <5> QED
          BY <5>1, <1>2
      <4> QED
        BY <4>1, <4>2, <4>3, <3>3 DEF StoreInv, KeyInv
    <3> QED
      BY <3>1, <3>2, <3>3
  <2> QED
    BY <2>1, <2>2
<1>8. StoreMoves(j)
  BY <1>1, <1>4 DEF StoreMoves, Live
<1> QED
  BY <1>5, <1>6, <1>7, <1>8 DEF StoreInv

\* Taking a live context for a run and giving it back.
LEMMA StoreMarks ==
  ASSUME TypeOK, StoreInv, key' = key, byMsg' = byMsg,
         retry' \in [Handlers -> Live \cup {"none", "spent", "refused", "lapsed", "dropped"}],
         \A k \in Handlers : retry'[k] = retry[k] \/ (retry[k] \in Live /\ retry'[k] \in Live)
  PROVE  StoreType' /\ StoreInv'
<1>1. StoreType'
  BY DEF StoreType, TypeOK
<1>2. \A k \in Handlers : retry'[k] \in Live <=> retry[k] \in Live
  OBVIOUS
<1>3. \A m \in Messages : byMsg[m] \subseteq Handlers
  BY DEF TypeOK, AtMostOne
<1>4. IndexesAgree'
  BY <1>2, <1>3 DEF StoreInv, IndexesAgree
<1>5. \A k \in Handlers : retry'[k] \notin Live => retry'[k] = retry[k]
  OBVIOUS
<1>6. \A k \in Handlers : retry[k] \in Over => retry'[k] \in Over
  BY DEF Over, Live
<1>7. KeyInv'
  BY <1>2, <1>5, <1>6 DEF StoreInv, KeyInv, Live
<1> QED
  BY <1>1, <1>4, <1>7 DEF StoreInv

-----------------------------------------------------------------------------
\* Who works on what.

\* Nothing is offered anew.
OffersStay ==
  /\ offer' = offer
  /\ \A m \in Messages : /\ confirm'[m] => confirm[m]
                         /\ shown[m] # "nothing" => shown'[m] # "nothing"

\* j moves on, and no other handler does.
Moves(j, stage) ==
  /\ Go(j, stage)
  /\ \A k \in Handlers \ {j} : at'[k] = at[k]
  /\ stage \notin {"idle", "offering"}
  /\ stage = "toasting" => pc[j] = "idle"
  /\ Working(j) \/ pc[j] \in {"idle", "toasting"}
  /\ stage \in Before => pc[j] \in Before /\ retry' = retry
  /\ Working(j) \/ ~(Working(j)' /\ offer[j] # None)

LEMMA WorkKept ==
  ASSUME TypeOK, AtInv, WorkInv, OffersStay, NEW j \in Handlers, StoreMoves(j),
         \/ /\ pc' = pc /\ at' = at
            /\ retry'[j] = retry[j] \/ retry[j] \in Live
         \/ \E stage \in Stages :
              /\ Moves(j, stage)
              /\ Working(j)' \/ offer[j] \notin Handlers \/ retry'[offer[j]] # "running"
  PROVE  WorkInv'
<1>1. \A k \in Handlers \ {j} : pc'[k] = pc[k] /\ at'[k] = at[k]
  BY DEF Moves, Go, TypeOK
<1>2. \A k \in Handlers : pc'[k] = "offering" => pc[k] = "offering" /\ at'[k] = at[k]
  BY <1>1 DEF Moves, Go, TypeOK
<1>3. \A k \in Handlers : pc'[k] \in {"idle", "offering", "toasting"} =>
        pc[k] \in {"idle", "offering", "toasting"}
  BY <1>1 DEF Moves, Go, TypeOK
<1>4. \A k \in Handlers : pc'[k] \in Before => pc[k] \in Before /\ retry'[k] = retry[k]
  <2> TAKE k \in Handlers
  <2>1. CASE k # j
    BY <2>1, <1>1 DEF StoreMoves, WorkInv, OfferInv, Live
  <2>2. CASE k = j
    BY <2>2 DEF Moves, Go, TypeOK, WorkInv, OfferInv, Live
  <2> QED
    BY <2>1, <2>2
<1>5. \A k \in Handlers : Working(k)' => Working(k) \/ offer[k] = None
  <2> TAKE k \in Handlers
  <2>1. CASE k # j
    BY <2>1, <1>1 DEF Working
  <2>2. CASE pc' = pc
    BY <2>2 DEF Working
  <2>3. CASE k = j /\ \E stage \in Stages : Moves(j, stage)
    BY <2>3 DEF Moves
  <2> QED
    BY <2>1, <2>2, <2>3
<1>6. \A k \in Handlers : Working(k) =>
        Working(k)' \/ offer[k] \notin Handlers \/ retry'[offer[k]] # "running"
  <2> TAKE k \in Handlers
  <2>1. CASE k # j
    BY <2>1, <1>1 DEF Working
  <2>2. CASE pc' = pc
    BY <2>2 DEF Working
  <2> QED
    BY <2>1, <2>2
<1>7. \A k \in Handlers : offer[k] \in Handlers =>
        \/ retry'[offer[k]] = retry[offer[k]]
        \/ retry'[offer[k]] \notin Live \cup {"none"}
  BY DEF StoreMoves, WorkInv, OfferInv
<1>8. OfferInv'
  <2>1. \A m \in Messages : confirm'[m] => shown'[m] # "nothing"
    BY DEF OffersStay, WorkInv, OfferInv
  <2> SUFFICES ASSUME NEW k \in Handlers
      PROVE  /\ pc'[k] \in {"idle", "offering", "toasting"} => offer[k] = None
             /\ offer[k] \in Messages => ~confirm'[offer[k]] /\ shown'[offer[k]] # "nothing"
             /\ offer[k] \in Handlers => retry'[offer[k]] # "none"
             /\ offer[k] \in Handlers /\ Working(k)' => retry'[offer[k]] # "idle"
             /\ pc'[k] \in Before => retry'[k] = "none"
    BY <2>1 DEF OfferInv, OffersStay
  <2>2. pc'[k] \in {"idle", "offering", "toasting"} => offer[k] = None
    BY <1>3 DEF WorkInv, OfferInv
  <2>3. offer[k] \in Messages => ~confirm'[offer[k]] /\ shown'[offer[k]] # "nothing"
    BY DEF OffersStay, WorkInv, OfferInv
  <2>4. offer[k] \in Handlers => retry'[offer[k]] # "none"
    BY <1>7 DEF WorkInv, OfferInv
  <2>5. offer[k] \in Handlers /\ Working(k)' => retry'[offer[k]] # "idle"
    BY <1>5, <1>7, RequestsAssumption DEF WorkInv, OfferInv, Live
  <2>6. pc'[k] \in Before => retry'[k] = "none"
    BY <1>4 DEF WorkInv, OfferInv
  <2> QED
    BY <2>2, <2>3, <2>4, <2>5, <2>6
<1>9. QuestionInv'
  <2> SUFFICES ASSUME NEW k \in Handlers, pc'[k] = "offering"
      PROVE  /\ shown'[at'[k]] # "nothing" /\ ~confirm'[at'[k]]
             /\ \A i \in Handlers : /\ offer'[i] # at'[k]
                                    /\ pc'[i] = "offering" /\ at'[i] = at'[k] => i = k
    BY DEF QuestionInv
  <2>1. pc[k] = "offering" /\ at'[k] = at[k] /\ at[k] \in Messages
    BY <1>2 DEF AtInv
  <2>2. shown'[at[k]] # "nothing" /\ ~confirm'[at[k]]
    BY <2>1 DEF OffersStay, WorkInv, QuestionInv
  <2>3. ASSUME NEW i \in Handlers
        PROVE  /\ offer'[i] # at[k]
               /\ pc'[i] = "offering" /\ at'[i] = at[k] => i = k
    BY <2>1, <1>2 DEF OffersStay, WorkInv, QuestionInv
  <2> QED
    BY <2>1, <2>2, <2>3
<1>10. OneRunPerOffer'
  BY <1>5 DEF OffersStay, WorkInv, OneRunPerOffer
<1>11. RunningIsRun'
  <2> SUFFICES ASSUME NEW i \in Handlers, retry'[i] = "running"
      PROVE  \E k \in Handlers : offer'[k] = i /\ Working(k)'
    BY DEF RunningIsRun
  <2>1. retry[i] = "running"
    BY DEF StoreMoves, Live
  <2>2. PICK k \in Handlers : offer[k] = i /\ Working(k)
    BY <2>1 DEF WorkInv, RunningIsRun
  <2> QED
    BY <2>2, <1>6 DEF OffersStay
<1> QED
  BY <1>8, <1>9, <1>10, <1>11 DEF WorkInv

-----------------------------------------------------------------------------
\* One lemma for each action.

LEMMA LinkGetsMenuKeeps ==
  ASSUME IInv, NEW j \in Handlers, LinkGetsMenu(j)
  PROVE  IInv'
<1>1. StoreType' /\ StoreInv' /\ StoreMoves(j)
  BY StoreStays DEF IInv, LinkGetsMenu
<1>2. TypeOK'
  BY <1>1 DEF IInv, TypeOK, StoreType, LinkGetsMenu, Show, Go, Stages, Faces
<1>3. AtInv'
  BY RequestsAssumption DEF IInv, TypeOK, AtInv, LinkGetsMenu, Go, Tasks
<1>4. RegistryInv'
  <2>1. registry' = registry /\ crossed' = crossed
    BY DEF LinkGetsMenu
  <2>2. \A k \in Handlers : RegistryStays(k)
    BY DEF IInv, TypeOK, AtInv, LinkGetsMenu, Go, RegistryStays, Tasks
  <2> QED
    BY <2>1, <2>2, RegistryKept DEF IInv
<1>5. WorkInv'
  <2>1. OffersStay
    BY DEF IInv, TypeOK, LinkGetsMenu, Show, OffersStay
  <2>2. Moves(j, "done")
    BY DEF IInv, TypeOK, WorkInv, OfferInv, LinkGetsMenu, Go, Moves, Working, Before
  <2>3. Working(j)' \/ offer[j] \notin Handlers \/ retry'[offer[j]] # "running"
    BY RequestsAssumption DEF IInv, TypeOK, WorkInv, OfferInv, LinkGetsMenu, Go, Working
  <2> QED
    BY <1>1, <2>1, <2>2, <2>3, WorkKept DEF IInv, Stages
<1>6. ButtonInv'
  BY DEF IInv, TypeOK, ButtonInv, LinkGetsMenu, Show
<1> QED
  BY <1>1, <1>2, <1>3, <1>4, <1>5, <1>6 DEF IInv

LEMMA LinkGetsStatusKeeps ==
  ASSUME IInv, NEW j \in Handlers, LinkGetsStatus(j)
  PROVE  IInv'
<1>1. StoreType' /\ StoreInv' /\ StoreMoves(j)
  BY StoreStays DEF IInv, LinkGetsStatus
<1>2. TypeOK'
  <2>1. pc' \in [Handlers -> Stages]
    BY DEF IInv, TypeOK, LinkGetsStatus, Go, Stages
  <2>2. at' \in [Handlers -> Messages \cup {None}]
    BY DEF IInv, TypeOK, LinkGetsStatus
  <2>3. home' \in [Handlers -> Messages \cup {None}]
    BY DEF IInv, TypeOK, LinkGetsStatus
  <2>4. shown' \in [Messages -> Faces]
    BY DEF IInv, TypeOK, LinkGetsStatus, Show, Faces
  <2> QED
    BY <1>1, <2>1, <2>2, <2>3, <2>4 DEF IInv, TypeOK, StoreType, LinkGetsStatus
<1>3. AtInv'
  BY RequestsAssumption DEF IInv, TypeOK, AtInv, LinkGetsStatus, Go, Tasks
<1>4. RegistryInv'
  <2>1. registry' = registry /\ crossed' = crossed
    BY DEF LinkGetsStatus
  <2>2. \A k \in Handlers : RegistryStays(k)
    BY DEF IInv, TypeOK, AtInv, LinkGetsStatus, Go, RegistryStays, Tasks
  <2> QED
    BY <2>1, <2>2, RegistryKept DEF IInv
<1>5. WorkInv'
  <2>1. OffersStay
    BY DEF IInv, TypeOK, LinkGetsStatus, Show, OffersStay
  <2>2. Moves(j, "queued")
    BY DEF IInv, TypeOK, WorkInv, OfferInv, LinkGetsStatus, Go, Moves, Working, Before,
       store
  <2>3. Working(j)' \/ offer[j] \notin Handlers \/ retry'[offer[j]] # "running"
    BY RequestsAssumption DEF IInv, TypeOK, WorkInv, OfferInv, LinkGetsStatus, Go, Working
  <2> QED
    BY <1>1, <2>1, <2>2, <2>3, WorkKept DEF IInv, Stages
<1>6. ButtonInv'
  BY DEF IInv, TypeOK, ButtonInv, LinkGetsStatus, Show
<1> QED
  BY <1>1, <1>2, <1>3, <1>4, <1>5, <1>6 DEF IInv

LEMMA LinkFailsKeeps ==
  ASSUME IInv, NEW j \in Handlers, LinkFails(j)
  PROVE  IInv'
<1>1. StoreType' /\ StoreInv' /\ StoreMoves(j)
  BY StoreStays DEF IInv, LinkFails
<1>2. TypeOK'
  BY <1>1 DEF IInv, TypeOK, StoreType, LinkFails, Go, Stages
<1>3. AtInv'
  BY RequestsAssumption DEF IInv, TypeOK, AtInv, LinkFails, Go, Tasks
<1>4. RegistryInv'
  <2>1. registry' = registry /\ crossed' = crossed
    BY DEF LinkFails
  <2>2. \A k \in Handlers : RegistryStays(k)
    BY DEF IInv, TypeOK, AtInv, LinkFails, Go, RegistryStays, Tasks
  <2> QED
    BY <2>1, <2>2, RegistryKept DEF IInv
<1>5. WorkInv'
  <2>1. OffersStay
    BY DEF IInv, TypeOK, LinkFails, OffersStay
  <2>2. Moves(j, "done")
    BY DEF IInv, TypeOK, WorkInv, OfferInv, LinkFails, Go, Moves, Working, Before
  <2>3. Working(j)' \/ offer[j] \notin Handlers \/ retry'[offer[j]] # "running"
    BY RequestsAssumption DEF IInv, TypeOK, WorkInv, OfferInv, LinkFails, Go, Working
  <2> QED
    BY <1>1, <2>1, <2>2, <2>3, WorkKept DEF IInv, Stages
<1>6. ButtonInv'
  BY DEF IInv, TypeOK, ButtonInv, LinkFails
<1> QED
  BY <1>1, <1>2, <1>3, <1>4, <1>5, <1>6 DEF IInv

LEMMA PressQualityKeeps ==
  ASSUME IInv, NEW j \in Handlers, PressQuality(j)
  PROVE  IInv'
<1>1. StoreType' /\ StoreInv' /\ StoreMoves(j)
  BY StoreStays DEF IInv, PressQuality
<1>2. TypeOK'
  <2>1. pc' \in [Handlers -> Stages]
    BY DEF IInv, TypeOK, PressQuality, Go, Stages
  <2>2. at' \in [Handlers -> Messages \cup {None}]
    BY DEF IInv, TypeOK, PressQuality
  <2> QED
    BY <1>1, <2>1, <2>2 DEF IInv, TypeOK, StoreType, PressQuality
<1>3. AtInv'
  BY RequestsAssumption DEF IInv, TypeOK, AtInv, PressQuality, Go, Tasks
<1>4. RegistryInv'
  <2>1. registry' = registry /\ crossed' = crossed
    BY DEF PressQuality
  <2>2. \A k \in Handlers : RegistryStays(k)
    BY DEF IInv, TypeOK, AtInv, PressQuality, Go, RegistryStays, Tasks
  <2> QED
    BY <2>1, <2>2, RegistryKept DEF IInv
<1>5. WorkInv'
  <2>1. OffersStay
    BY DEF IInv, TypeOK, PressQuality, OffersStay
  <2>2. Moves(j, "starting")
    BY DEF IInv, TypeOK, WorkInv, OfferInv, PressQuality, Go, Moves, Working, Before, store
  <2>3. Working(j)' \/ offer[j] \notin Handlers \/ retry'[offer[j]] # "running"
    BY RequestsAssumption DEF IInv, TypeOK, WorkInv, OfferInv, PressQuality, Go, Working
  <2> QED
    BY <1>1, <2>1, <2>2, <2>3, WorkKept DEF IInv, Stages
<1>6. ButtonInv'
  BY DEF IInv, TypeOK, ButtonInv, PressQuality
<1> QED
  BY <1>1, <1>2, <1>3, <1>4, <1>5, <1>6 DEF IInv

LEMMA PressCancelKeeps ==
  ASSUME IInv, NEW j \in Handlers, PressCancel(j)
  PROVE  IInv'
<1>1. StoreType' /\ StoreInv' /\ StoreMoves(j)
  BY StoreStays DEF IInv, PressCancel
<1>2. TypeOK'
  <2>1. pc' \in [Handlers -> Stages]
    BY DEF IInv, TypeOK, PressCancel, Go, Stages
  <2>2. target' \in [Handlers -> Handlers \cup {None}]
    BY DEF IInv, TypeOK, PressCancel, AtMostOne
  <2>3. doomed' \in [Handlers -> BOOLEAN]
    BY DEF IInv, TypeOK, PressCancel
  <2> QED
    BY <1>1, <2>1, <2>2, <2>3 DEF IInv, TypeOK, StoreType, PressCancel
<1>3. AtInv'
  <2>1. target'[j] \in Handlers
    BY DEF IInv, TypeOK, AtMostOne, PressCancel
  <2>2. \A k \in Handlers \ {j} : pc'[k] = pc[k] /\ target'[k] = target[k]
    BY DEF IInv, TypeOK, PressCancel, Go
  <2>3. pc'[j] = "toasting" /\ at' = at /\ home' = home
    BY DEF IInv, TypeOK, PressCancel, Go
  <2> QED
    BY <2>1, <2>2, <2>3 DEF IInv, AtInv, Tasks
<1>4. RegistryInv'
  <2>1. registry' = registry /\ crossed' = crossed
    BY DEF PressCancel, AtMostOne
  <2>2. \A k \in Handlers : RegistryStays(k)
    BY DEF IInv, TypeOK, AtInv, PressCancel, Go, RegistryStays, Tasks
  <2> QED
    BY <2>1, <2>2, RegistryKept DEF IInv
<1>5. WorkInv'
  <2>1. OffersStay
    BY DEF IInv, TypeOK, PressCancel, OffersStay
  <2>2. Moves(j, "toasting")
    BY DEF IInv, TypeOK, WorkInv, OfferInv, PressCancel, Go, Moves, Working, Before
  <2>3. Working(j)' \/ offer[j] \notin Handlers \/ retry'[offer[j]] # "running"
    BY RequestsAssumption DEF IInv, TypeOK, WorkInv, OfferInv, PressCancel, Go, Working
  <2> QED
    BY <1>1, <2>1, <2>2, <2>3, WorkKept DEF IInv, Stages
<1>6. ButtonInv'
  BY DEF IInv, TypeOK, ButtonInv, PressCancel
<1> QED
  BY <1>1, <1>2, <1>3, <1>4, <1>5, <1>6 DEF IInv

LEMMA StartKeeps ==
  ASSUME IInv, NEW j \in Handlers, Start(j)
  PROVE  IInv'
<1>1. StoreType' /\ StoreInv' /\ StoreMoves(j)
  BY StoreStays DEF IInv, Start
<1>2. TypeOK'
  BY <1>1 DEF IInv, TypeOK, StoreType, Start, Show, Go, Stages, Faces
<1>3. AtInv'
  BY RequestsAssumption DEF IInv, TypeOK, AtInv, Start, Go, Tasks
<1>4. RegistryInv'
  <2>1. registry' = registry /\ crossed' = crossed
    BY DEF Start
  <2>2. \A k \in Handlers : RegistryStays(k)
    BY DEF IInv, TypeOK, AtInv, Start, Go, RegistryStays, Tasks
  <2> QED
    BY <2>1, <2>2, RegistryKept DEF IInv
<1>5. WorkInv'
  <2>1. OffersStay
    BY DEF IInv, TypeOK, Start, Show, OffersStay
  <2>2. Moves(j, "queued")
    BY DEF IInv, TypeOK, WorkInv, OfferInv, Start, Go, Moves, Working, Before, store
  <2>3. Working(j)' \/ offer[j] \notin Handlers \/ retry'[offer[j]] # "running"
    BY RequestsAssumption DEF IInv, TypeOK, WorkInv, OfferInv, Start, Go, Working
  <2> QED
    BY <1>1, <2>1, <2>2, <2>3, WorkKept DEF IInv, Stages
<1>6. ButtonInv'
  BY DEF IInv, TypeOK, ButtonInv, Start, Show
<1> QED
  BY <1>1, <1>2, <1>3, <1>4, <1>5, <1>6 DEF IInv

LEMMA StartElsewhereKeeps ==
  ASSUME IInv, NEW j \in Handlers, StartElsewhere(j)
  PROVE  IInv'
<1>1. StoreType' /\ StoreInv' /\ StoreMoves(j)
  BY StoreStays DEF IInv, StartElsewhere
<1>2. TypeOK'
  <2>1. pc' \in [Handlers -> Stages]
    BY DEF IInv, TypeOK, StartElsewhere, Go, Stages
  <2>2. at' \in [Handlers -> Messages \cup {None}]
    BY DEF IInv, TypeOK, StartElsewhere
  <2>3. home' \in [Handlers -> Messages \cup {None}]
    BY DEF IInv, TypeOK, StartElsewhere
  <2>4. shown' \in [Messages -> Faces]
    BY DEF IInv, TypeOK, StartElsewhere, Show, Faces
  <2> QED
    BY <1>1, <2>1, <2>2, <2>3, <2>4 DEF IInv, TypeOK, StoreType, StartElsewhere
<1>3. AtInv'
  BY RequestsAssumption DEF IInv, TypeOK, AtInv, StartElsewhere, Go, Tasks
<1>4. RegistryInv'
  <2>1. registry' = registry /\ crossed' = crossed
    BY DEF StartElsewhere
  <2>2. \A k \in Handlers : RegistryStays(k)
    BY DEF IInv, TypeOK, AtInv, StartElsewhere, Go, RegistryStays, Tasks
  <2> QED
    BY <2>1, <2>2, RegistryKept DEF IInv
<1>5. WorkInv'
  <2>1. OffersStay
    BY DEF IInv, TypeOK, StartElsewhere, Show, OffersStay
  <2>2. Moves(j, "queued")
    BY DEF IInv, TypeOK, WorkInv, OfferInv, StartElsewhere, Go, Moves, Working, Before,
       store
  <2>3. Working(j)' \/ offer[j] \notin Handlers \/ retry'[offer[j]] # "running"
    BY RequestsAssumption DEF IInv, TypeOK, WorkInv, OfferInv, StartElsewhere, Go, Working
  <2> QED
    BY <1>1, <2>1, <2>2, <2>3, WorkKept DEF IInv, Stages
<1>6. ButtonInv'
  BY DEF IInv, TypeOK, ButtonInv, StartElsewhere, Show
<1> QED
  BY <1>1, <1>2, <1>3, <1>4, <1>5, <1>6 DEF IInv

LEMMA ProgressKeeps ==
  ASSUME IInv, NEW j \in Handlers, Progress(j)
  PROVE  IInv'
<1>1. StoreType' /\ StoreInv' /\ StoreMoves(j)
  BY StoreStays DEF IInv, Progress
<1>2. TypeOK'
  BY <1>1 DEF IInv, TypeOK, StoreType, Progress, Show, handlers, Faces
<1>3. AtInv'
  BY RequestsAssumption DEF IInv, TypeOK, AtInv, Progress, handlers, Tasks
<1>4. RegistryInv'
  <2>1. registry' = registry /\ crossed' = crossed
    BY DEF Progress
  <2>2. \A k \in Handlers : RegistryStays(k)
    BY DEF IInv, TypeOK, AtInv, Progress, handlers, RegistryStays, Tasks
  <2> QED
    BY <2>1, <2>2, RegistryKept DEF IInv
<1>5. WorkInv'
  <2>1. OffersStay
    BY DEF IInv, TypeOK, Progress, Show, handlers, OffersStay
  <2>2. pc' = pc /\ at' = at /\ retry' = retry
    BY DEF Progress, Show, handlers, store
  <2> QED
    BY <1>1, <2>1, <2>2, WorkKept DEF IInv
<1>6. ButtonInv'
  BY DEF IInv, TypeOK, ButtonInv, Progress, Show
<1> QED
  BY <1>1, <1>2, <1>3, <1>4, <1>5, <1>6 DEF IInv

LEMMA ToldElsewhereKeeps ==
  ASSUME IInv, NEW j \in Handlers, ToldElsewhere(j)
  PROVE  IInv'
<1>1. StoreType' /\ StoreInv' /\ StoreMoves(j)
  BY StoreStays DEF IInv, ToldElsewhere
<1>2. TypeOK'
  <2>1. pc' \in [Handlers -> Stages]
    BY DEF IInv, TypeOK, ToldElsewhere, Go, Stages
  <2>2. at' \in [Handlers -> Messages \cup {None}]
    BY DEF IInv, TypeOK, ToldElsewhere
  <2>3. shown' \in [Messages -> Faces]
    BY DEF IInv, TypeOK, ToldElsewhere, Show, ShowEnd, Faces
  <2>4. button' \in [Messages -> Handlers \cup {None}]
    BY DEF IInv, TypeOK, ToldElsewhere, ShowEnd
  <2> QED
    BY <1>1, <2>1, <2>2, <2>3, <2>4 DEF IInv, TypeOK, StoreType, ToldElsewhere
<1>3. AtInv'
  BY RequestsAssumption DEF IInv, TypeOK, AtInv, ToldElsewhere, Go, Tasks
<1>4. RegistryInv'
  <2>1. registry' = registry /\ crossed' = crossed
    BY DEF ToldElsewhere
  <2>2. \A k \in Handlers : RegistryStays(k)
    BY DEF IInv, TypeOK, AtInv, ToldElsewhere, Go, RegistryStays, Tasks
  <2> QED
    BY <2>1, <2>2, RegistryKept DEF IInv
<1>5. WorkInv'
  <2>1. OffersStay
    BY DEF IInv, TypeOK, ToldElsewhere, Show, ShowEnd, OffersStay
  <2>2. Moves(j, "deleting")
    BY DEF IInv, TypeOK, WorkInv, OfferInv, ToldElsewhere, Go, Moves, Working, Before
  <2>3. Working(j)' \/ offer[j] \notin Handlers \/ retry'[offer[j]] # "running"
    BY RequestsAssumption DEF IInv, TypeOK, WorkInv, OfferInv, ToldElsewhere, Go, Working
  <2> QED
    BY <1>1, <2>1, <2>2, <2>3, WorkKept DEF IInv, Stages
<1>6. ButtonInv'
  BY DEF IInv, TypeOK, ButtonInv, ToldElsewhere, Show, ShowEnd
<1> QED
  BY <1>1, <1>2, <1>3, <1>4, <1>5, <1>6 DEF IInv

LEMMA ScanFindsNothingKeeps ==
  ASSUME IInv, NEW j \in Handlers, ScanFindsNothing(j)
  PROVE  IInv'
<1>1. StoreType' /\ StoreInv' /\ StoreMoves(j)
  BY StoreStays DEF IInv, ScanFindsNothing
<1>2. TypeOK'
  BY <1>1 DEF IInv, TypeOK, StoreType, ScanFindsNothing, Go, Stages
<1>3. AtInv'
  BY RequestsAssumption DEF IInv, TypeOK, AtInv, ScanFindsNothing, Go, Tasks
<1>4. RegistryInv'
  <2>1. registry' = registry /\ crossed' = crossed
    BY DEF ScanFindsNothing
  <2>2. \A k \in Handlers : RegistryStays(k)
    BY DEF IInv, TypeOK, AtInv, ScanFindsNothing, Go, RegistryStays, Tasks
  <2> QED
    BY <2>1, <2>2, RegistryKept DEF IInv
<1>5. WorkInv'
  <2>1. OffersStay
    BY DEF IInv, TypeOK, ScanFindsNothing, OffersStay
  <2>2. Moves(j, "late")
    BY DEF IInv, TypeOK, WorkInv, OfferInv, ScanFindsNothing, Go, Moves, Working, Before
  <2>3. Working(j)' \/ offer[j] \notin Handlers \/ retry'[offer[j]] # "running"
    BY RequestsAssumption DEF IInv, TypeOK, WorkInv, OfferInv, ScanFindsNothing, Go, Working
  <2> QED
    BY <1>1, <2>1, <2>2, <2>3, WorkKept DEF IInv, Stages
<1>6. ButtonInv'
  BY DEF IInv, TypeOK, ButtonInv, ScanFindsNothing
<1> QED
  BY <1>1, <1>2, <1>3, <1>4, <1>5, <1>6 DEF IInv

\* A handler that leaves has nothing running behind it.
LEMMA StoreLeft ==
  ASSUME IInv, NEW j \in Handlers, Leave(j)
  PROVE  /\ StoreType' /\ StoreInv' /\ StoreMoves(j)
         /\ Go(j, "done")
         /\ offer[j] \in Handlers => retry'[offer[j]] \notin Live
<1>1. CASE offer[j] \in Handlers
  BY <1>1, StoreForget DEF IInv, Leave
<1>2. CASE offer[j] \notin Handlers
  BY <1>2, StoreStays DEF IInv, Leave
<1> QED
  BY <1>1, <1>2 DEF Leave

LEMMA RefusedEarlyKeeps ==
  ASSUME IInv, NEW j \in Handlers, RefusedEarly(j)
  PROVE  IInv'
<1>1. StoreType' /\ StoreInv' /\ StoreMoves(j)
  <2>1. at[j] \in Messages
    BY DEF IInv, AtInv, RefusedEarly
  <2> QED
    BY <2>1, StoreForgetMessage DEF IInv, RefusedEarly, TellQuota
<1>2. TypeOK'
  BY <1>1 DEF IInv, TypeOK, StoreType, RefusedEarly, TellQuota, Go, Stages
<1>3. AtInv'
  BY RequestsAssumption DEF IInv, TypeOK, AtInv, RefusedEarly, TellQuota, Go, Tasks
<1>4. RegistryInv'
  <2>1. registry' = registry /\ crossed' = crossed
    BY DEF RefusedEarly
  <2>2. \A k \in Handlers : RegistryStays(k)
    BY DEF IInv, TypeOK, AtInv, RefusedEarly, TellQuota, Go, RegistryStays, Tasks
  <2> QED
    BY <2>1, <2>2, RegistryKept DEF IInv
<1>5. WorkInv'
  <2>1. OffersStay
    BY DEF IInv, TypeOK, RefusedEarly, OffersStay
  <2>2. Moves(j, "late")
    BY DEF IInv, TypeOK, WorkInv, OfferInv, RefusedEarly, TellQuota, Go, Moves, Working,
       Before
  <2>3. Working(j)' \/ offer[j] \notin Handlers \/ retry'[offer[j]] # "running"
    BY RequestsAssumption DEF IInv, TypeOK, WorkInv, OfferInv, RefusedEarly, TellQuota, Go,
       Working
  <2> QED
    BY <1>1, <2>1, <2>2, <2>3, WorkKept DEF IInv, Stages
<1>6. ButtonInv'
  BY DEF IInv, TypeOK, ButtonInv, RefusedEarly
<1> QED
  BY <1>1, <1>2, <1>3, <1>4, <1>5, <1>6 DEF IInv

LEMMA FailEarlyKeeps ==
  ASSUME IInv, NEW j \in Handlers, FailEarly(j)
  PROVE  IInv'
<1>1. StoreType' /\ StoreInv' /\ StoreMoves(j)
  <2>1. at[j] \in Messages /\ retry[j] = "none"
    BY DEF IInv, AtInv, WorkInv, OfferInv, Before, FailEarly
  <2> QED
    BY <2>1, StorePut DEF IInv, FailEarly
<1>2. TypeOK'
  <2>1. pc' \in [Handlers -> Stages]
    BY DEF IInv, TypeOK, FailEarly, Go, Stages
  <2>2. end' \in [Handlers -> Ends]
    BY DEF IInv, TypeOK, FailEarly, Ends
  <2>3. reached' \in [Handlers -> BOOLEAN]
    BY DEF IInv, TypeOK, FailEarly
  <2> QED
    BY <1>1, <2>1, <2>2, <2>3 DEF IInv, TypeOK, StoreType, FailEarly
<1>3. AtInv'
  BY RequestsAssumption DEF IInv, TypeOK, AtInv, FailEarly, Go, Tasks
<1>4. RegistryInv'
  <2>1. registry' = registry /\ crossed' = crossed
    BY DEF FailEarly
  <2>2. \A k \in Handlers : RegistryStays(k)
    BY DEF IInv, TypeOK, AtInv, FailEarly, Go, RegistryStays, Tasks
  <2> QED
    BY <2>1, <2>2, RegistryKept DEF IInv
<1>5. WorkInv'
  <2>1. OffersStay
    BY DEF IInv, TypeOK, FailEarly, OffersStay
  <2>2. Moves(j, "late")
    BY DEF IInv, TypeOK, WorkInv, OfferInv, FailEarly, Go, Moves, Working, Before
  <2>3. Working(j)' \/ offer[j] \notin Handlers \/ retry'[offer[j]] # "running"
    BY RequestsAssumption DEF IInv, TypeOK, WorkInv, OfferInv, FailEarly, Go, Working
  <2> QED
    BY <1>1, <2>1, <2>2, <2>3, WorkKept DEF IInv, Stages
<1>6. ButtonInv'
  BY DEF IInv, TypeOK, ButtonInv, FailEarly
<1> QED
  BY <1>1, <1>2, <1>3, <1>4, <1>5, <1>6 DEF IInv

LEMMA RegisterKeeps ==
  ASSUME IInv, NEW j \in Handlers, Register(j)
  PROVE  IInv'
<1>1. StoreType' /\ StoreInv' /\ StoreMoves(j)
  BY StoreStays DEF IInv, Register
<1>2. TypeOK'
  <2>1. pc' \in [Handlers -> Stages]
    BY DEF IInv, TypeOK, Register, Go, Stages
  <2>2. registry' \in [Messages -> AtMostOne(Handlers)]
    BY DEF IInv, TypeOK, Register, AtMostOne
  <2>3. crossed' \in SUBSET Handlers
    BY DEF IInv, TypeOK, Register, Meet, Peers
  <2> QED
    BY <1>1, <2>1, <2>2, <2>3 DEF IInv, TypeOK, StoreType, Register
<1>3. AtInv'
  BY RequestsAssumption DEF IInv, TypeOK, AtInv, Register, Go, Tasks
<1>4. RegistryInv'
  <2>1. /\ home[j] \in Messages /\ home' = home
        /\ registry' = [m \in Messages |-> IF m = home[j] THEN {j} ELSE registry[m]]
        /\ crossed' = crossed \cup (IF Peers(j) = {} THEN {} ELSE Peers(j) \cup {j})
        /\ pc'[j] = "running" /\ pc[j] = "queued"
        /\ \A k \in Handlers \ {j} : pc'[k] = pc[k]
    BY DEF IInv, TypeOK, AtInv, Register, Meet, Go
  <2>2. RegistryIsLive'
    <3> SUFFICES ASSUME NEW m \in Messages, NEW k \in registry'[m]
        PROVE  pc'[k] \in Tasks \cup {"unwinding"} /\ home'[k] = m
      BY DEF RegistryIsLive
    <3>1. CASE m = home[j]
      BY <3>1, <2>1 DEF Tasks
    <3>2. CASE m # home[j]
      <4>1. k \in registry[m]
        BY <3>2, <2>1
      <4>2. k \in Handlers
        BY <4>1 DEF IInv, TypeOK, AtMostOne
      <4>3. pc[k] \in Tasks \cup {"unwinding"} /\ home[k] = m
        BY <4>1 DEF IInv, RegistryInv, RegistryIsLive
      <4> QED
        BY <4>2, <4>3, <2>1 DEF Tasks
    <3> QED
      BY <3>1, <3>2
  <2>3. ASSUME NEW i \in Handlers, pc'[i] \in Tasks, i \notin crossed'
        PROVE  registry'[home'[i]] = {i}
    <3>1. CASE i = j
      BY <3>1, <2>1
    <3>2. CASE i # j
      <4>1. pc[i] \in Tasks /\ i \notin crossed /\ home[i] # home[j]
        BY <2>1, <2>3, <3>2 DEF Peers, InFlight
      <4>2. home[i] \in Messages /\ registry[home[i]] = {i}
        BY <2>1, <2>3, <4>1 DEF IInv, AtInv, RegistryInv, CancelFindsTheRun
      <4> QED
        BY <2>1, <4>1, <4>2
    <3> QED
      BY <3>1, <3>2
  <2>4. ApartInv'
    <3> SUFFICES ASSUME NEW i \in Handlers, NEW k \in Handlers, InFlight(i)', InFlight(k)',
                        home'[i] = home'[k], i # k
                 PROVE  i \in crossed' /\ k \in crossed'
      BY DEF ApartInv
    <3>1. CASE i # j /\ k # j
      BY <2>1, <3>1 DEF IInv, RegistryInv, ApartInv, InFlight
    <3>2. CASE i = j
      BY <2>1, <3>2 DEF Peers, InFlight
    <3>3. CASE k = j
      BY <2>1, <3>3 DEF Peers, InFlight
    <3> QED
      BY <3>1, <3>2, <3>3
  <2> QED
    BY <2>2, <2>3, <2>4 DEF RegistryInv, CancelFindsTheRun
<1>5. WorkInv'
  <2>1. OffersStay
    BY DEF IInv, TypeOK, Register, OffersStay
  <2>2. Moves(j, "running")
    BY DEF IInv, TypeOK, WorkInv, OfferInv, Register, Go, Moves, Working, Before, store
  <2>3. Working(j)' \/ offer[j] \notin Handlers \/ retry'[offer[j]] # "running"
    BY RequestsAssumption DEF IInv, TypeOK, WorkInv, OfferInv, Register, Go, Working
  <2> QED
    BY <1>1, <2>1, <2>2, <2>3, WorkKept DEF IInv, Stages
<1>6. ButtonInv'
  BY DEF IInv, TypeOK, ButtonInv, Register
<1> QED
  BY <1>1, <1>2, <1>3, <1>4, <1>5, <1>6 DEF IInv

LEMMA TellKeeps ==
  ASSUME IInv, NEW j \in Handlers, Tell(j)
  PROVE  IInv'
<1>1. StoreType' /\ StoreInv' /\ StoreMoves(j)
  <2>1. at[j] \in Messages /\ retry[j] = "none"
    BY DEF IInv, AtInv, WorkInv, OfferInv, Before, Tell
  <2> QED
    BY <2>1, StorePut, StoreStays DEF IInv, Tell
<1>2. TypeOK'
  <2>1. pc' \in [Handlers -> Stages]
    BY DEF IInv, TypeOK, Tell, Go, Stages
  <2>2. end' \in [Handlers -> Ends]
    BY DEF IInv, TypeOK, Tell, Ends
  <2>3. reached' \in [Handlers -> BOOLEAN]
    BY DEF IInv, TypeOK, Tell
  <2> QED
    BY <1>1, <2>1, <2>2, <2>3 DEF IInv, TypeOK, StoreType, Tell
<1>3. AtInv'
  BY RequestsAssumption DEF IInv, TypeOK, AtInv, Tell, Go, Tasks
<1>4. RegistryInv'
  <2>1. registry' = registry /\ crossed' = crossed
    BY DEF Tell
  <2>2. \A k \in Handlers : RegistryStays(k)
    BY DEF IInv, TypeOK, AtInv, Tell, Go, RegistryStays, Tasks
  <2> QED
    BY <2>1, <2>2, RegistryKept DEF IInv
<1>5. WorkInv'
  <2>1. OffersStay
    BY DEF IInv, TypeOK, Tell, OffersStay
  <2>2. Moves(j, "telling")
    BY DEF IInv, TypeOK, WorkInv, OfferInv, Tell, Go, Moves, Working, Before
  <2>3. Working(j)' \/ offer[j] \notin Handlers \/ retry'[offer[j]] # "running"
    BY RequestsAssumption DEF IInv, TypeOK, WorkInv, OfferInv, Tell, Go, Working
  <2> QED
    BY <1>1, <2>1, <2>2, <2>3, WorkKept DEF IInv, Stages
<1>6. ButtonInv'
  BY DEF IInv, TypeOK, ButtonInv, Tell
<1> QED
  BY <1>1, <1>2, <1>3, <1>4, <1>5, <1>6 DEF IInv

LEMMA RefuseKeeps ==
  ASSUME IInv, NEW j \in Handlers, Refuse(j)
  PROVE  IInv'
<1>1. StoreType' /\ StoreInv' /\ StoreMoves(j)
  <2>1. at[j] \in Messages
    BY DEF IInv, AtInv, Refuse
  <2> QED
    BY <2>1, StoreForgetMessage DEF IInv, Refuse, TellQuota
<1>2. TypeOK'
  <2>1. pc' \in [Handlers -> Stages]
    BY DEF IInv, TypeOK, Refuse, TellQuota, Go, Stages
  <2>2. reached' \in [Handlers -> BOOLEAN]
    BY DEF IInv, TypeOK, Refuse, TellQuota
  <2>3. registry' \in [Messages -> AtMostOne(Handlers)]
    BY DEF IInv, TypeOK, Refuse, Unregister, AtMostOne
  <2> QED
    BY <1>1, <2>1, <2>2, <2>3 DEF IInv, TypeOK, StoreType, Unregister, Refuse
<1>3. AtInv'
  BY RequestsAssumption DEF IInv, TypeOK, AtInv, Refuse, TellQuota, Go, Tasks
<1>4. RegistryInv'
  <2>1. /\ Unregister(j) /\ home' = home /\ pc[j] \in Tasks \cup {"unwinding"}
        /\ pc'[j] \notin Tasks \cup {"unwinding"} /\ \A k \in Handlers \ {j} : pc'[k] = pc[k]
    BY DEF IInv, TypeOK, Refuse, TellQuota, Go, Unregister, Tasks
  <2> QED
    BY <2>1, RegistryEnds DEF IInv
<1>5. WorkInv'
  <2>1. OffersStay
    BY DEF IInv, TypeOK, Refuse, OffersStay
  <2>2. Moves(j, "late")
    BY DEF IInv, TypeOK, WorkInv, OfferInv, Refuse, TellQuota, Go, Moves, Working, Before
  <2>3. Working(j)' \/ offer[j] \notin Handlers \/ retry'[offer[j]] # "running"
    BY RequestsAssumption DEF IInv, TypeOK, WorkInv, OfferInv, Refuse, TellQuota, Go,
       Working
  <2> QED
    BY <1>1, <2>1, <2>2, <2>3, WorkKept DEF IInv, Stages
<1>6. ButtonInv'
  BY DEF IInv, TypeOK, ButtonInv, Refuse
<1> QED
  BY <1>1, <1>2, <1>3, <1>4, <1>5, <1>6 DEF IInv

LEMMA ToldKeeps ==
  ASSUME IInv, NEW j \in Handlers, Told(j)
  PROVE  IInv'
<1>1. StoreType' /\ StoreInv' /\ StoreMoves(j)
  BY StoreLeft, StoreStays DEF IInv, Told, Return
<1>2. TypeOK'
  <2>1. pc' \in [Handlers -> Stages]
    BY DEF IInv, TypeOK, Told, Return, Leave, Go, Stages
  <2>2. shown' \in [Messages -> Faces]
    BY DEF IInv, TypeOK, Told, ShowEnd, Show, Faces
  <2>3. button' \in [Messages -> Handlers \cup {None}]
    BY DEF IInv, TypeOK, Told, ShowEnd
  <2>4. registry' \in [Messages -> AtMostOne(Handlers)]
    BY DEF IInv, TypeOK, Told, Return, Unregister, AtMostOne
  <2> QED
    BY <1>1, <2>1, <2>2, <2>3, <2>4 DEF IInv, TypeOK, StoreType, Unregister, Return, Told
<1>3. AtInv'
  BY RequestsAssumption DEF IInv, TypeOK, AtInv, Told, Return, Leave, Go, Tasks
<1>4. RegistryInv'
  <2>1. /\ Unregister(j) /\ home' = home /\ pc[j] \in Tasks \cup {"unwinding"}
        /\ pc'[j] \notin Tasks \cup {"unwinding"} /\ \A k \in Handlers \ {j} : pc'[k] = pc[k]
    BY DEF IInv, TypeOK, Told, Return, Unregister, Leave, Go, Tasks
  <2> QED
    BY <2>1, RegistryEnds DEF IInv
<1>5. WorkInv'
  <2>1. OffersStay
    BY DEF IInv, TypeOK, Told, ShowEnd, Show, OffersStay
  <2>2. CASE Leave(j)
    <3>1. Moves(j, "done")
      BY <2>2, StoreLeft DEF IInv, TypeOK, Told, Moves, Working, Before
    <3>2. offer[j] \in Handlers => retry'[offer[j]] # "running"
      BY <2>2, StoreLeft DEF Live
    <3> QED
      BY <1>1, <2>1, <3>1, <3>2, WorkKept DEF IInv, Stages
  <2>3. CASE Go(j, "scanning")
    <3>1. Moves(j, "scanning") /\ Working(j)'
      BY <2>3 DEF IInv, TypeOK, Told, Go, Moves, Working, Before
    <3> QED
      BY <1>1, <2>1, <3>1, WorkKept DEF IInv, Stages
  <2> QED
    BY <2>2, <2>3 DEF Told, Return
<1>6. ButtonInv'
  BY DEF IInv, TypeOK, ButtonInv, Told, ShowEnd, Show
<1> QED
  BY <1>1, <1>2, <1>3, <1>4, <1>5, <1>6 DEF IInv

LEMMA DeletedKeeps ==
  ASSUME IInv, NEW j \in Handlers, Deleted(j)
  PROVE  IInv'
<1>1. StoreType' /\ StoreInv' /\ StoreMoves(j)
  BY StoreLeft, StoreStays DEF IInv, Deleted, Return
<1>2. TypeOK'
  <2>1. pc' \in [Handlers -> Stages]
    BY DEF IInv, TypeOK, Deleted, Return, Leave, Go, Stages
  <2>2. shown' \in [Messages -> Faces]
    BY DEF IInv, TypeOK, Deleted, Show, Faces
  <2>3. registry' \in [Messages -> AtMostOne(Handlers)]
    BY DEF IInv, TypeOK, Deleted, Return, Unregister, AtMostOne
  <2> QED
    BY <1>1, <2>1, <2>2, <2>3 DEF IInv, TypeOK, StoreType, Unregister, Return, Deleted
<1>3. AtInv'
  BY RequestsAssumption DEF IInv, TypeOK, AtInv, Deleted, Return, Leave, Go, Tasks
<1>4. RegistryInv'
  <2>1. /\ Unregister(j) /\ home' = home /\ pc[j] \in Tasks \cup {"unwinding"}
        /\ pc'[j] \notin Tasks \cup {"unwinding"} /\ \A k \in Handlers \ {j} : pc'[k] = pc[k]
    BY DEF IInv, TypeOK, Deleted, Return, Unregister, Leave, Go, Tasks
  <2> QED
    BY <2>1, RegistryEnds DEF IInv
<1>5. WorkInv'
  <2>1. OffersStay
    BY DEF IInv, TypeOK, Deleted, Show, OffersStay
  <2>2. CASE Leave(j)
    <3>1. Moves(j, "done")
      BY <2>2, StoreLeft DEF IInv, TypeOK, Deleted, Moves, Working, Before
    <3>2. offer[j] \in Handlers => retry'[offer[j]] # "running"
      BY <2>2, StoreLeft DEF Live
    <3> QED
      BY <1>1, <2>1, <3>1, <3>2, WorkKept DEF IInv, Stages
  <2>3. CASE Go(j, "scanning")
    <3>1. Moves(j, "scanning") /\ Working(j)'
      BY <2>3 DEF IInv, TypeOK, Deleted, Go, Moves, Working, Before
    <3> QED
      BY <1>1, <2>1, <3>1, WorkKept DEF IInv, Stages
  <2> QED
    BY <2>2, <2>3 DEF Deleted, Return
<1>6. ButtonInv'
  BY DEF IInv, TypeOK, ButtonInv, Deleted, Show
<1> QED
  BY <1>1, <1>2, <1>3, <1>4, <1>5, <1>6 DEF IInv

LEMMA ScanFindsKeeps ==
  ASSUME IInv, NEW j \in Handlers, ScanFinds(j)
  PROVE  IInv'
<1>1. StoreType' /\ StoreInv' /\ StoreMoves(j)
  BY StoreLeft DEF ScanFinds
<1>2. TypeOK'
  <2>1. pc' \in [Handlers -> Stages]
    BY DEF IInv, TypeOK, ScanFinds, Leave, Go, Stages
  <2>2. scan' \in [Messages -> BOOLEAN]
    BY DEF IInv, TypeOK, ScanFinds
  <2>3. shown' \in [Messages -> Faces]
    BY DEF IInv, TypeOK, ScanFinds, Faces
  <2> QED
    BY <1>1, <2>1, <2>2, <2>3 DEF IInv, TypeOK, StoreType, ScanFinds
<1>3. AtInv'
  BY RequestsAssumption DEF IInv, TypeOK, AtInv, ScanFinds, Leave, Go, Tasks
<1>4. RegistryInv'
  <2>1. registry' = registry /\ crossed' = crossed
    BY DEF ScanFinds
  <2>2. \A k \in Handlers : RegistryStays(k)
    BY DEF IInv, TypeOK, AtInv, ScanFinds, Leave, Go, RegistryStays, Tasks
  <2> QED
    BY <2>1, <2>2, RegistryKept DEF IInv
<1>5. WorkInv'
  <2>1. OffersStay
    BY DEF IInv, TypeOK, ScanFinds, OffersStay
  <2>2. Moves(j, "done")
    BY StoreLeft DEF IInv, TypeOK, ScanFinds, Moves, Working, Before
  <2>3. offer[j] \in Handlers => retry'[offer[j]] # "running"
    BY StoreLeft DEF ScanFinds, Live
  <2> QED
    BY <1>1, <2>1, <2>2, <2>3, WorkKept DEF IInv, Stages
<1>6. ButtonInv'
  BY DEF IInv, TypeOK, ButtonInv, ScanFinds
<1> QED
  BY <1>1, <1>2, <1>3, <1>4, <1>5, <1>6 DEF IInv

LEMMA UnwoundKeeps ==
  ASSUME IInv, NEW j \in Handlers, Unwound(j)
  PROVE  IInv'
<1>1. StoreType' /\ StoreInv' /\ StoreMoves(j)
  BY StoreLeft DEF Unwound
<1>2. TypeOK'
  <2>1. pc' \in [Handlers -> Stages]
    BY DEF IInv, TypeOK, Unwound, Leave, Go, Stages
  <2>2. shown' \in [Messages -> Faces]
    BY DEF IInv, TypeOK, Unwound, ShowLast, ShowEnd, Show, Faces
  <2>3. button' \in [Messages -> Handlers \cup {None}]
    BY DEF IInv, TypeOK, Unwound, ShowLast, ShowEnd
  <2>4. registry' \in [Messages -> AtMostOne(Handlers)]
    BY DEF IInv, TypeOK, Unwound, Unregister, AtMostOne
  <2> QED
    BY <1>1, <2>1, <2>2, <2>3, <2>4 DEF IInv, TypeOK, StoreType, Unregister, Unwound
<1>3. AtInv'
  BY RequestsAssumption DEF IInv, TypeOK, AtInv, Unwound, Leave, Go, Tasks
<1>4. RegistryInv'
  <2>1. /\ Unregister(j) /\ home' = home /\ pc[j] \in Tasks \cup {"unwinding"}
        /\ pc'[j] \notin Tasks \cup {"unwinding"} /\ \A k \in Handlers \ {j} : pc'[k] = pc[k]
    BY DEF IInv, TypeOK, Unwound, Unregister, Leave, Go, Tasks
  <2> QED
    BY <2>1, RegistryEnds DEF IInv
<1>5. WorkInv'
  <2>1. OffersStay
    BY DEF IInv, TypeOK, Unwound, ShowLast, ShowEnd, Show, OffersStay
  <2>2. Moves(j, "done")
    BY StoreLeft DEF IInv, TypeOK, Unwound, Moves, Working, Before
  <2>3. offer[j] \in Handlers => retry'[offer[j]] # "running"
    BY StoreLeft DEF Unwound, Live
  <2> QED
    BY <1>1, <2>1, <2>2, <2>3, WorkKept DEF IInv, Stages
<1>6. ButtonInv'
  BY DEF IInv, TypeOK, ButtonInv, Unwound, ShowLast, ShowEnd, Show
<1> QED
  BY <1>1, <1>2, <1>3, <1>4, <1>5, <1>6 DEF IInv

LEMMA LateToldKeeps ==
  ASSUME IInv, NEW j \in Handlers, LateTold(j)
  PROVE  IInv'
<1>1. StoreType' /\ StoreInv' /\ StoreMoves(j)
  BY StoreLeft DEF LateTold
<1>2. TypeOK'
  <2>1. pc' \in [Handlers -> Stages]
    BY DEF IInv, TypeOK, LateTold, Leave, Go, Stages
  <2>2. shown' \in [Messages -> Faces]
    BY DEF IInv, TypeOK, LateTold, ShowLast, ShowEnd, Show, Faces
  <2>3. button' \in [Messages -> Handlers \cup {None}]
    BY DEF IInv, TypeOK, LateTold, ShowLast, ShowEnd
  <2> QED
    BY <1>1, <2>1, <2>2, <2>3 DEF IInv, TypeOK, StoreType, LateTold
<1>3. AtInv'
  BY RequestsAssumption DEF IInv, TypeOK, AtInv, LateTold, Leave, Go, Tasks
<1>4. RegistryInv'
  <2>1. registry' = registry /\ crossed' = crossed
    BY DEF LateTold
  <2>2. \A k \in Handlers : RegistryStays(k)
    BY DEF IInv, TypeOK, AtInv, LateTold, Leave, Go, RegistryStays, Tasks
  <2> QED
    BY <2>1, <2>2, RegistryKept DEF IInv
<1>5. WorkInv'
  <2>1. OffersStay
    BY DEF IInv, TypeOK, LateTold, ShowLast, ShowEnd, Show, OffersStay
  <2>2. Moves(j, "done")
    BY StoreLeft DEF IInv, TypeOK, LateTold, Moves, Working, Before
  <2>3. offer[j] \in Handlers => retry'[offer[j]] # "running"
    BY StoreLeft DEF LateTold, Live
  <2> QED
    BY <1>1, <2>1, <2>2, <2>3, WorkKept DEF IInv, Stages
<1>6. ButtonInv'
  BY DEF IInv, TypeOK, ButtonInv, LateTold, ShowLast, ShowEnd, Show
<1> QED
  BY <1>1, <1>2, <1>3, <1>4, <1>5, <1>6 DEF IInv

LEMMA UnwindKeeps ==
  ASSUME IInv, NEW j \in Handlers, Unwind(j)
  PROVE  IInv'
<1>1. StoreType' /\ StoreInv' /\ StoreMoves(j)
  BY StoreLeft, StoreStays DEF IInv, Unwind
<1>2. TypeOK'
  <2>1. pc' \in [Handlers -> Stages]
    BY DEF IInv, TypeOK, Unwind, Leave, Go, Stages
  <2>2. reached' \in [Handlers -> BOOLEAN]
    BY DEF IInv, TypeOK, Unwind
  <2>3. doomed' \in [Handlers -> BOOLEAN]
    BY DEF IInv, TypeOK, Unwind
  <2>4. shown' \in [Messages -> Faces]
    BY DEF IInv, TypeOK, Unwind, ShowEnd, Show, Faces
  <2>5. button' \in [Messages -> Handlers \cup {None}]
    BY DEF IInv, TypeOK, Unwind, ShowEnd
  <2>6. registry' \in [Messages -> AtMostOne(Handlers)]
    BY DEF IInv, TypeOK, Unwind, Unregister, AtMostOne
  <2> QED
    BY <1>1, <2>1, <2>2, <2>3, <2>4, <2>5, <2>6 DEF IInv, TypeOK, StoreType, Unregister, Unwind
<1>3. AtInv'
  BY RequestsAssumption DEF IInv, TypeOK, AtInv, Unwind, Leave, Go, Tasks
<1>4. RegistryInv'
  <2>1. CASE reached[j]
    <3>1. /\ Unregister(j) /\ home' = home /\ pc[j] \in Tasks \cup {"unwinding"}
          /\ pc'[j] \notin Tasks \cup {"unwinding"} /\ \A k \in Handlers \ {j} : pc'[k] = pc[k]
      BY <2>1 DEF IInv, TypeOK, Unwind, Leave, Go, Tasks
    <3> QED
      BY <3>1, RegistryEnds DEF IInv
  <2>2. CASE ~reached[j]
    <3>1. registry' = registry /\ crossed' = crossed
      BY <2>2 DEF Unwind
    <3>2. \A k \in Handlers : RegistryStays(k)
      BY <2>2 DEF IInv, TypeOK, Unwind, Go, RegistryStays, Tasks
    <3> QED
      BY <3>1, <3>2, RegistryKept DEF IInv
  <2> QED
    BY <2>1, <2>2
<1>5. WorkInv'
  <2>1. OffersStay
    BY DEF IInv, TypeOK, Unwind, ShowEnd, Show, OffersStay
  <2>2. CASE Leave(j)
    <3>1. Moves(j, "done")
      BY <2>2, StoreLeft DEF IInv, TypeOK, Unwind, Tasks, Moves, Working, Before
    <3>2. offer[j] \in Handlers => retry'[offer[j]] # "running"
      BY <2>2, StoreLeft DEF Live
    <3> QED
      BY <1>1, <2>1, <3>1, <3>2, WorkKept DEF IInv, Stages
  <2>3. CASE Go(j, "unwinding")
    <3>1. Moves(j, "unwinding") /\ Working(j)'
      BY <2>3 DEF IInv, TypeOK, Unwind, Tasks, Go, Moves, Working, Before
    <3> QED
      BY <1>1, <2>1, <3>1, WorkKept DEF IInv, Stages
  <2> QED
    BY <2>2, <2>3 DEF Unwind
<1>6. ButtonInv'
  BY DEF IInv, TypeOK, ButtonInv, Unwind, ShowEnd, Show
<1> QED
  BY <1>1, <1>2, <1>3, <1>4, <1>5, <1>6 DEF IInv

LEMMA ToastedKeeps ==
  ASSUME IInv, NEW j \in Handlers, Toasted(j)
  PROVE  IInv'
<1>1. StoreType' /\ StoreInv' /\ StoreMoves(j)
  BY StoreStays DEF IInv, Toasted
<1>2. TypeOK'
  <2>1. pc' \in [Handlers -> Stages]
    BY DEF IInv, TypeOK, Toasted, Go, Stages
  <2>2. at' \in [Handlers -> Messages \cup {None}]
    BY DEF IInv, TypeOK, Toasted, AtInv, Go
  <2>3. reached' \in [Handlers -> BOOLEAN]
    BY DEF IInv, TypeOK, Toasted, Go
  <2> QED
    BY <1>1, <2>1, <2>2, <2>3 DEF IInv, TypeOK, StoreType, Toasted
<1>3. AtInv'
  BY RequestsAssumption DEF IInv, TypeOK, AtInv, Toasted, Go, Tasks
<1>4. RegistryInv'
  <2>1. registry' = registry /\ crossed' = crossed
    BY DEF Toasted
  <2>2. \A k \in Handlers : RegistryStays(k)
    BY DEF IInv, TypeOK, AtInv, Toasted, Go, RegistryStays, Tasks
  <2> QED
    BY <2>1, <2>2, RegistryKept DEF IInv
<1>5. WorkInv'
  <2>1. OffersStay
    BY DEF Toasted, OffersStay
  <2>2. offer[j] = None
    BY DEF IInv, WorkInv, OfferInv, Toasted
  <2>3. ASSUME NEW stage \in {"done", "late"}, Go(j, stage)
        PROVE  Moves(j, stage)
    BY <2>2, <2>3 DEF IInv, TypeOK, Toasted, Moves, Working, Before
  <2>4. \E stage \in Stages : Moves(j, stage)
    BY <2>3 DEF Toasted, Stages
  <2> QED
    BY <1>1, <2>1, <2>2, <2>4, WorkKept, RequestsAssumption DEF IInv
<1>6. ButtonInv'
  BY DEF IInv, TypeOK, ButtonInv, Toasted
<1> QED
  BY <1>1, <1>2, <1>3, <1>4, <1>5, <1>6 DEF IInv

LEMMA StoreQuestionKeeps ==
  ASSUME IInv, NEW j \in Handlers, StoreQuestion(j)
  PROVE  IInv'
<1>1. StoreType' /\ StoreInv' /\ StoreMoves(j)
  BY StoreStays DEF IInv, StoreQuestion
<1>2. TypeOK'
  <2>1. pc' \in [Handlers -> Stages]
    BY DEF IInv, TypeOK, StoreQuestion, Go, Stages
  <2>2. confirm' \in [Messages -> BOOLEAN]
    BY DEF IInv, TypeOK, StoreQuestion
  <2> QED
    BY <1>1, <2>1, <2>2 DEF IInv, TypeOK, StoreType, StoreQuestion
<1>3. AtInv'
  BY RequestsAssumption DEF IInv, TypeOK, AtInv, StoreQuestion, Go, Tasks
<1>4. RegistryInv'
  <2>1. registry' = registry /\ crossed' = crossed
    BY DEF StoreQuestion
  <2>2. \A k \in Handlers : RegistryStays(k)
    BY DEF IInv, TypeOK, AtInv, StoreQuestion, Go, RegistryStays, Tasks
  <2> QED
    BY <2>1, <2>2, RegistryKept DEF IInv
<1>5. WorkInv'
  <2>1. /\ at[j] \in Messages /\ shown[at[j]] # "nothing"
        /\ \A k \in Handlers : offer[k] # at[j] /\ (pc[k] = "offering" /\ at[k] = at[j] => k = j)
    BY DEF IInv, AtInv, WorkInv, QuestionInv, StoreQuestion
  <2>2. /\ offer' = offer /\ retry' = retry /\ shown' = shown /\ at' = at
        /\ \A m \in Messages : confirm'[m] = (confirm[m] \/ m = at[j])
        /\ pc[j] = "offering" /\ pc'[j] = "done"
        /\ \A k \in Handlers \ {j} : pc'[k] = pc[k]
    BY DEF IInv, TypeOK, StoreQuestion, Go, store
  <2>3. \A k \in Handlers : Working(k)' <=> Working(k)
    BY <2>2 DEF Working
  <2>4. OfferInv'
    <3>1. \A m \in Messages : confirm'[m] => shown'[m] # "nothing"
      BY <2>1, <2>2 DEF IInv, WorkInv, OfferInv
    <3>2. \A k \in Handlers : offer[k] \in Messages => ~confirm'[offer[k]]
      BY <2>1, <2>2 DEF IInv, WorkInv, OfferInv
    <3> QED
      BY <2>2, <2>3, <3>1, <3>2 DEF IInv, WorkInv, OfferInv, Before
  <2>5. QuestionInv'
    <3>1. \A k \in Handlers : pc'[k] = "offering" => /\ k # j /\ pc[k] = "offering"
                                                   /\ at[k] \in Messages /\ at[k] # at[j]
      BY <2>1, <2>2 DEF IInv, AtInv
    <3> QED
      BY <2>2, <3>1 DEF IInv, WorkInv, QuestionInv
  <2>6. OneRunPerOffer'
    BY <2>2, <2>3 DEF IInv, WorkInv, OneRunPerOffer
  <2>7. RunningIsRun'
    BY <2>2, <2>3 DEF IInv, WorkInv, RunningIsRun
  <2> QED
    BY <2>4, <2>5, <2>6, <2>7 DEF WorkInv
<1>6. ButtonInv'
  BY DEF IInv, TypeOK, ButtonInv, StoreQuestion
<1> QED
  BY <1>1, <1>2, <1>3, <1>4, <1>5, <1>6 DEF IInv

LEMMA LinkGetsQuestionKeeps ==
  ASSUME IInv, NEW j \in Handlers, LinkGetsQuestion(j)
  PROVE  IInv'
<1>1. StoreType' /\ StoreInv' /\ StoreMoves(j)
  BY StoreStays DEF IInv, LinkGetsQuestion
<1>2. TypeOK'
  <2>1. pc' \in [Handlers -> Stages]
    BY DEF IInv, TypeOK, LinkGetsQuestion, Go, Stages
  <2>2. at' \in [Handlers -> Messages \cup {None}]
    BY DEF IInv, TypeOK, LinkGetsQuestion
  <2>3. shown' \in [Messages -> Faces]
    BY DEF IInv, TypeOK, LinkGetsQuestion, Show, Faces
  <2> QED
    BY <1>1, <2>1, <2>2, <2>3 DEF IInv, TypeOK, StoreType, LinkGetsQuestion
<1>3. AtInv'
  BY RequestsAssumption DEF IInv, TypeOK, AtInv, LinkGetsQuestion, Go, Tasks
<1>4. RegistryInv'
  <2>1. registry' = registry /\ crossed' = crossed
    BY DEF LinkGetsQuestion
  <2>2. \A k \in Handlers : RegistryStays(k)
    BY DEF IInv, TypeOK, AtInv, LinkGetsQuestion, Go, RegistryStays, Tasks
  <2> QED
    BY <2>1, <2>2, RegistryKept DEF IInv
<1>5. WorkInv'
  <2>1. PICK m \in Messages : /\ shown[m] = "nothing" /\ Show(m, "confirm")
                             /\ at' = [at EXCEPT ![j] = m]
    BY DEF LinkGetsQuestion, Fresh
  <2>2. /\ offer' = offer /\ retry' = retry /\ confirm' = confirm
        /\ shown' = [n \in Messages |-> IF n = m THEN "confirm" ELSE shown[n]]
        /\ pc[j] = "idle" /\ pc'[j] = "offering" /\ at'[j] = m
        /\ \A k \in Handlers \ {j} : pc'[k] = pc[k] /\ at'[k] = at[k]
    BY <2>1 DEF IInv, TypeOK, LinkGetsQuestion, Go, Show, store
  <2>3. \A k \in Handlers : Working(k)' <=> Working(k)
    BY <2>2 DEF Working
  <2>4. ~confirm[m] /\ \A k \in Handlers : offer[k] # m
    BY <2>1 DEF IInv, WorkInv, OfferInv
  <2>5. \A k \in Handlers : pc[k] = "offering" => at[k] \in Messages /\ at[k] # m
    BY <2>1 DEF IInv, AtInv, WorkInv, QuestionInv
  <2>6. OfferInv'
    BY <2>2, <2>3 DEF IInv, WorkInv, OfferInv, Before
  <2>7. QuestionInv'
    <3> SUFFICES ASSUME NEW k \in Handlers, pc'[k] = "offering"
        PROVE  /\ shown'[at'[k]] # "nothing" /\ ~confirm'[at'[k]]
               /\ \A i \in Handlers : /\ offer'[i] # at'[k]
                                      /\ pc'[i] = "offering" /\ at'[i] = at'[k] => i = k
      BY DEF QuestionInv
    <3>1. CASE k = j
      BY <3>1, <2>2, <2>4, <2>5
    <3>2. CASE k # j
      BY <3>2, <2>2, <2>5 DEF IInv, WorkInv, QuestionInv
    <3> QED
      BY <3>1, <3>2
  <2>8. OneRunPerOffer' /\ RunningIsRun'
    BY <2>2, <2>3 DEF IInv, WorkInv, OneRunPerOffer, RunningIsRun
  <2> QED
    BY <2>6, <2>7, <2>8 DEF WorkInv
<1>6. ButtonInv'
  BY DEF IInv, TypeOK, ButtonInv, LinkGetsQuestion, Show
<1> QED
  BY <1>1, <1>2, <1>3, <1>4, <1>5, <1>6 DEF IInv

LEMMA PressConfirmKeeps ==
  ASSUME IInv, NEW j \in Handlers, PressConfirm(j)
  PROVE  IInv'
<1>1. StoreType' /\ StoreInv' /\ StoreMoves(j)
  BY StoreStays DEF IInv, PressConfirm
<1>2. TypeOK'
  <2>1. pc' \in [Handlers -> Stages]
    BY DEF IInv, TypeOK, PressConfirm, Go, Stages
  <2>2. at' \in [Handlers -> Messages \cup {None}]
    BY DEF IInv, TypeOK, PressConfirm
  <2>3. offer' \in [Handlers -> Handlers \cup Messages \cup {None}]
    BY DEF IInv, TypeOK, PressConfirm
  <2>4. confirm' \in [Messages -> BOOLEAN]
    BY DEF IInv, TypeOK, PressConfirm
  <2> QED
    BY <1>1, <2>1, <2>2, <2>3, <2>4 DEF IInv, TypeOK, StoreType, PressConfirm
<1>3. AtInv'
  BY RequestsAssumption DEF IInv, TypeOK, AtInv, PressConfirm, Go, Tasks
<1>4. RegistryInv'
  <2>1. registry' = registry /\ crossed' = crossed
    BY DEF PressConfirm
  <2>2. \A k \in Handlers : RegistryStays(k)
    BY DEF IInv, TypeOK, AtInv, PressConfirm, Go, RegistryStays, Tasks
  <2> QED
    BY <2>1, <2>2, RegistryKept DEF IInv
<1>5. WorkInv'
  <2>1. PICK m \in Messages :
          /\ shown[m] = "confirm" /\ confirm[m]
          /\ confirm' = [confirm EXCEPT ![m] = FALSE]
          /\ at' = [at EXCEPT ![j] = m]
          /\ \/ Go(j, "starting") /\ offer' = [offer EXCEPT ![j] = m]
             \/ Go(j, "late") /\ UNCHANGED offer
    BY DEF PressConfirm
  <2>2. /\ retry' = retry /\ shown' = shown /\ pc[j] = "idle" /\ offer[j] = None
        /\ \A n \in Messages : confirm'[n] => confirm[n]
        /\ ~confirm'[m]
        /\ \A k \in Handlers \ {j} : at'[k] = at[k]
    BY <2>1 DEF IInv, TypeOK, WorkInv, OfferInv, PressConfirm, store
  <2>3. CASE Go(j, "late") /\ UNCHANGED offer
    <3>1. OffersStay
      BY <2>2, <2>3 DEF OffersStay
    <3>2. Moves(j, "late") /\ Working(j)'
      BY <2>2, <2>3 DEF IInv, TypeOK, Go, Moves, Working, Before
    <3> QED
      BY <1>1, <3>1, <3>2, WorkKept DEF IInv, Stages
  <2>4. CASE Go(j, "starting") /\ offer' = [offer EXCEPT ![j] = m]
    <3>1. /\ offer'[j] = m /\ pc'[j] = "starting" /\ m \notin Handlers /\ m # None
          /\ \A k \in Handlers \ {j} : offer'[k] = offer[k] /\ pc'[k] = pc[k]
      BY <2>4, RequestsAssumption DEF IInv, TypeOK, Go
    <3>2. /\ Working(j)' /\ ~Working(j)
          /\ \A k \in Handlers \ {j} : Working(k)' <=> Working(k)
      BY <2>2, <3>1 DEF Working
    <3>3. \A k \in Handlers : offer[k] # m
      BY <2>1 DEF IInv, WorkInv, OfferInv
    <3>4. OfferInv'
      <4>1. \A n \in Messages : confirm'[n] => shown'[n] # "nothing"
        BY <2>2 DEF IInv, WorkInv, OfferInv
      <4> SUFFICES ASSUME NEW k \in Handlers
          PROVE  /\ pc'[k] \in {"idle", "offering", "toasting"} => offer'[k] = None
                 /\ offer'[k] \in Messages => ~confirm'[offer'[k]] /\ shown'[offer'[k]] # "nothing"
                 /\ offer'[k] \in Handlers => retry'[offer'[k]] # "none"
                 /\ offer'[k] \in Handlers /\ Working(k)' => retry'[offer'[k]] # "idle"
                 /\ pc'[k] \in Before => retry'[k] = "none"
        BY <4>1 DEF OfferInv
      <4>2. CASE k = j
        BY <4>2, <2>1, <2>2, <3>1 DEF IInv, WorkInv, OfferInv, Before
      <4>3. CASE k # j
        BY <4>3, <2>2, <3>1, <3>2 DEF IInv, WorkInv, OfferInv
      <4> QED
        BY <4>2, <4>3
    <3>5. QuestionInv'
      <4>1. \A k \in Handlers : pc'[k] = "offering" => /\ k # j /\ pc[k] = "offering"
                                                     /\ at[k] \in Messages /\ at[k] # m
        <5> TAKE k \in Handlers
        <5> HAVE pc'[k] = "offering"
        <5>1. k # j /\ pc[k] = "offering"
          BY <3>1
        <5>2. ~confirm[at[k]]
          BY <5>1 DEF IInv, WorkInv, QuestionInv
        <5>3. at[k] # m
          BY <2>1, <5>2
        <5> QED
          BY <5>1, <5>3 DEF IInv, AtInv
      <4> QED
        BY <2>2, <3>1, <4>1 DEF IInv, WorkInv, QuestionInv
    <3>6. OneRunPerOffer'
      BY <3>1, <3>2, <3>3 DEF IInv, WorkInv, OneRunPerOffer
    <3>7. RunningIsRun'
      BY <2>2, <3>1, <3>2 DEF IInv, WorkInv, RunningIsRun
    <3> QED
      BY <3>4, <3>5, <3>6, <3>7 DEF WorkInv
  <2> QED
    BY <2>1, <2>3, <2>4
<1>6. ButtonInv'
  BY DEF IInv, TypeOK, ButtonInv, PressConfirm
<1> QED
  BY <1>1, <1>2, <1>3, <1>4, <1>5, <1>6 DEF IInv

LEMMA PressRetryKeeps ==
  ASSUME IInv, NEW j \in Handlers, PressRetry(j)
  PROVE  IInv'
<1>1. StoreType' /\ StoreInv'
  <2>1. /\ retry' \in [Handlers -> Live \cup {"none", "spent", "refused", "lapsed", "dropped"}]
        /\ key' = key /\ byMsg' = byMsg
    BY DEF IInv, TypeOK, PressRetry, Live
  <2>2. \A k \in Handlers : retry'[k] = retry[k] \/ (retry[k] \in Live /\ retry'[k] \in Live)
    BY DEF IInv, TypeOK, PressRetry, Live
  <2> QED
    BY <2>1, <2>2, StoreMarks DEF IInv
<1>2. TypeOK'
  <2>1. pc' \in [Handlers -> Stages]
    BY DEF IInv, TypeOK, PressRetry, Go, Stages
  <2>2. at' \in [Handlers -> Messages \cup {None}]
    BY DEF IInv, TypeOK, PressRetry
  <2>3. offer' \in [Handlers -> Handlers \cup Messages \cup {None}]
    BY DEF Lookup, AtMostOne, IInv, TypeOK, PressRetry
  <2> QED
    BY <1>1, <2>1, <2>2, <2>3 DEF IInv, TypeOK, StoreType, PressRetry
<1>3. AtInv'
  BY RequestsAssumption DEF IInv, TypeOK, AtInv, PressRetry, Go, Tasks
<1>4. RegistryInv'
  <2>1. registry' = registry /\ crossed' = crossed
    BY DEF PressRetry
  <2>2. \A k \in Handlers : RegistryStays(k)
    BY DEF IInv, TypeOK, AtInv, PressRetry, Go, RegistryStays, Tasks
  <2> QED
    BY <2>1, <2>2, RegistryKept DEF IInv
<1>5. WorkInv'
  <2> PICK m \in Messages : \E i \in Lookup(m) :
          /\ retry[i] = "idle"
          /\ retry' = [retry EXCEPT ![i] = "running"]
          /\ offer' = [offer EXCEPT ![j] = i]
          /\ at' = [at EXCEPT ![j] = m]
    BY DEF PressRetry
  <2>1. PICK i \in Lookup(m) :
          /\ retry[i] = "idle"
          /\ retry' = [retry EXCEPT ![i] = "running"]
          /\ offer' = [offer EXCEPT ![j] = i]
          /\ at' = [at EXCEPT ![j] = m]
    OBVIOUS
  <2>2. i \in Handlers /\ i \notin Messages /\ i # None
    BY RequestsAssumption DEF IInv, TypeOK, AtMostOne, Lookup
  <2>3. /\ shown' = shown /\ confirm' = confirm
        /\ pc[j] = "idle" /\ pc'[j] = "starting" /\ offer'[j] = i
        /\ \A k \in Handlers \ {j} : pc'[k] = pc[k] /\ at'[k] = at[k] /\ offer'[k] = offer[k]
        /\ retry'[i] = "running" /\ \A k \in Handlers \ {i} : retry'[k] = retry[k]
    BY <2>1, <2>2 DEF IInv, TypeOK, PressRetry, Go
  <2>4. /\ Working(j)' /\ ~Working(j)
        /\ \A k \in Handlers \ {j} : Working(k)' <=> Working(k)
    BY <2>3 DEF Working
  <2>5. OfferInv'
    <3>1. \A n \in Messages : confirm'[n] => shown'[n] # "nothing"
      BY <2>3 DEF IInv, WorkInv, OfferInv
    <3> SUFFICES ASSUME NEW k \in Handlers
        PROVE  /\ pc'[k] \in {"idle", "offering", "toasting"} => offer'[k] = None
               /\ offer'[k] \in Messages => ~confirm'[offer'[k]] /\ shown'[offer'[k]] # "nothing"
               /\ offer'[k] \in Handlers => retry'[offer'[k]] # "none"
               /\ offer'[k] \in Handlers /\ Working(k)' => retry'[offer'[k]] # "idle"
               /\ pc'[k] \in Before => retry'[k] = "none"
      BY <3>1 DEF OfferInv
    <3>2. pc'[k] \in Before => retry'[k] = "none"
      <4>1. pc'[k] \in Before => retry[k] = "none"
        BY <2>3 DEF IInv, WorkInv, OfferInv, Before
      <4> QED
        BY <4>1, <2>1, <2>3
    <3>3. CASE k = j
      BY <3>2, <3>3, <2>2, <2>3
    <3>4. CASE k # j
      BY <3>2, <3>4, <2>2, <2>3, <2>4 DEF IInv, WorkInv, OfferInv
    <3> QED
      BY <3>3, <3>4
  <2>6. QuestionInv'
    <3>1. \A k \in Handlers : pc'[k] = "offering" => /\ k # j /\ pc[k] = "offering"
                                                   /\ at[k] \in Messages /\ at[k] # i
      BY <2>2, <2>3 DEF IInv, AtInv
    <3> QED
      BY <2>3, <3>1 DEF IInv, WorkInv, QuestionInv
  <2>7. OneRunPerOffer'
    <3>1. \A k \in Handlers : Working(k) => offer[k] # i
      BY <2>1, <2>2 DEF IInv, WorkInv, OfferInv
    <3> QED
      BY <2>3, <2>4, <3>1 DEF IInv, WorkInv, OneRunPerOffer
  <2>8. RunningIsRun'
    <3> SUFFICES ASSUME NEW h \in Handlers, retry'[h] = "running"
        PROVE  \E k \in Handlers : offer'[k] = h /\ Working(k)'
      BY DEF RunningIsRun
    <3>1. CASE h = i
      BY <3>1, <2>3, <2>4
    <3>2. CASE h # i
      <4>1. PICK k \in Handlers : offer[k] = h /\ Working(k)
        BY <3>2, <2>3 DEF IInv, WorkInv, RunningIsRun
      <4> QED
        BY <4>1, <2>3, <2>4
    <3> QED
      BY <3>1, <3>2
  <2> QED
    BY <2>5, <2>6, <2>7, <2>8 DEF WorkInv
<1>6. ButtonInv'
  BY DEF IInv, TypeOK, ButtonInv, PressRetry
<1> QED
  BY <1>1, <1>2, <1>3, <1>4, <1>5, <1>6 DEF IInv

LEMMA StartFailsKeeps ==
  ASSUME IInv, NEW j \in Handlers, StartFails(j)
  PROVE  IInv'
<1>1. StoreType' /\ StoreInv'
  <2>1. /\ retry' \in [Handlers -> Live \cup {"none", "spent", "refused", "lapsed", "dropped"}]
        /\ key' = key /\ byMsg' = byMsg
    BY DEF IInv, TypeOK, StartFails, Live
  <2>2. \A k \in Handlers : retry'[k] = retry[k] \/ (retry[k] \in Live /\ retry'[k] \in Live)
    BY DEF IInv, TypeOK, StartFails, Live
  <2> QED
    BY <2>1, <2>2, StoreMarks DEF IInv
<1>2. TypeOK'
  <2>1. pc' \in [Handlers -> Stages]
    BY DEF IInv, TypeOK, StartFails, Go, Stages
  <2> QED
    BY <1>1, <2>1 DEF IInv, TypeOK, StoreType, StartFails
<1>3. AtInv'
  BY RequestsAssumption DEF IInv, TypeOK, AtInv, StartFails, Go, Tasks
<1>4. RegistryInv'
  <2>1. registry' = registry /\ crossed' = crossed
    BY DEF StartFails
  <2>2. \A k \in Handlers : RegistryStays(k)
    BY DEF IInv, TypeOK, AtInv, StartFails, Go, RegistryStays, Tasks
  <2> QED
    BY <2>1, <2>2, RegistryKept DEF IInv
<1>5. WorkInv'
  <2>1. /\ shown' = shown /\ confirm' = confirm /\ offer' = offer /\ at' = at
        /\ pc[j] = "starting" /\ pc'[j] = (IF offer[j] = None THEN "late" ELSE "done")
        /\ \A k \in Handlers \ {j} : pc'[k] = pc[k]
    BY DEF IInv, TypeOK, StartFails, Go
  <2>2. \A i \in Handlers : retry'[i] = (IF i = offer[j] /\ retry[i] = "running"
                                         THEN "idle" ELSE retry[i])
    BY DEF StartFails
  <2>3. /\ Working(j) /\ (Working(j)' => offer[j] = None)
        /\ \A k \in Handlers \ {j} : Working(k)' <=> Working(k)
    BY <2>1 DEF Working
  <2>4. \A k \in Handlers : Working(k)' => offer[k] = None \/ offer[k] # offer[j]
    BY <2>3 DEF IInv, WorkInv, OneRunPerOffer
  <2>5. OfferInv'
    <3>1. \A n \in Messages : confirm'[n] => shown'[n] # "nothing"
      BY <2>1 DEF IInv, WorkInv, OfferInv
    <3> SUFFICES ASSUME NEW k \in Handlers
        PROVE  /\ pc'[k] \in {"idle", "offering", "toasting"} => offer'[k] = None
               /\ offer'[k] \in Messages => ~confirm'[offer'[k]] /\ shown'[offer'[k]] # "nothing"
               /\ offer'[k] \in Handlers => retry'[offer'[k]] # "none"
               /\ offer'[k] \in Handlers /\ Working(k)' => retry'[offer'[k]] # "idle"
               /\ pc'[k] \in Before => retry'[k] = "none"
      BY <3>1 DEF OfferInv
    <3>2. pc'[k] \in {"idle", "offering", "toasting"} => offer'[k] = None
      BY <2>1 DEF IInv, WorkInv, OfferInv
    <3>3. offer'[k] \in Messages => ~confirm'[offer'[k]] /\ shown'[offer'[k]] # "nothing"
      BY <2>1 DEF IInv, WorkInv, OfferInv
    <3>4. offer'[k] \in Handlers => retry'[offer'[k]] # "none"
      BY <2>1, <2>2 DEF IInv, WorkInv, OfferInv
    <3>5. offer'[k] \in Handlers /\ Working(k)' => retry'[offer'[k]] # "idle"
      <4> SUFFICES ASSUME offer[k] \in Handlers, Working(k)'
          PROVE  retry'[offer[k]] # "idle"
        BY <2>1
      <4>1. offer[k] # offer[j]
        BY <2>4, RequestsAssumption
      <4>2. Working(k)
        BY <2>3
      <4> QED
        BY <2>2, <4>1, <4>2 DEF IInv, WorkInv, OfferInv
    <3>6. pc'[k] \in Before => retry'[k] = "none"
      BY <2>1, <2>2 DEF IInv, WorkInv, OfferInv, Before
    <3> QED
      BY <3>2, <3>3, <3>4, <3>5, <3>6
  <2>6. QuestionInv'
    <3>1. \A k \in Handlers : pc'[k] = "offering" => pc[k] = "offering"
      BY <2>1
    <3> QED
      BY <2>1, <3>1 DEF IInv, WorkInv, QuestionInv
  <2>7. OneRunPerOffer'
    <3>1. \A k \in Handlers : Working(k)' => Working(k)
      BY <2>3
    <3> QED
      BY <2>1, <3>1 DEF IInv, WorkInv, OneRunPerOffer
  <2>8. RunningIsRun'
    <3> SUFFICES ASSUME NEW h \in Handlers, retry'[h] = "running"
        PROVE  \E k \in Handlers : offer'[k] = h /\ Working(k)'
      BY DEF RunningIsRun
    <3>1. retry[h] = "running" /\ h # offer[j]
      BY <2>2
    <3>2. PICK k \in Handlers : offer[k] = h /\ Working(k)
      BY <3>1 DEF IInv, WorkInv, RunningIsRun
    <3> QED
      BY <3>1, <3>2, <2>1, <2>3
  <2> QED
    BY <2>5, <2>6, <2>7, <2>8 DEF WorkInv
<1>6. ButtonInv'
  BY DEF IInv, TypeOK, ButtonInv, StartFails
<1> QED
  BY <1>1, <1>2, <1>3, <1>4, <1>5, <1>6 DEF IInv

LEMMA RetryLapsesKeeps ==
  ASSUME IInv, NEW j \in Handlers, RetryLapses(j)
  PROVE  IInv'
<1>1. StoreType' /\ StoreInv' /\ StoreMoves(j)
  BY StoreForget DEF IInv, RetryLapses
<1>2. TypeOK'
  BY <1>1 DEF IInv, TypeOK, StoreType, RetryLapses, handlers
<1>3. AtInv'
  BY RequestsAssumption DEF IInv, TypeOK, AtInv, RetryLapses, handlers, Tasks
<1>4. RegistryInv'
  <2>1. registry' = registry /\ crossed' = crossed
    BY DEF RetryLapses
  <2>2. \A k \in Handlers : RegistryStays(k)
    BY DEF IInv, TypeOK, AtInv, RetryLapses, handlers, RegistryStays, Tasks
  <2> QED
    BY <2>1, <2>2, RegistryKept DEF IInv
<1>5. WorkInv'
  <2>1. OffersStay
    BY DEF RetryLapses, handlers, OffersStay
  <2>2. pc' = pc /\ at' = at /\ retry[j] \in Live
    BY DEF RetryLapses, handlers
  <2> QED
    BY <1>1, <2>1, <2>2, WorkKept DEF IInv
<1>6. ButtonInv'
  BY DEF IInv, TypeOK, ButtonInv, RetryLapses
<1> QED
  BY <1>1, <1>2, <1>3, <1>4, <1>5, <1>6 DEF IInv

LEMMA ConfirmLapsesKeeps ==
  ASSUME IInv, NEW m \in Messages, ConfirmLapses(m)
  PROVE  IInv'
<1>1. StoreType' /\ StoreInv'
  BY StoreStays DEF IInv, ConfirmLapses
<1>2. TypeOK'
  BY <1>1 DEF IInv, TypeOK, StoreType, ConfirmLapses, handlers
<1>3. AtInv'
  BY DEF IInv, AtInv, ConfirmLapses, handlers
<1>4. RegistryInv'
  BY DEF IInv, RegistryInv, RegistryIsLive, CancelFindsTheRun, ApartInv, InFlight, ConfirmLapses,
         handlers
<1>5. WorkInv'
  <2>1. /\ pc' = pc /\ at' = at /\ offer' = offer /\ shown' = shown /\ retry' = retry
        /\ \A n \in Messages : confirm'[n] => confirm[n]
    BY DEF IInv, TypeOK, ConfirmLapses, handlers, store
  <2>2. \A k \in Handlers : Working(k)' <=> Working(k)
    BY <2>1 DEF Working
  <2>3. OfferInv'
    BY <2>1, <2>2 DEF IInv, WorkInv, OfferInv
  <2>4. QuestionInv'
    BY <2>1 DEF IInv, AtInv, WorkInv, QuestionInv
  <2>5. OneRunPerOffer' /\ RunningIsRun'
    BY <2>1, <2>2 DEF IInv, WorkInv, OneRunPerOffer, RunningIsRun
  <2> QED
    BY <2>3, <2>4, <2>5 DEF WorkInv
<1>6. ButtonInv'
  BY DEF IInv, ButtonInv, ConfirmLapses
<1> QED
  BY <1>1, <1>2, <1>3, <1>4, <1>5, <1>6 DEF IInv

-----------------------------------------------------------------------------
\* The theorems.

LEMMA InitHolds == Init => IInv
<1> SUFFICES ASSUME Init
    PROVE  IInv
  OBVIOUS
<1>1. TypeOK
  BY DEF Init, TypeOK, Stages, Ends, Faces, AtMostOne
<1>2. AtInv /\ ButtonInv
  BY DEF Init, AtInv, ButtonInv, Tasks
<1>3. RegistryInv
  BY DEF Init, RegistryInv, RegistryIsLive, CancelFindsTheRun, ApartInv, InFlight, Tasks
<1>4. OfferInv
  BY RequestsAssumption DEF Init, OfferInv, Working
<1>5. QuestionInv /\ OneRunPerOffer /\ RunningIsRun
  BY DEF Init, QuestionInv, OneRunPerOffer, RunningIsRun, Working
<1>6. StoreInv
  BY DEF Init, StoreInv, IndexesAgree, KeyInv, Live
<1> QED
  BY <1>1, <1>2, <1>3, <1>4, <1>5, <1>6 DEF IInv, WorkInv

LEMMA StutterKeeps ==
  ASSUME IInv, UNCHANGED vars
  PROVE  IInv'
<1>1. TypeOK' /\ AtInv' /\ ButtonInv'
  BY DEF IInv, TypeOK, AtInv, ButtonInv, vars, handlers, store
<1>2. RegistryInv'
  BY DEF IInv, RegistryInv, RegistryIsLive, CancelFindsTheRun, ApartInv, InFlight, vars,
         handlers
<1>3. WorkInv'
  BY DEF IInv, WorkInv, OfferInv, QuestionInv, OneRunPerOffer, RunningIsRun, Working,
         vars, handlers, store
<1>4. StoreInv'
  BY StoreStays DEF IInv, vars
<1> QED
  BY <1>1, <1>2, <1>3, <1>4 DEF IInv

\* Every step of a handler, of the store and of the user keeps the inductive invariant.
LEMMA NextKeeps == IInv /\ [Next]_vars => IInv'
<1> SUFFICES ASSUME IInv, [Next]_vars
    PROVE  IInv'
  OBVIOUS
<1>1. ASSUME NEW j \in Handlers, Press(j)
      PROVE  IInv'
  BY <1>1, LinkGetsMenuKeeps, LinkGetsQuestionKeeps, LinkGetsStatusKeeps, LinkFailsKeeps,
     PressQualityKeeps, PressConfirmKeeps, PressRetryKeeps, PressCancelKeeps DEF Press
<1>2. ASSUME NEW j \in Handlers, Handle(j)
      PROVE  IInv'
  <2>1. CASE StoreQuestion(j) \/ Toasted(j) \/ Start(j) \/ StartElsewhere(j) \/ StartFails(j)
             \/ RefusedEarly(j) \/ FailEarly(j) \/ Register(j)
    BY <2>1, StoreQuestionKeeps, ToastedKeeps, StartKeeps, StartElsewhereKeeps,
       StartFailsKeeps, RefusedEarlyKeeps, FailEarlyKeeps, RegisterKeeps
  <2>2. CASE Progress(j) \/ Tell(j) \/ Told(j) \/ ToldElsewhere(j) \/ Deleted(j) \/ Refuse(j)
    BY <2>2, ProgressKeeps, TellKeeps, ToldKeeps, ToldElsewhereKeeps, DeletedKeeps, RefuseKeeps
  <2>3. CASE ScanFinds(j) \/ ScanFindsNothing(j) \/ Unwind(j) \/ Unwound(j) \/ LateTold(j)
    BY <2>3, ScanFindsKeeps, ScanFindsNothingKeeps, UnwindKeeps, UnwoundKeeps, LateToldKeeps
  <2> QED
    BY <1>2, <2>1, <2>2, <2>3 DEF Handle
<1>3. CASE \E j \in Handlers : RetryLapses(j)
  BY <1>3, RetryLapsesKeeps
<1>4. CASE \E m \in Messages : ConfirmLapses(m)
  BY <1>4, ConfirmLapsesKeeps
<1>5. CASE UNCHANGED vars
  BY <1>5, StutterKeeps
<1> QED
  BY <1>1, <1>2, <1>3, <1>4, <1>5 DEF Next

\* The inductive invariant holds in every state that the handlers reach.
THEOREM Invariant == Spec => []IInv
BY InitHolds, NextKeeps, PTL DEF Spec

\* Every variable of the router, the registry and the retry store keeps its type.
THEOREM TypeCorrect == Spec => []TypeOK
<1>1. IInv => TypeOK
  BY DEF IInv
<1> QED
  BY <1>1, Invariant, PTL

\* What the cancel button finds is a task its handler waits for, registered under
\* the message the button is on: every way out of _run_cancellable takes it out.
THEOREM NoStaleTask == Spec => []RegistryIsLive
<1>1. IInv => RegistryIsLive
  BY DEF IInv, RegistryInv
<1> QED
  BY <1>1, Invariant, PTL

\* The cancel button of a running download finds its task, unless the run has met
\* another one of the same message.
THEOREM CancelWorks == Spec => []CancelFindsTheRun
<1>1. IInv => CancelFindsTheRun
  BY DEF IInv, RegistryInv
<1> QED
  BY <1>1, Invariant, PTL

\* However often a confirm or a retry button is pressed, and whatever the presses
\* are interleaved with, its confirmation or context starts one download at a time.
THEOREM DoublePressIsOneRun == Spec => []OneRunPerOffer
<1>1. IInv => OneRunPerOffer
  BY DEF IInv, WorkInv
<1> QED
  BY <1>1, Invariant, PTL

\* is_running of a retry context is never left stuck.
THEOREM NoStuckRetry == Spec => []RunningIsRun
<1>1. IInv => RunningIsRun
  BY DEF IInv, WorkInv
<1> QED
  BY <1>1, Invariant, PTL

\* _entries and _by_msg of the retry store list the same contexts after any sequence
\* of put, get and remove.
THEOREM RetryIndexesAgree == Spec => []IndexesAgree
<1>1. IInv => IndexesAgree
  BY DEF IInv, StoreInv
<1> QED
  BY <1>1, Invariant, PTL

\* A retry button that is shown finds a context, by its id or by its message, unless
\* one of that message was used, expired or refused.
THEOREM RetryButtonWorks == Spec => []RetryButtonIsAlive
<1>1. IInv => RetryButtonIsAlive
  <2> SUFFICES ASSUME IInv, NEW m \in Messages, shown[m] = "retry", key[button[m]] = m
      PROVE  \/ Lookup(m) # {}
             \/ \E i \in Handlers : key[i] = m /\ retry[i] \in {"spent", "lapsed", "refused"}
    BY DEF RetryButtonIsAlive
  <2> DEFINE b == button[m]
  <2>1. b \in Handlers /\ b # None
    BY RequestsAssumption DEF IInv, ButtonInv
  <2>2. retry[b] # "none"
    BY <2>1, RequestsAssumption DEF IInv, StoreInv, KeyInv
  <2>3. CASE retry[b] \in Live
    BY <2>1, <2>3 DEF Lookup
  <2>4. CASE retry[b] \in Over
    BY <2>1, <2>4 DEF Over
  <2>5. CASE retry[b] = "dropped"
    BY <2>1, <2>5 DEF IInv, StoreInv, KeyInv, Lookup, Over, Live
  <2> QED
    BY <2>1, <2>2, <2>3, <2>4, <2>5 DEF IInv, TypeOK, Over
<1> QED
  BY <1>1, Invariant, PTL
=============================================================================
