--------------------------- MODULE PipelineProofs ---------------------------
(***************************************************************************)
(* Proofs about Pipeline, for any number of users, requests and plans.     *)
(***************************************************************************)
EXTENDS Pipeline, DataInduction, TLAPS

\* The parts of plan p that come before position q in delivery order.
Before(p, q) == {x \in PartsOf(p) : x[1] < q[1] \/ (x[1] = q[1] /\ x[2] < q[2])}

Uploading == {"send", "album", "fallback", "archive"}
Early == {"idle", "serve", "prepare"}
Late == {"charge", "extras"}

\* Where an upload can stand: on a part of the plan and, inside an album, on
\* one of the whole files the album is made of; past the last group after it.
PositionInv(r) ==
  /\ pc[r] \in Uploading =>
       /\ plan[r] \in Plans
       /\ pos[r] \in PartsOf(plan[r])
       /\ album[r] \in 0 .. Len(plan[r].groups)
       /\ album[r] # 0 =>
            /\ pos[r][2] = 1
            /\ pos[r][1] <= album[r]
            /\ \A k \in pos[r][1] .. album[r] : Len(plan[r].groups[k].sizes) = 1
       /\ pc[r] = "send" => album[r] = 0
       /\ pc[r] \in {"album", "fallback"} => album[r] # 0
  /\ pc[r] \in Late => LoopEnded(r)

\* What has reached the chat and the list at each await.
DeliveryInv(r) ==
  /\ pc[r] \in Early => acked[r] = {} /\ delivered[r] = {}
  /\ pc[r] \in {"send", "album", "fallback"} =>
       delivered[r] = Before(plan[r], pos[r])
  /\ pc[r] \in {"send", "album"} => acked[r] = delivered[r]
  /\ pc[r] = "fallback" =>
       \E g \in pos[r][1] .. album[r] : acked[r] = Before(plan[r], <<g, 1>>)
  /\ pc[r] = "archive" =>
       /\ delivered[r] = Before(plan[r], pos[r]) \cup {pos[r]}
       /\ acked[r] = IF album[r] = 0 THEN delivered[r]
                     ELSE Before(plan[r], <<album[r] + 1, 1>>)
  /\ pc[r] \in Late \/ (pc[r] = "closing" /\ ~resent[r]) \/ (outcome[r] = "done" /\ ~resent[r]) =>
       /\ delivered[r] = PartsOf(plan[r])
       /\ acked[r] = delivered[r]
  /\ delivered[r] \subseteq acked[r]
  /\ \A p \in acked[r] \ delivered[r] : p[1] \in pos[r][1] .. album[r]

\* all_parts_archived speaks for every part whose copy has been tried.
ArchiveInv(r) ==
  /\ pc[r] \in {"idle", "prepare"} => archived[r] = {}
  /\ pc[r] = "serve" \/ resent[r] => archived[r] = PartsOf(plan[r])
  /\ resent[r] => pc[r] \in {"closing", "done"}
  /\ allArchived[r] =>
       /\ pc[r] \in {"send", "album", "fallback", "charge", "extras"} => archived[r] = delivered[r]
       /\ pc[r] = "archive" => archived[r] \cup {pos[r]} = delivered[r]

\* The flag charged tells what has been billed.
BillInv(r) ==
  /\ charged[r] =>
       /\ pc[r] \in {"extras", "closing", "handler", "done"}
       /\ bills[r] = IF delivered[r] = {} THEN << >> ELSE <<delivered[r]>>
  /\ ~charged[r] /\ pc[r] # "done" => bills[r] = << >>
  /\ pc[r] = "done" => bills[r] \in {<< >>, <<delivered[r]>>}
  /\ outcome[r] # "running" => pc[r] = "done"

\* The charges that have failed by now: none before the charge after the loop,
\* that one after it, and the one of the finally block as well at the end.
FaultInv(r) ==
  /\ pc[r] \in Early \cup Uploading \cup {"charge"} => failedCharges[r] = 0
  /\ pc[r] \in {"extras", "closing", "handler"} /\ delivered[r] # {} /\ ~charged[r] =>
       failedCharges[r] = IF LoopEnded(r) THEN 1 ELSE 0
  /\ pc[r] = "done" /\ delivered[r] # {} /\ bills[r] = << >> =>
       failedCharges[r] = IF LoopEnded(r) THEN 2 ELSE 1

RequestInv(r) ==
  PositionInv(r) /\ DeliveryInv(r) /\ ArchiveInv(r) /\ BillInv(r) /\ FaultInv(r)

\* The inductive invariant.
IInv ==
  /\ TypeOK
  /\ CacheHoldsWholeResults
  /\ \A r \in Requests : RequestInv(r)

-----------------------------------------------------------------------------
(***************************************************************************)
(* Plans and positions.                                                    *)
(***************************************************************************)

\* What a member of PartsOf is: a group number and a part number.
LEMMA PartsOfMember ==
  ASSUME NEW p \in Plan, NEW x
  PROVE  x \in PartsOf(p) <=>
           /\ x = <<x[1], x[2]>>
           /\ x[1] \in 1 .. Len(p.groups)
           /\ x[2] \in 1 .. Len(p.groups[x[1]].sizes)
<1>1. p.groups \in Seq(Group) /\ DOMAIN p.groups = 1 .. Len(p.groups)
  BY DEF Plan
<1>2. ASSUME NEW g \in DOMAIN p.groups
      PROVE  DOMAIN p.groups[g].sizes = 1 .. Len(p.groups[g].sizes)
  <2>1. p.groups[g] \in Group
    BY <1>1
  <2>2. QED
    BY <2>1 DEF Group
<1>3. QED
  BY <1>1, <1>2 DEF PartsOf

\* Sizes are numbers, parts are pairs of positive numbers.
LEMMA PartsOfType ==
  ASSUME NEW p \in Plan, NEW x \in PartsOf(p)
  PROVE  /\ x \in Part
         /\ p.groups[x[1]].sizes[x[2]] \in Nat
         /\ Len(p.groups) \in Nat
         /\ Len(p.groups[x[1]].sizes) \in Nat
<1>1. /\ x = <<x[1], x[2]>>
      /\ x[1] \in 1 .. Len(p.groups)
      /\ x[2] \in 1 .. Len(p.groups[x[1]].sizes)
  BY PartsOfMember
<1>2. p.groups \in Seq(Group) /\ Len(p.groups) \in Nat
  BY DEF Plan
<1>3. p.groups[x[1]] \in Group
  BY <1>1, <1>2
<1>4. p.groups[x[1]].sizes \in Seq(Nat) /\ Len(p.groups[x[1]].sizes) \in Nat
  BY <1>3 DEF Group
<1>5. QED
  BY <1>1, <1>2, <1>4 DEF Part

\* Nothing comes before the first part; every part before the end.
LEMMA BeforeEnds ==
  ASSUME NEW p \in Plan
  PROVE  /\ Before(p, <<1, 1>>) = {}
         /\ Before(p, <<Len(p.groups) + 1, 1>>) = PartsOf(p)
<1>1. Len(p.groups) \in Nat
  BY DEF Plan
<1>2. ASSUME NEW x \in PartsOf(p)
      PROVE  /\ x[1] \in Nat /\ x[1] >= 1 /\ x[1] <= Len(p.groups)
             /\ x[2] \in Nat /\ x[2] >= 1
  BY <1>1, PartsOfMember, PartsOfType DEF Part
<1>3. QED
  BY <1>1, <1>2 DEF Before

\* The parts before the next part of the same file.
LEMMA BeforeNextPart ==
  ASSUME NEW p \in Plan, NEW x \in PartsOf(p),
         x[2] < Len(p.groups[x[1]].sizes)
  PROVE  /\ <<x[1], x[2] + 1>> \in PartsOf(p)
         /\ Before(p, <<x[1], x[2] + 1>>) = Before(p, x) \cup {x}
         /\ x \notin Before(p, x)
<1> DEFINE y == <<x[1], x[2] + 1>>
<1>1. x[1] \in Nat /\ x[2] \in Nat /\ x = <<x[1], x[2]>>
  BY PartsOfType, PartsOfMember DEF Part
<1>2. y \in PartsOf(p)
  BY <1>1, PartsOfMember, PartsOfType
<1>3. ASSUME NEW z \in PartsOf(p)
      PROVE  (z[1] < x[1] \/ (z[1] = x[1] /\ z[2] < x[2] + 1)) <=>
             (z[1] < x[1] \/ (z[1] = x[1] /\ z[2] < x[2]) \/ z = x)
  BY <1>1, PartsOfType, PartsOfMember DEF Part
<1>4. QED
  BY <1>1, <1>2, <1>3 DEF Before

\* The parts before the next group, from the last part of a group.
LEMMA BeforeNextGroup ==
  ASSUME NEW p \in Plan, NEW x \in PartsOf(p),
         x[2] = Len(p.groups[x[1]].sizes)
  PROVE  /\ Before(p, <<x[1] + 1, 1>>) = Before(p, x) \cup {x}
         /\ x \notin Before(p, x)
<1>1. x[1] \in Nat /\ x[2] \in Nat /\ x = <<x[1], x[2]>>
  BY PartsOfType, PartsOfMember DEF Part
<1>2. ASSUME NEW z \in PartsOf(p)
      PROVE  (z[1] < x[1] + 1 \/ (z[1] = x[1] + 1 /\ z[2] < 1)) <=>
             (z[1] < x[1] \/ (z[1] = x[1] /\ z[2] < x[2]) \/ z = x)
  <2>1. /\ z[1] \in Nat /\ z[2] \in Nat /\ z[2] >= 1 /\ z = <<z[1], z[2]>>
        /\ z[2] <= Len(p.groups[z[1]].sizes)
    BY PartsOfType, PartsOfMember DEF Part
  <2>2. z[1] = x[1] => z[2] <= x[2]
    BY <2>1
  <2>3. QED
    BY <1>1, <2>1, <2>2
<1>3. QED
  BY <1>1, <1>2 DEF Before

\* A file delivered whole is one part.
LEMMA WholeFile ==
  ASSUME NEW p \in Plan, NEW k \in 1 .. Len(p.groups), Len(p.groups[k].sizes) = 1
  PROVE  /\ <<k, 1>> \in PartsOf(p)
         /\ <<k, 1>> \in Part
         /\ Before(p, <<k + 1, 1>>) = Before(p, <<k, 1>>) \cup {<<k, 1>>}
<1>1. \A x : /\ x = <<x[1], x[2]>>
             /\ x[1] \in 1 .. Len(p.groups)
             /\ x[2] \in 1 .. Len(p.groups[x[1]].sizes)
            => x \in PartsOf(p)
  BY PartsOfMember
<1>2. <<k, 1>> \in PartsOf(p)
  <2>1. k \in Nat /\ k \in 1 .. Len(p.groups) /\ 1 \in 1 .. Len(p.groups[k].sizes)
    BY DEF Plan
  <2>2. QED
    BY <1>1, <2>1
<1> DEFINE x == <<k, 1>>
<1>3. x \in PartsOf(p) /\ x[1] = k /\ x[2] = 1
  BY <1>2
<1> HIDE DEF x
<1>4. Before(p, <<x[1] + 1, 1>>) = Before(p, x) \cup {x}
  BY <1>3, BeforeNextGroup
<1>5. x \in Part
  BY <1>3, PartsOfType
<1>6. QED
  BY <1>3, <1>4, <1>5 DEF x

\* A batch of whole files, from group g to group h.
LEMMA BeforeBatch ==
  ASSUME NEW p \in Plan, NEW g \in 1 .. Len(p.groups), NEW h \in g .. Len(p.groups),
         \A k \in g .. h : Len(p.groups[k].sizes) = 1
  PROVE  Before(p, <<h + 1, 1>>) = Before(p, <<g, 1>>) \cup ((g .. h) \X {1})
<1>1. g \in Nat /\ h \in Nat /\ Len(p.groups) \in Nat
  BY DEF Plan
<1>2. ASSUME NEW k \in g .. h
      PROVE  /\ k \in Nat /\ k \in 1 .. Len(p.groups)
             /\ Len(p.groups[k].sizes) = 1
             /\ <<k, 1>> \in PartsOf(p)
  <2>1. k \in Nat /\ k \in 1 .. Len(p.groups) /\ Len(p.groups[k].sizes) = 1
    BY <1>1
  <2>2. QED
    BY <2>1, WholeFile
<1>3. ASSUME NEW z \in PartsOf(p)
      PROVE  (z[1] < h + 1 \/ (z[1] = h + 1 /\ z[2] < 1)) <=>
             (z[1] < g \/ (z[1] = g /\ z[2] < 1) \/ z \in (g .. h) \X {1})
  <2>1. /\ z[1] \in Nat /\ z[2] \in Nat /\ z[2] >= 1 /\ z = <<z[1], z[2]>>
        /\ z[2] <= Len(p.groups[z[1]].sizes)
    BY PartsOfType, PartsOfMember DEF Part
  <2>2. ASSUME z[1] \in g .. h PROVE z[2] = 1
    <3>1. Len(p.groups[z[1]].sizes) = 1
      BY <2>2
    <3>2. QED
      BY <2>1, <3>1
  <2>3. QED
    BY <1>1, <2>1, <2>2
<1>4. QED
  BY <1>1, <1>2, <1>3 DEF Before

-----------------------------------------------------------------------------
(***************************************************************************)
(* The ledger, and what a step of one request leaves alone.                *)
(***************************************************************************)

\* A price is a natural number.
LEMMA PriceType ==
  ASSUME NEW any \in BOOLEAN, NEW mb \in Nat
  PROVE  CreditsForSizes(any, mb) \in Nat
BY CreditsAssumption DEF CreditsForSizes

\* No ledger operation makes a balance or a bandwidth negative.
LEMMA LedgerStaysTyped ==
  ASSUME LedgerTypeOK, NEW u \in Users, NEW any \in BOOLEAN, NEW mb \in Nat,
         UseQuotaDynamic(u, any, mb) \/ AddBandwidthUsed(u, mb)
  PROVE  LedgerTypeOK'
<1> DEFINE price == CreditsForSizes(any, mb)
<1>1. price \in Nat
  BY PriceType
<1>2. CASE AddBandwidthUsed(u, mb)
  BY <1>2 DEF LedgerTypeOK, AddBandwidthUsed
<1>3. CASE UseQuotaDynamic(u, any, mb) /\ ~EnableVip
  BY <1>3 DEF LedgerTypeOK, UseQuotaDynamic
<1>4. CASE UseQuotaDynamic(u, any, mb) /\ EnableVip
  <2> HIDE DEF price
  <2>1. Deduct(u, price) /\ UNCHANGED bandwidth
    BY <1>4 DEF UseQuotaDynamic, price
  <2>2. free[u] \in Nat /\ paid[u] \in Nat
    BY DEF LedgerTypeOK
  <2> DEFINE fromFree == Smaller(price, free[u])
             fromPaid == Smaller(price - fromFree, paid[u])
  <2>3. fromFree \in Nat /\ free[u] - fromFree \in Nat /\ price - fromFree \in Nat
    BY <1>1, <2>2 DEF Smaller
  <2>4. paid[u] - fromPaid \in Nat
    BY <2>2, <2>3 DEF Smaller
  <2>5. /\ free' = [free EXCEPT ![u] = free[u] - fromFree]
        /\ paid' = [paid EXCEPT ![u] = paid[u] - fromPaid]
    BY <2>1 DEF Deduct
  <2> HIDE DEF fromFree, fromPaid
  <2>6. QED
    BY <2>1, <2>3, <2>4, <2>5 DEF LedgerTypeOK
<1>5. QED
  BY <1>2, <1>3, <1>4

\* The local state of a request.
Same(q) ==
  /\ pc'[q] = pc[q]
  /\ plan'[q] = plan[q] /\ pos'[q] = pos[q] /\ album'[q] = album[q]
  /\ acked'[q] = acked[q] /\ delivered'[q] = delivered[q]
  /\ archived'[q] = archived[q] /\ allArchived'[q] = allArchived[q]
  /\ charged'[q] = charged[q] /\ bills'[q] = bills[q]
  /\ failedCharges'[q] = failedCharges[q]
  /\ resent'[q] = resent[q] /\ outcome'[q] = outcome[q]

\* A step of one request leaves the local state of every other alone.
LEMMA Locality ==
  ASSUME TypeOK, NEW r \in Requests, NEW q \in Requests, q # r,
         Run(r) \/ Cancel(r)
  PROVE  Same(q)
<1> USE DEF TypeOK, Same, GoTo, position, record, copies, results, payments, ledger
<1>1. CASE Refuse(r) \/ FailEarly(r) \/ StartFromCache(r) \/ StartDownload(r)
  BY <1>1 DEF Refuse, FailEarly, StartFromCache, StartDownload
<1>2. CASE Serve(r) \/ ServeFails(r) \/ DeleteFails(r) \/ AlbumRejected(r) \/ Raise(r)
  BY <1>2 DEF Serve, ServeFails, DeleteFails, AlbumRejected, Raise
<1>3. CASE Prepare(r)
  BY <1>3 DEF Prepare, EnterGroup
<1>4. CASE SendPart(r) \/ SendAlbum(r) \/ SendFallback(r)
  BY <1>4 DEF SendPart, SendAlbum, SendFallback, Record
<1>5. CASE Archive(r)
  BY <1>5 DEF Archive, ArchiveCopy, Record, EnterGroup
<1>6. CASE ChargeDelivered(r) \/ Extras(r)
  BY <1>6 DEF ChargeDelivered, Extras, Charge, ChargeFails
<1>7. CASE Close(r) \/ Fail(r) \/ Cancel(r)
  BY <1>7 DEF Close, Fail, Cancel, Finally, Charge, ChargeFails
<1>8. QED
  BY <1>1, <1>2, <1>3, <1>4, <1>5, <1>6, <1>7 DEF Run

\* The invariant of a request speaks of nothing but its local state.
LEMMA SameKeeps ==
  ASSUME NEW q \in Requests, Same(q), RequestInv(q)
  PROVE  RequestInv(q)'
<1>1. PositionInv(q)' /\ ArchiveInv(q)' /\ BillInv(q)' /\ FaultInv(q)'
  BY DEF Same, RequestInv, PositionInv, ArchiveInv, BillInv, FaultInv, LoopEnded
<1>2. DeliveryInv(q)'
  BY DEF Same, RequestInv, DeliveryInv
<1>3. QED
  BY <1>1, <1>2 DEF RequestInv

\* So a step keeps the invariant if it keeps the types, the cache and the
\* invariant of the request that takes it.
LEMMA OneRequestAtATime ==
  ASSUME IInv, NEW r \in Requests, Run(r) \/ Cancel(r),
         TypeOK', CacheHoldsWholeResults', RequestInv(r)'
  PROVE  IInv'
<1>1. ASSUME NEW q \in Requests, q # r
      PROVE  RequestInv(q)'
  BY <1>1, Locality, SameKeeps DEF IInv
<1>2. QED
  BY <1>1 DEF IInv

-----------------------------------------------------------------------------
(***************************************************************************)
(* What the helpers of the actions do.                                     *)
(***************************************************************************)

\* The loop enters a group of a plan, or leaves it after the last group.
LEMMA EnterGroupStep ==
  ASSUME TypeOK, NEW r \in Requests, NEW p \in Plans,
         NEW g \in 1 .. Len(p.groups) + 1,
         EnterGroup(r, p, g), plan'[r] = p
  PROVE  /\ pc' \in [Requests -> Awaits \cup {"idle", "charge", "done"}]
         /\ pos' \in [Requests -> Part]
         /\ album' \in [Requests -> Nat]
         /\ pos'[r] = <<g, 1>>
         /\ pc'[r] \in {"charge", "send", "album"}
         /\ pc'[r] = "charge" <=> g = Len(p.groups) + 1
         /\ PositionInv(r)'
<1>1. p \in Plan /\ Len(p.groups) \in Nat /\ DOMAIN p.groups = 1 .. Len(p.groups)
  BY PipelineAssumption DEF Plan
<1>2. <<g, 1>> \in Part
  BY <1>1 DEF Part
<1>3. pos' = [pos EXCEPT ![r] = <<g, 1>>]
  BY DEF EnterGroup
<1>4. ASSUME g <= Len(p.groups)
      PROVE  <<g, 1>> \in PartsOf(p)
  <2>1. p.groups[g] \in Group
    BY <1>1, <1>4 DEF Plan
  <2>2. p.groups[g].sizes \in Seq(Nat) /\ p.groups[g].sizes # << >>
    BY <1>1, <1>4, <2>1, PipelineAssumption DEF Group
  <2>3. Len(p.groups[g].sizes) \in Nat /\ Len(p.groups[g].sizes) >= 1
    BY <2>2
  <2>4. \A x : /\ x = <<x[1], x[2]>>
               /\ x[1] \in 1 .. Len(p.groups)
               /\ x[2] \in 1 .. Len(p.groups[x[1]].sizes)
              => x \in PartsOf(p)
    BY <1>1, PartsOfMember
  <2>5. g \in 1 .. Len(p.groups) /\ 1 \in 1 .. Len(p.groups[g].sizes)
    BY <1>4, <2>3
  <2>6. QED
    BY <2>4, <2>5
<1> DEFINE Entered ==
      /\ pc' \in [Requests -> Awaits \cup {"idle", "charge", "done"}]
      /\ album' \in [Requests -> Nat]
      /\ pc'[r] \in {"charge", "send", "album"}
      /\ pc'[r] = "charge" <=> g = Len(p.groups) + 1
      /\ PositionInv(r)'
<1>4a. pos' \in [Requests -> Part] /\ pos'[r] = <<g, 1>>
  BY <1>2, <1>3 DEF TypeOK
<1>5. ASSUME g > Len(p.groups),
             GoTo(r, "charge"),
             album' = [album EXCEPT ![r] = 0]
      PROVE  Entered
  <2>1. pc'[r] = "charge"
    BY <1>5 DEF TypeOK, GoTo
  <2>2. LoopEnded(r)'
    BY <1>1, <1>4a, <1>5 DEF LoopEnded
  <2>3. PositionInv(r)'
    BY <2>1, <2>2 DEF PositionInv, Uploading, Late
  <2>4. QED
    BY <1>1, <1>5, <2>1, <2>3 DEF TypeOK, GoTo
<1>6. ASSUME g <= Len(p.groups),
             GoTo(r, "send"),
             album' = [album EXCEPT ![r] = 0]
      PROVE  Entered
  <2>1. pc'[r] = "send" /\ album'[r] = 0
    BY <1>6 DEF TypeOK, GoTo
  <2>2. PositionInv(r)'
    BY <1>1, <1>4, <1>4a, <1>6, <2>1 DEF PositionInv, Uploading, Late
  <2>3. QED
    BY <1>1, <1>6, <2>1, <2>2 DEF TypeOK, GoTo, Awaits
<1>7. ASSUME NEW h \in g .. Len(p.groups),
             IsBatchEnd(p, g, h),
             GoTo(r, "album"),
             album' = [album EXCEPT ![r] = h]
      PROVE  Entered
  <2>1. \A k \in g .. h : Len(p.groups[k].sizes) = 1
    BY <1>7 DEF IsBatchEnd, Eligible
  <2>2. h \in Nat /\ h \in 0 .. Len(p.groups) /\ h # 0 /\ g <= h /\ g <= Len(p.groups)
    BY <1>1, <1>7
  <2>3. pc'[r] = "album" /\ album'[r] = h
    BY <1>7 DEF TypeOK, GoTo
  <2>4. PositionInv(r)'
    BY <1>4, <1>4a, <2>1, <2>2, <2>3 DEF PositionInv, Uploading, Late
  <2>5. QED
    BY <1>1, <1>7, <2>2, <2>3, <2>4 DEF TypeOK, GoTo, Awaits
<1> HIDE DEF Entered
<1>8. Entered
  BY <1>5, <1>6, <1>7 DEF EnterGroup
<1>9. QED
  BY <1>4a, <1>8 DEF Entered

\* A part is recorded.
LEMMA RecordStep ==
  ASSUME TypeOK, NEW r \in Requests, NEW p \in PartsOf(plan[r]), Record(r, p)
  PROVE  /\ LedgerTypeOK'
         /\ pc' \in [Requests -> Awaits \cup {"idle", "charge", "done"}]
         /\ pos' \in [Requests -> Part]
         /\ delivered' \in [Requests -> SUBSET Part]
         /\ volume' \in [Requests -> Nat]
         /\ pos'[r] = p
         /\ delivered'[r] = delivered[r] \cup {p}
         /\ pc'[r] \in {"archive", "handler"}
<1>1. plan[r] \in Plan
  BY DEF TypeOK
<1>2. p \in Part /\ Size(r, p) \in Nat
  BY <1>1, PartsOfType DEF Size
<1>3. UserOf[r] \in Users
  BY PipelineAssumption
<1>4. LedgerTypeOK'
  <2>1. CASE AddBandwidthUsed(UserOf[r], Size(r, p))
    BY <1>2, <1>3, <2>1, LedgerStaysTyped DEF TypeOK
  <2>2. CASE UNCHANGED ledger
    BY <2>2 DEF TypeOK, LedgerTypeOK, ledger
  <2>3. QED
    BY <2>1, <2>2 DEF Record
<1>5. /\ pos' \in [Requests -> Part] /\ pos'[r] = p
      /\ volume' \in [Requests -> Nat]
  BY <1>2 DEF Record, TypeOK
<1>6. /\ delivered' \in [Requests -> SUBSET Part]
      /\ delivered'[r] = delivered[r] \cup {p}
  BY <1>2 DEF Record, TypeOK
<1>7. /\ pc' \in [Requests -> Awaits \cup {"idle", "charge", "done"}]
      /\ pc'[r] \in {"archive", "handler"}
  BY DEF Record, TypeOK, GoTo, Awaits
<1>8. QED
  BY <1>4, <1>5, <1>6, <1>7

\* A charge is attempted.
LEMMA ChargeStep ==
  ASSUME TypeOK, NEW r \in Requests, Charge(r) \/ ChargeFails(r)
  PROVE  /\ LedgerTypeOK'
         /\ bills' \in [Requests -> Seq(SUBSET Part)]
         /\ failedCharges' \in [Requests -> Nat]
         /\ Charge(r) => bills'[r] = IF delivered[r] = {} THEN bills[r]
                                     ELSE Append(bills[r], delivered[r])
         /\ Charge(r) => failedCharges'[r] = failedCharges[r]
         /\ ~Charge(r) => /\ bills'[r] = bills[r]
                          /\ failedCharges'[r] = failedCharges[r] + 1
<1>1. UserOf[r] \in Users /\ volume[r] \in Nat /\ (delivered[r] # {}) \in BOOLEAN
  BY PipelineAssumption DEF TypeOK
<1>2. LedgerTypeOK'
  <2>1. CASE Charge(r)
    BY <1>1, <2>1, LedgerStaysTyped DEF Charge, TypeOK
  <2>2. CASE ChargeFails(r)
    BY <2>2 DEF ChargeFails, TypeOK, LedgerTypeOK, ledger
  <2>3. QED
    BY <2>1, <2>2
<1>3. bills[r] \in Seq(SUBSET Part) /\ delivered[r] \in SUBSET Part
  BY DEF TypeOK
<1>4. Append(bills[r], delivered[r]) \in Seq(SUBSET Part)
  BY <1>3
<1>5. bills \in [Requests -> Seq(SUBSET Part)] /\ failedCharges \in [Requests -> Nat]
  BY DEF TypeOK
<1>6. CASE Charge(r)
  BY <1>2, <1>4, <1>5, <1>6 DEF Charge
<1>7. CASE ChargeFails(r)
  <2>1. bills' = bills /\ failedCharges' = [failedCharges EXCEPT ![r] = failedCharges[r] + 1]
    BY <1>7 DEF ChargeFails
  <2>2. failedCharges[r] + 1 \in Nat
    BY <1>5
  <2>3. ~Charge(r)
    <3>1. failedCharges'[r] # failedCharges[r]
      BY <1>5, <2>1, <2>2
    <3>2. QED
      BY <3>1 DEF Charge
  <2>4. QED
    BY <1>2, <1>5, <2>1, <2>2, <2>3
<1>8. QED
  BY <1>6, <1>7

\* What a request knows while it uploads.
LEMMA UploadingFacts ==
  ASSUME TypeOK, NEW r \in Requests, RequestInv(r), pc[r] \in Uploading
  PROVE  /\ plan[r] \in Plans /\ plan[r] \in Plan /\ Len(plan[r].groups) \in Nat
         /\ pos[r] \in PartsOf(plan[r])
         /\ pos[r] = <<pos[r][1], pos[r][2]>>
         /\ pos[r][1] \in Nat /\ pos[r][1] \in 1 .. Len(plan[r].groups)
         /\ pos[r][2] \in Nat
         /\ pos[r][2] \in 1 .. Len(plan[r].groups[pos[r][1]].sizes)
         /\ Len(plan[r].groups[pos[r][1]].sizes) \in Nat
         /\ album[r] \in Nat
         /\ ~resent[r] /\ outcome[r] = "running" /\ ~charged[r] /\ bills[r] = << >> /\ failedCharges[r] = 0
<1>1. plan[r] \in Plans /\ plan[r] \in Plan /\ pos[r] \in PartsOf(plan[r]) /\ album[r] \in Nat
  BY DEF RequestInv, PositionInv, TypeOK
<1>2. /\ pos[r] = <<pos[r][1], pos[r][2]>>
      /\ pos[r][1] \in 1 .. Len(plan[r].groups)
      /\ pos[r][2] \in 1 .. Len(plan[r].groups[pos[r][1]].sizes)
  BY <1>1, PartsOfMember
<1>3. /\ Len(plan[r].groups) \in Nat
      /\ Len(plan[r].groups[pos[r][1]].sizes) \in Nat
  BY <1>1, PartsOfType
<1>4. ~resent[r] /\ outcome[r] = "running" /\ ~charged[r] /\ bills[r] = << >> /\ failedCharges[r] = 0
  BY DEF RequestInv, ArchiveInv, BillInv, FaultInv, Uploading
<1>5. QED
  BY <1>1, <1>2, <1>3, <1>4

\* The finally block ends a request that is still running.
LEMMA FinallyStep ==
  ASSUME IInv, NEW r \in Requests, NEW end \in Outcomes, Finally(r, end),
         pc[r] \in Awaits,
         end = "done" => pc[r] = "closing"
  PROVE  IInv'
<1> USE DEF position, record, copies, payments
<1>1. TypeOK /\ RequestInv(r)
  BY DEF IInv
<1>2. /\ LedgerTypeOK'
      /\ bills' \in [Requests -> Seq(SUBSET Part)]
      /\ failedCharges' \in [Requests -> Nat]
      /\ bills'[r] \in {<< >>, <<delivered[r]>>}
      /\ delivered[r] # {} /\ bills'[r] = << >> =>
           ~charged[r] /\ failedCharges'[r] = failedCharges[r] + 1
  <2>1. CASE delivered[r] # {} /\ ~charged[r]
    <3>1. Charge(r) \/ ChargeFails(r)
      BY <2>1 DEF Finally
    <3>2. bills[r] = << >>
      BY <1>1, <2>1 DEF RequestInv, BillInv, Awaits
    <3>3. /\ Append(<< >>, delivered[r]) = <<delivered[r]>>
          /\ <<delivered[r]>> # << >>
      OBVIOUS
    <3>4. /\ LedgerTypeOK'
          /\ bills' \in [Requests -> Seq(SUBSET Part)]
          /\ failedCharges' \in [Requests -> Nat]
          /\ Charge(r) => bills'[r] = <<delivered[r]>>
          /\ ~Charge(r) => bills'[r] = << >> /\ failedCharges'[r] = failedCharges[r] + 1
      BY <1>1, <2>1, <3>1, <3>2, <3>3, ChargeStep
    <3>5. QED
      BY <2>1, <3>3, <3>4
  <2>2. CASE ~(delivered[r] # {} /\ ~charged[r])
    <3>1. UNCHANGED <<ledger, bills, failedCharges>>
      BY <2>2 DEF Finally
    <3>2. bills[r] = IF delivered[r] = {} THEN << >> ELSE <<delivered[r]>>
      BY <1>1, <2>2 DEF RequestInv, BillInv, Awaits
    <3>3. QED
      BY <1>1, <3>1, <3>2 DEF TypeOK, LedgerTypeOK, ledger
  <2>3. QED
    BY <2>1, <2>2
<1>3. /\ pc' \in [Requests -> Awaits \cup {"idle", "charge", "done"}]
      /\ outcome' \in [Requests -> Outcomes]
      /\ pc'[r] = "done" /\ outcome'[r] = end
  BY <1>1 DEF Finally, TypeOK, GoTo
<1>4. UNCHANGED <<plan, pos, album, acked, delivered, volume, archived,
                  allArchived, charged, resent, cache>>
  BY DEF Finally
<1>5. TypeOK'
  BY <1>1, <1>2, <1>3, <1>4 DEF TypeOK
<1>6. CacheHoldsWholeResults'
  BY <1>4 DEF IInv, CacheHoldsWholeResults
<1>7. RequestInv(r)'
  <2>1. PositionInv(r)' /\ ArchiveInv(r)'
    BY <1>1, <1>3, <1>4 DEF RequestInv, PositionInv, ArchiveInv, Uploading, Late
  <2>2. DeliveryInv(r)'
    <3>1. outcome[r] = "running"
      BY <1>1 DEF RequestInv, BillInv, Awaits, TypeOK
    <3>2. QED
      BY <1>1, <1>3, <1>4, <3>1 DEF RequestInv, DeliveryInv, Early, Late
  <2>3. BillInv(r)'
    <3>1. charged[r] => bills'[r] = IF delivered[r] = {} THEN << >> ELSE <<delivered[r]>>
      <4>1. CASE charged[r]
        BY <1>1, <4>1 DEF RequestInv, BillInv, Finally
      <4>2. QED
        BY <4>1
    <3>2. QED
      BY <1>1, <1>2, <1>3, <1>4, <3>1 DEF BillInv
  <2>4. FaultInv(r)'
    <3>1. ASSUME delivered[r] # {}, bills'[r] = << >>
          PROVE  failedCharges'[r] = IF LoopEnded(r) THEN 2 ELSE 1
      <4>1. ~charged[r] /\ failedCharges'[r] = failedCharges[r] + 1
        BY <1>2, <3>1
      <4>2. pc[r] \in Uploading \cup {"extras", "closing", "handler"}
        BY <1>1, <3>1 DEF RequestInv, DeliveryInv, Early, Uploading, Awaits
      <4>3. pc[r] \in Uploading => ~LoopEnded(r) /\ failedCharges[r] = 0
        BY <1>1, UploadingFacts DEF RequestInv, FaultInv, LoopEnded
      <4>4. pc[r] \in {"extras", "closing", "handler"} =>
              failedCharges[r] = IF LoopEnded(r) THEN 1 ELSE 0
        BY <1>1, <3>1, <4>1 DEF RequestInv, FaultInv
      <4>5. QED
        BY <4>1, <4>2, <4>3, <4>4
    <3>2. LoopEnded(r)' = LoopEnded(r)
      BY <1>4 DEF LoopEnded
    <3>3. QED
      BY <1>3, <1>4, <3>1, <3>2 DEF FaultInv, Early, Uploading
  <2>5. QED
    BY <2>1, <2>2, <2>3, <2>4 DEF RequestInv
<1>8. ASSUME NEW q \in Requests, q # r PROVE RequestInv(q)'
  <2>1. Same(q) /\ RequestInv(q)
    BY <1>4, <1>8 DEF Same, IInv, Finally, GoTo, Charge, ChargeFails, TypeOK
  <2>2. QED
    BY <2>1, SameKeeps
<1>9. QED
  BY <1>5, <1>6, <1>7, <1>8 DEF IInv

-----------------------------------------------------------------------------
(***************************************************************************)
(* Every action keeps the invariant.                                       *)
(***************************************************************************)

\* The steps before a download starts: the quota check, the cache lookup and
\* the failures that end a request there.
LEMMA StartSteps ==
  ASSUME IInv, NEW r \in Requests,
         Refuse(r) \/ FailEarly(r) \/ DeleteFails(r) \/ StartDownload(r)
  PROVE  IInv'
<1> USE DEF position, record, copies, results, payments, GoTo
<1>1. TypeOK /\ RequestInv(r)
  BY DEF IInv
<1>2. CASE Refuse(r) \/ FailEarly(r) \/ DeleteFails(r)
  <2>1. /\ pc[r] \in {"idle", "serve"}
        /\ pc' = [pc EXCEPT ![r] = "done"]
        /\ \E end \in {"refused", "failed"} : outcome' = [outcome EXCEPT ![r] = end]
        /\ UNCHANGED <<ledger, position, record, copies, charged, bills, failedCharges, resent, cache>>
    BY <1>2 DEF Refuse, FailEarly, DeleteFails
  <2>2. TypeOK'
    BY <1>1, <2>1 DEF TypeOK, LedgerTypeOK, ledger, Outcomes
  <2>3. CacheHoldsWholeResults'
    BY <2>1 DEF IInv, CacheHoldsWholeResults
  <2>4. pc'[r] = "done" /\ outcome'[r] \in {"refused", "failed"}
    BY <1>1, <2>1 DEF TypeOK
  <2>5. PositionInv(r)' /\ ArchiveInv(r)'
    BY <1>1, <2>1, <2>4 DEF RequestInv, PositionInv, ArchiveInv, Uploading, Late
  <2>6. DeliveryInv(r)'
    BY <1>1, <2>1, <2>4 DEF RequestInv, DeliveryInv, Early, Late
  <2>7. BillInv(r)' /\ FaultInv(r)'
    BY <1>1, <2>1, <2>4 DEF RequestInv, BillInv, FaultInv, DeliveryInv, Early, Uploading
  <2>8. QED
    BY <1>2, <2>2, <2>3, <2>5, <2>6, <2>7, OneRequestAtATime DEF RequestInv, Run
<1>3. CASE StartDownload(r)
  <2>1. /\ pc[r] = "idle"
        /\ pc' = [pc EXCEPT ![r] = "prepare"]
        /\ UNCHANGED <<ledger, position, record, copies, charged, bills, failedCharges, results, cache>>
    BY <1>3 DEF StartDownload
  <2>2. TypeOK'
    BY <1>1, <2>1 DEF TypeOK, LedgerTypeOK, ledger, Awaits
  <2>3. CacheHoldsWholeResults'
    BY <2>1 DEF IInv, CacheHoldsWholeResults
  <2>4. pc'[r] = "prepare"
    BY <1>1, <2>1 DEF TypeOK
  <2>5. PositionInv(r)' /\ ArchiveInv(r)' /\ BillInv(r)' /\ FaultInv(r)'
    BY <1>1, <2>1, <2>4 DEF RequestInv, PositionInv, DeliveryInv, ArchiveInv, BillInv, FaultInv,
       LoopEnded, Uploading, Early, Late
  <2>6. DeliveryInv(r)'
    BY <1>1, <2>1, <2>4 DEF RequestInv, DeliveryInv, BillInv, Early, Late
  <2>7. QED
    BY <1>3, <2>2, <2>3, <2>5, <2>6, OneRequestAtATime DEF RequestInv, Run
<1>4. QED
  BY <1>2, <1>3

\* The steps of a request served from the cache.
LEMMA CacheSteps ==
  ASSUME IInv, NEW r \in Requests,
         StartFromCache(r) \/ Serve(r) \/ ServeFails(r)
  PROVE  IInv'
<1> USE DEF position, record, copies, results, payments, GoTo
<1>1. TypeOK /\ RequestInv(r)
  BY DEF IInv
<1>2. CASE StartFromCache(r)
  <2>1. PICK e \in Lookup(r) :
          /\ plan' = [plan EXCEPT ![r] = e.plan]
          /\ archived' = [archived EXCEPT ![r] = e.parts]
    BY <1>2 DEF StartFromCache
  <2>2. /\ e \in Entry
        /\ e.parts = PartsOf(e.plan)
        /\ e.plan \in Plan /\ e.parts \in SUBSET Part
    <3>1. KeyOf[r] \in Keys /\ e \in cache[KeyOf[r]]
      BY PipelineAssumption DEF Lookup
    <3>2. \/ cache[KeyOf[r]] = {}
          \/ \E f \in cache[KeyOf[r]] : f \in Entry /\ cache[KeyOf[r]] = {f}
      BY <1>1, <3>1, Zenon DEF TypeOK
    <3>3. e \in Entry
      BY <3>1, <3>2, Zenon
    <3>4. e.parts = PartsOf(e.plan)
      BY <3>1 DEF IInv, CacheHoldsWholeResults
    <3>5. QED
      BY <3>3, <3>4 DEF Entry
  <2>3. /\ pc[r] = "idle"
        /\ pc' = [pc EXCEPT ![r] = "serve"]
        /\ UNCHANGED <<ledger, pos, album, record, allArchived, charged, bills, failedCharges, results, cache>>
    BY <1>2 DEF StartFromCache
  <2>4. TypeOK'
    BY <1>1, <2>1, <2>2, <2>3 DEF TypeOK, LedgerTypeOK, ledger, Awaits
  <2>5. CacheHoldsWholeResults'
    BY <2>3 DEF IInv, CacheHoldsWholeResults
  <2>6. /\ pc'[r] = "serve" /\ plan'[r] = e.plan
        /\ archived'[r] = PartsOf(e.plan)
    BY <1>1, <2>1, <2>2, <2>3 DEF TypeOK
  <2>7. PositionInv(r)' /\ ArchiveInv(r)' /\ BillInv(r)' /\ FaultInv(r)'
    BY <1>1, <2>3, <2>6 DEF RequestInv, PositionInv, DeliveryInv, ArchiveInv, BillInv, FaultInv,
       LoopEnded, Uploading, Early, Late
  <2>8. DeliveryInv(r)'
    BY <1>1, <2>3, <2>6 DEF RequestInv, DeliveryInv, BillInv, Early, Late
  <2>9. QED
    BY <1>2, <2>4, <2>5, <2>7, <2>8, OneRequestAtATime DEF RequestInv, Run
<1>3. CASE Serve(r)
  <2>1. /\ pc[r] = "serve"
        /\ pc' = [pc EXCEPT ![r] = "closing"]
        /\ resent' = [resent EXCEPT ![r] = TRUE]
        /\ UNCHANGED <<ledger, position, record, copies, charged, bills, failedCharges, outcome, cache>>
    BY <1>3 DEF Serve
  <2>2. TypeOK'
    BY <1>1, <2>1 DEF TypeOK, LedgerTypeOK, ledger, Awaits
  <2>3. CacheHoldsWholeResults'
    BY <2>1 DEF IInv, CacheHoldsWholeResults
  <2>4. pc'[r] = "closing" /\ resent'[r]
    BY <1>1, <2>1 DEF TypeOK
  <2>5. PositionInv(r)' /\ ArchiveInv(r)' /\ BillInv(r)' /\ FaultInv(r)'
    BY <1>1, <2>1, <2>4 DEF RequestInv, PositionInv, DeliveryInv, ArchiveInv, BillInv, FaultInv,
       LoopEnded, Uploading, Early, Late
  <2>6. DeliveryInv(r)'
    BY <1>1, <2>1, <2>4 DEF RequestInv, DeliveryInv, BillInv, Early, Late
  <2>7. QED
    BY <1>3, <2>2, <2>3, <2>5, <2>6, OneRequestAtATime DEF RequestInv, Run
<1>4. CASE ServeFails(r)
  <2>1. /\ pc[r] = "serve"
        /\ pc' = [pc EXCEPT ![r] = "prepare"]
        /\ plan' = [plan EXCEPT ![r] = NoPlan]
        /\ archived' = [archived EXCEPT ![r] = {}]
        /\ cache' = [cache EXCEPT ![KeyOf[r]] = {}]
        /\ UNCHANGED <<ledger, pos, album, record, allArchived, charged, bills, failedCharges, results>>
    BY <1>4 DEF ServeFails
  <2>2. NoPlan \in Plan
    BY DEF NoPlan, Plan
  <2>3. /\ DOMAIN cache' = Keys
        /\ \A k \in Keys : cache'[k] = cache[k] \/ cache'[k] = {}
    BY <1>1, <2>1 DEF TypeOK
  <2>4. \A k \in Keys : cache'[k] = {} \/ \E e \in cache'[k] : e \in Entry /\ cache'[k] = {e}
    BY <1>1, <2>3 DEF TypeOK
  <2>5. TypeOK'
    BY <1>1, <2>1, <2>2, <2>3, <2>4 DEF TypeOK, LedgerTypeOK, ledger, Awaits
  <2>6. CacheHoldsWholeResults'
    BY <2>3 DEF IInv, CacheHoldsWholeResults
  <2>7. pc'[r] = "prepare" /\ archived'[r] = {}
    BY <1>1, <2>1 DEF TypeOK
  <2>8. PositionInv(r)' /\ ArchiveInv(r)' /\ BillInv(r)' /\ FaultInv(r)'
    BY <1>1, <2>1, <2>7 DEF RequestInv, PositionInv, DeliveryInv, ArchiveInv, BillInv, FaultInv,
       LoopEnded, Uploading, Early, Late
  <2>9. DeliveryInv(r)'
    BY <1>1, <2>1, <2>7 DEF RequestInv, DeliveryInv, BillInv, ArchiveInv, Early, Late
  <2>10. QED
    BY <1>4, <2>5, <2>6, <2>8, <2>9, OneRequestAtATime DEF RequestInv, Run
<1>5. QED
  BY <1>2, <1>3, <1>4

\* An album is rejected; an except branch takes over.
LEMMA SetbackSteps ==
  ASSUME IInv, NEW r \in Requests, AlbumRejected(r) \/ Raise(r)
  PROVE  IInv'
<1> USE DEF position, record, copies, results, payments, GoTo
<1>1. TypeOK /\ RequestInv(r)
  BY DEF IInv
<1>2. UNCHANGED <<ledger, plan, pos, album, acked, delivered, volume, archived,
                  allArchived, charged, bills, failedCharges, resent, outcome, cache>>
  BY DEF AlbumRejected, Raise
<1>3. \/ /\ pc[r] = "album"
         /\ pc' = [pc EXCEPT ![r] = "fallback"]
      \/ /\ pc[r] \in {"prepare", "send", "fallback", "archive"}
         /\ pc' = [pc EXCEPT ![r] = "handler"]
  BY DEF AlbumRejected, Raise
<1>4. TypeOK'
  BY <1>1, <1>2, <1>3 DEF TypeOK, LedgerTypeOK, ledger, Awaits
<1>5. CacheHoldsWholeResults'
  BY <1>2 DEF IInv, CacheHoldsWholeResults
<1>6. \/ pc[r] = "album" /\ pc'[r] = "fallback"
      \/ pc[r] \in {"prepare", "send", "fallback", "archive"} /\ pc'[r] = "handler"
  BY <1>1, <1>3 DEF TypeOK
<1>6a. pc[r] \in Uploading => ~LoopEnded(r)
  BY <1>1, UploadingFacts DEF LoopEnded
<1>7. PositionInv(r)' /\ ArchiveInv(r)' /\ BillInv(r)' /\ FaultInv(r)'
  BY <1>1, <1>2, <1>6, <1>6a DEF RequestInv, PositionInv, DeliveryInv, ArchiveInv, BillInv, FaultInv,
       LoopEnded, Uploading, Early, Late
<1>8. DeliveryInv(r)'
  <2>1. ASSUME pc'[r] = "fallback"
        PROVE  \E g \in pos[r][1] .. album[r] : acked[r] = Before(plan[r], <<g, 1>>)
    <3>1. /\ pc[r] = "album" /\ acked[r] = Before(plan[r], pos[r])
          /\ pos[r] \in PartsOf(plan[r]) /\ pos[r][2] = 1 /\ pos[r][1] <= album[r]
          /\ album[r] \in Nat
      BY <1>1, <1>6, <2>1 DEF RequestInv, PositionInv, DeliveryInv, Uploading, TypeOK
    <3>2. pos[r] = <<pos[r][1], 1>> /\ pos[r][1] \in Nat
      BY <1>1, <3>1 DEF TypeOK, Part
    <3>3. QED
      BY <3>1, <3>2
  <2>2. QED
    BY <1>1, <1>2, <1>6, <2>1 DEF RequestInv, DeliveryInv, BillInv, ArchiveInv, Early, Late
<1>9. QED
  BY <1>4, <1>5, <1>7, <1>8, OneRequestAtATime DEF RequestInv, Run

\* The ways out: the finally block has the last word.
LEMMA EndSteps ==
  ASSUME IInv, NEW r \in Requests, Close(r) \/ Fail(r) \/ Cancel(r)
  PROVE  IInv'
BY FinallyStep DEF Close, Fail, Cancel, Awaits, Outcomes

\* The loop enters a group after everything before it was delivered.
LEMMA EnterGroupKeeps ==
  ASSUME TypeOK, NEW r \in Requests, NEW p \in Plans,
         NEW g \in 1 .. Len(p.groups) + 1,
         EnterGroup(r, p, g), plan'[r] = p,
         delivered'[r] = Before(p, <<g, 1>>), acked'[r] = delivered'[r],
         allArchived'[r] => archived'[r] = delivered'[r],
         resent'[r] = FALSE, outcome'[r] = "running",
         charged'[r] = FALSE, bills'[r] = << >>, failedCharges'[r] = 0
  PROVE  RequestInv(r)'
<1>1. /\ pos'[r] = <<g, 1>>
      /\ pc'[r] \in {"charge", "send", "album"}
      /\ pc'[r] = "charge" <=> g = Len(p.groups) + 1
      /\ PositionInv(r)'
  BY EnterGroupStep
<1>2. pc'[r] = "charge" => delivered'[r] = PartsOf(p)
  BY <1>1, BeforeEnds, PipelineAssumption
<1>3. DeliveryInv(r)'
  BY <1>1, <1>2 DEF DeliveryInv, Early, Late
<1>4. ArchiveInv(r)' /\ BillInv(r)' /\ FaultInv(r)'
  BY <1>1 DEF ArchiveInv, BillInv, FaultInv, Early, Uploading
<1>5. QED
  BY <1>1, <1>3, <1>4 DEF RequestInv

\* The result of the download enters the upload loop.
LEMMA PrepareStep ==
  ASSUME IInv, NEW r \in Requests, Prepare(r)
  PROVE  IInv'
<1> USE DEF record, copies, results, payments
<1>1. TypeOK /\ RequestInv(r) /\ pc[r] = "prepare"
  BY DEF IInv, Prepare
<1>2. PICK p \in Plans : plan' = [plan EXCEPT ![r] = p] /\ EnterGroup(r, p, 1)
  BY DEF Prepare
<1>3. p \in Plan /\ 1 \in 1 .. Len(p.groups) + 1
  BY PipelineAssumption DEF Plan
<1>4. plan' \in [Requests -> Plan] /\ plan'[r] = p
  BY <1>1, <1>2, <1>3 DEF TypeOK
<1>5. UNCHANGED <<ledger, acked, delivered, volume, archived, allArchived,
                  charged, bills, failedCharges, resent, outcome, cache>>
  BY DEF Prepare
<1>6. /\ pc' \in [Requests -> Awaits \cup {"idle", "charge", "done"}]
      /\ pos' \in [Requests -> Part]
      /\ album' \in [Requests -> Nat]
  BY <1>1, <1>2, <1>3, <1>4, EnterGroupStep
<1>7. TypeOK'
  BY <1>1, <1>4, <1>5, <1>6 DEF TypeOK, LedgerTypeOK, ledger
<1>8. CacheHoldsWholeResults'
  BY <1>5 DEF IInv, CacheHoldsWholeResults
<1>9. /\ acked[r] = {} /\ delivered[r] = {} /\ archived[r] = {}
      /\ resent[r] = FALSE /\ outcome[r] = "running"
      /\ charged[r] = FALSE /\ bills[r] = << >> /\ failedCharges[r] = 0
  BY <1>1 DEF RequestInv, DeliveryInv, ArchiveInv, BillInv, FaultInv, Early, TypeOK
<1>10. delivered'[r] = Before(p, <<1, 1>>) /\ acked'[r] = delivered'[r]
  BY <1>3, <1>5, <1>9, BeforeEnds
<1>11. RequestInv(r)'
  BY <1>1, <1>2, <1>3, <1>4, <1>5, <1>9, <1>10, EnterGroupKeeps
<1>12. QED
  BY <1>7, <1>8, <1>11, OneRequestAtATime DEF Run

\* A part is recorded after the batch it belongs to reached the chat: the parts
\* before it are on the list and `sent` is what the chat holds.
LEMMA RecordKeeps ==
  ASSUME TypeOK, NEW r \in Requests, NEW x \in PartsOf(plan[r]), Record(r, x),
         UNCHANGED <<plan, album>>,
         plan[r] \in Plans,
         album[r] \in 0 .. Len(plan[r].groups),
         album[r] # 0 => /\ x[2] = 1
                         /\ x[1] <= album[r]
                         /\ \A k \in x[1] .. album[r] : Len(plan[r].groups[k].sizes) = 1,
         delivered[r] = Before(plan[r], x),
         acked'[r] = IF album[r] = 0 THEN Before(plan[r], x) \cup {x}
                     ELSE Before(plan[r], <<album[r] + 1, 1>>),
         allArchived'[r] => archived'[r] = delivered[r],
         resent'[r] = FALSE, outcome'[r] = "running",
         charged'[r] = FALSE, bills'[r] = << >>, failedCharges'[r] = 0
  PROVE  RequestInv(r)'
<1>1. /\ pos'[r] = x
      /\ delivered'[r] = Before(plan[r], x) \cup {x}
      /\ pc'[r] \in {"archive", "handler"}
      /\ plan'[r] = plan[r] /\ album'[r] = album[r]
  BY RecordStep
<1>2. PositionInv(r)'
  BY <1>1 DEF PositionInv, Late
<1>3. ArchiveInv(r)' /\ BillInv(r)'
  BY <1>1 DEF ArchiveInv, BillInv
<1>3a. FaultInv(r)'
  <2>1. x[1] <= Len(plan[r].groups) /\ ~LoopEnded(r)'
    BY <1>1, PartsOfMember, PartsOfType DEF LoopEnded, TypeOK, Part
  <2>2. QED
    BY <1>1, <2>1 DEF FaultInv, Early, Uploading
<1>4. /\ delivered'[r] \subseteq acked'[r]
      /\ \A p \in acked'[r] \ delivered'[r] : p[1] \in x[1] .. album[r]
  <2>1. CASE album[r] = 0
    BY <1>1, <2>1
  <2>2. CASE album[r] # 0
    <3>1. plan[r] \in Plan /\ album[r] \in Nat /\ x[1] \in Nat /\ x[2] = 1 /\ x[1] <= album[r]
      BY <2>2, PartsOfType DEF TypeOK, Part
    <3>2. ASSUME NEW y \in PartsOf(plan[r])
          PROVE  y[1] \in Nat /\ y[2] \in Nat /\ y[2] >= 1
      BY <3>1, PartsOfType DEF Part
    <3>3. acked'[r] = Before(plan[r], <<album[r] + 1, 1>>)
      BY <2>2
    <3>4. QED
      BY <1>1, <3>1, <3>2, <3>3 DEF Before
  <2>3. QED
    BY <2>1, <2>2
<1>5. DeliveryInv(r)'
  BY <1>1, <1>4 DEF DeliveryInv, Early, Late
<1>6. QED
  BY <1>2, <1>3, <1>3a, <1>5 DEF RequestInv

\* The types after a step that records a part and touches nothing else but
\* the chat and the archived copies.
LEMMA RecordTypes ==
  ASSUME TypeOK, NEW r \in Requests, NEW x \in PartsOf(plan[r]), Record(r, x),
         UNCHANGED <<plan, album, charged, bills, failedCharges, resent, outcome, cache>>,
         acked' \in [Requests -> SUBSET Part],
         archived' \in [Requests -> SUBSET Part],
         allArchived' \in [Requests -> BOOLEAN]
  PROVE  TypeOK'
<1>1. /\ LedgerTypeOK'
      /\ pc' \in [Requests -> Awaits \cup {"idle", "charge", "done"}]
      /\ pos' \in [Requests -> Part]
      /\ delivered' \in [Requests -> SUBSET Part]
      /\ volume' \in [Requests -> Nat]
  BY RecordStep
<1>2. QED
  BY <1>1 DEF TypeOK

\* A part of its own is sent.
LEMMA SendPartStep ==
  ASSUME IInv, NEW r \in Requests, SendPart(r)
  PROVE  IInv'
<1> USE DEF copies, results, payments
<1>1. TypeOK /\ RequestInv(r) /\ pc[r] = "send" /\ pc[r] \in Uploading
  BY DEF IInv, SendPart, Uploading
<1>2. UNCHANGED <<plan, album, archived, allArchived, charged, bills, failedCharges, resent, outcome, cache>>
  BY DEF SendPart
<1>3. /\ pos[r] \in PartsOf(plan[r]) /\ pos[r] \in Part /\ plan[r] \in Plans
      /\ resent[r] = FALSE /\ outcome[r] = "running"
      /\ charged[r] = FALSE /\ bills[r] = << >> /\ failedCharges[r] = 0
  BY <1>1, UploadingFacts DEF TypeOK
<1>4. /\ acked' \in [Requests -> SUBSET Part]
      /\ acked'[r] = acked[r] \cup {pos[r]}
  BY <1>1, <1>3 DEF SendPart, TypeOK
<1>5. Record(r, pos[r])
  BY DEF SendPart
<1>6. TypeOK'
  BY <1>1, <1>2, <1>3, <1>4, <1>5, RecordTypes DEF TypeOK
<1>7. CacheHoldsWholeResults'
  BY <1>2 DEF IInv, CacheHoldsWholeResults
<1>8. /\ album[r] = 0 /\ 0 \in 0 .. Len(plan[r].groups)
      /\ acked[r] = delivered[r] /\ delivered[r] = Before(plan[r], pos[r])
      /\ allArchived[r] => archived[r] = delivered[r]
  BY <1>1, <1>3 DEF RequestInv, PositionInv, DeliveryInv, ArchiveInv, Uploading
<1>9. RequestInv(r)'
  BY <1>1, <1>2, <1>3, <1>4, <1>5, <1>8, RecordKeeps
<1>10. QED
  BY <1>6, <1>7, <1>9, OneRequestAtATime DEF Run

\* What an album or a fallback knows of its batch.
LEMMA BatchFacts ==
  ASSUME TypeOK, NEW r \in Requests, RequestInv(r),
         pc[r] \in Uploading, album[r] # 0
  PROVE  /\ pos[r][1] \in 1 .. Len(plan[r].groups)
         /\ pos[r] = <<pos[r][1], 1>>
         /\ album[r] \in pos[r][1] .. Len(plan[r].groups)
         /\ album[r] \in 0 .. Len(plan[r].groups)
         /\ \A k \in pos[r][1] .. album[r] :
              /\ Len(plan[r].groups[k].sizes) = 1
              /\ k \in 1 .. Len(plan[r].groups)
              /\ <<k, 1>> \in PartsOf(plan[r]) /\ <<k, 1>> \in Part
              /\ Before(plan[r], <<k + 1, 1>>) = Before(plan[r], <<k, 1>>) \cup {<<k, 1>>}
         /\ Before(plan[r], <<album[r] + 1, 1>>)
              = Before(plan[r], pos[r]) \cup ((pos[r][1] .. album[r]) \X {1})
         /\ ((pos[r][1] .. album[r]) \X {1}) \subseteq Part
<1>1. /\ pos[r] = <<pos[r][1], pos[r][2]>> /\ pos[r][1] \in Nat /\ album[r] \in Nat
      /\ pos[r][1] \in 1 .. Len(plan[r].groups)
      /\ plan[r] \in Plan /\ Len(plan[r].groups) \in Nat
  BY UploadingFacts
<1>2. /\ pos[r][2] = 1 /\ pos[r][1] <= album[r]
      /\ album[r] \in 0 .. Len(plan[r].groups)
      /\ \A k \in pos[r][1] .. album[r] : Len(plan[r].groups[k].sizes) = 1
  BY DEF RequestInv, PositionInv
<1>3. album[r] \in pos[r][1] .. Len(plan[r].groups) /\ pos[r] = <<pos[r][1], 1>>
  BY <1>1, <1>2
<1>4. ASSUME NEW k \in pos[r][1] .. album[r]
      PROVE  /\ k \in 1 .. Len(plan[r].groups)
             /\ <<k, 1>> \in PartsOf(plan[r]) /\ <<k, 1>> \in Part
             /\ Before(plan[r], <<k + 1, 1>>) = Before(plan[r], <<k, 1>>) \cup {<<k, 1>>}
  <2>1. k \in 1 .. Len(plan[r].groups) /\ Len(plan[r].groups[k].sizes) = 1
    BY <1>1, <1>2
  <2>2. QED
    BY <1>1, <2>1, WholeFile
<1>5. Before(plan[r], <<album[r] + 1, 1>>)
        = Before(plan[r], <<pos[r][1], 1>>) \cup ((pos[r][1] .. album[r]) \X {1})
  BY <1>1, <1>2, <1>3, BeforeBatch
<1>6. Before(plan[r], <<album[r] + 1, 1>>)
        = Before(plan[r], pos[r]) \cup ((pos[r][1] .. album[r]) \X {1})
  BY <1>3, <1>5
<1>7. pos[r][1] .. album[r] \subseteq Nat \ {0}
  BY <1>1
<1>8. ((pos[r][1] .. album[r]) \X {1}) \subseteq Part
  BY <1>7 DEF Part
<1>9. QED
  BY <1>1, <1>2, <1>3, <1>4, <1>6, <1>8

\* A whole album is sent.
LEMMA SendAlbumStep ==
  ASSUME IInv, NEW r \in Requests, SendAlbum(r)
  PROVE  IInv'
<1> USE DEF copies, results, payments
<1>1. /\ TypeOK /\ RequestInv(r) /\ pc[r] = "album" /\ pc[r] \in Uploading
      /\ album[r] # 0
  BY DEF IInv, SendAlbum, Uploading, RequestInv, PositionInv
<1>2. UNCHANGED <<plan, album, archived, allArchived, charged, bills, failedCharges, resent, outcome, cache>>
  BY DEF SendAlbum
<1>3. /\ pos[r] \in PartsOf(plan[r]) /\ plan[r] \in Plans
      /\ resent[r] = FALSE /\ outcome[r] = "running"
      /\ charged[r] = FALSE /\ bills[r] = << >> /\ failedCharges[r] = 0
  BY <1>1, UploadingFacts DEF TypeOK
<1> DEFINE batch == (pos[r][1] .. album[r]) \X {1}
<1>4. batch \subseteq Part
  BY <1>1, BatchFacts
<1>5. acked' = [acked EXCEPT ![r] = acked[r] \cup batch] /\ Record(r, pos[r])
  BY DEF SendAlbum
<1>6. Before(plan[r], <<album[r] + 1, 1>>) = Before(plan[r], pos[r]) \cup batch
  BY <1>1, BatchFacts
<1> HIDE DEF batch
<1>7. /\ acked' \in [Requests -> SUBSET Part]
      /\ acked'[r] = acked[r] \cup batch
  BY <1>1, <1>4, <1>5 DEF TypeOK
<1>8. TypeOK'
  BY <1>1, <1>2, <1>3, <1>5, <1>7, RecordTypes DEF TypeOK
<1>9. CacheHoldsWholeResults'
  BY <1>2 DEF IInv, CacheHoldsWholeResults
<1>10. /\ acked[r] = delivered[r] /\ delivered[r] = Before(plan[r], pos[r])
       /\ allArchived[r] => archived[r] = delivered[r]
  BY <1>1 DEF RequestInv, DeliveryInv, ArchiveInv
<1>11. /\ album[r] \in 0 .. Len(plan[r].groups)
       /\ pos[r][2] = 1 /\ pos[r][1] <= album[r]
       /\ \A k \in pos[r][1] .. album[r] : Len(plan[r].groups[k].sizes) = 1
  BY <1>1 DEF RequestInv, PositionInv
<1>12. RequestInv(r)'
  BY <1>1, <1>2, <1>3, <1>5, <1>6, <1>7, <1>10, <1>11, RecordKeeps
<1>13. QED
  BY <1>8, <1>9, <1>12, OneRequestAtATime DEF Run

\* One item of a rejected album is sent on its own.
LEMMA SendFallbackStep ==
  ASSUME IInv, NEW r \in Requests, SendFallback(r)
  PROVE  IInv'
<1> USE DEF copies, results, payments
<1>1. /\ TypeOK /\ RequestInv(r) /\ pc[r] = "fallback" /\ pc[r] \in Uploading
      /\ album[r] # 0
  BY DEF IInv, SendFallback, Uploading, RequestInv, PositionInv
<1>2. UNCHANGED <<plan, album, archived, allArchived, charged, bills, failedCharges, resent, outcome, cache>>
  BY DEF SendFallback
<1>3. /\ pos[r] \in PartsOf(plan[r]) /\ plan[r] \in Plans /\ plan[r] \in Plan
      /\ pos[r][1] \in Nat /\ album[r] \in Nat
      /\ resent[r] = FALSE /\ outcome[r] = "running"
      /\ charged[r] = FALSE /\ bills[r] = << >> /\ failedCharges[r] = 0
  BY <1>1, UploadingFacts DEF TypeOK
<1>4. PICK g \in pos[r][1] .. album[r] :
        /\ <<g, 1>> \notin acked[r]
        /\ \A k \in pos[r][1] .. g - 1 : <<k, 1>> \in acked[r]
        /\ acked' = [acked EXCEPT ![r] = acked[r] \cup {<<g, 1>>}]
        /\ \/ /\ g < album[r]
              /\ UNCHANGED <<ledger, pc, pos, delivered, volume>>
           \/ /\ g = album[r]
              /\ Record(r, pos[r])
  BY DEF SendFallback
<1>5. PICK n \in pos[r][1] .. album[r] : acked[r] = Before(plan[r], <<n, 1>>)
  BY <1>1 DEF RequestInv, DeliveryInv
<1>6. /\ <<g, 1>> \in PartsOf(plan[r]) /\ <<g, 1>> \in Part
      /\ Before(plan[r], <<g + 1, 1>>) = Before(plan[r], <<g, 1>>) \cup {<<g, 1>>}
  BY <1>1, BatchFacts
<1>7. g = n
  <2>1. g \in Nat /\ n \in Nat
    BY <1>3
  <2>2. ~(g < n)
    BY <1>4, <1>5, <1>6, <2>1 DEF Before
  <2>3. ASSUME n < g PROVE FALSE
    <3>1. n \in pos[r][1] .. g - 1
      BY <1>3, <2>1, <2>3
    <3>2. <<n, 1>> \in Before(plan[r], <<n, 1>>)
      BY <1>4, <1>5, <3>1
    <3>3. QED
      BY <2>1, <3>2 DEF Before
  <2>4. QED
    BY <2>1, <2>2, <2>3
<1>8. /\ acked' \in [Requests -> SUBSET Part]
      /\ acked'[r] = Before(plan[r], <<g + 1, 1>>)
  BY <1>1, <1>4, <1>5, <1>6, <1>7 DEF TypeOK
<1>9. CacheHoldsWholeResults'
  BY <1>2 DEF IInv, CacheHoldsWholeResults
<1>10. /\ delivered[r] = Before(plan[r], pos[r])
       /\ allArchived[r] => archived[r] = delivered[r]
       /\ \A p \in acked[r] \ delivered[r] : p[1] \in pos[r][1] .. album[r]
       /\ delivered[r] \subseteq acked[r]
  BY <1>1 DEF RequestInv, DeliveryInv, ArchiveInv
<1>11. CASE /\ g < album[r]
            /\ UNCHANGED <<ledger, pc, pos, delivered, volume>>
  <2>1. TypeOK'
    BY <1>1, <1>2, <1>8, <1>11 DEF TypeOK, LedgerTypeOK, ledger
  <2>2. PositionInv(r)' /\ ArchiveInv(r)' /\ BillInv(r)' /\ FaultInv(r)'
    BY <1>1, <1>2, <1>11 DEF RequestInv, PositionInv, ArchiveInv, BillInv, FaultInv, LoopEnded,
       Uploading, Early, Late
  <2>3. g + 1 \in pos[r][1] .. album[r]
    BY <1>3, <1>11
  <2>4. \E h \in pos'[r][1] .. album'[r] : acked'[r] = Before(plan'[r], <<h, 1>>)
    BY <1>2, <1>8, <1>11, <2>3
  <2>5. acked'[r] = acked[r] \cup {<<g, 1>>}
    BY <1>1, <1>4 DEF TypeOK
  <2>6. /\ delivered'[r] \subseteq acked'[r]
        /\ \A p \in acked'[r] \ delivered'[r] : p[1] \in pos'[r][1] .. album'[r]
    BY <1>2, <1>10, <1>11, <2>5
  <2>7. pc'[r] = "fallback" /\ outcome'[r] = "running" /\ delivered'[r] = Before(plan'[r], pos'[r])
    BY <1>1, <1>2, <1>3, <1>10, <1>11
  <2>8. DeliveryInv(r)'
    BY <2>4, <2>6, <2>7 DEF DeliveryInv, Early, Late
  <2>9. QED
    BY <1>9, <2>1, <2>2, <2>8, OneRequestAtATime DEF RequestInv, Run
<1>12. CASE g = album[r] /\ Record(r, pos[r])
  <2>1. archived' \in [Requests -> SUBSET Part] /\ allArchived' \in [Requests -> BOOLEAN]
    BY <1>1, <1>2 DEF TypeOK
  <2>2. TypeOK'
    BY <1>1, <1>2, <1>3, <1>8, <1>12, <2>1, RecordTypes
  <2>3. /\ album[r] \in 0 .. Len(plan[r].groups)
        /\ pos[r][2] = 1 /\ pos[r][1] <= album[r]
        /\ \A k \in pos[r][1] .. album[r] : Len(plan[r].groups[k].sizes) = 1
    BY <1>1 DEF RequestInv, PositionInv
  <2>4. RequestInv(r)'
    BY <1>1, <1>2, <1>3, <1>8, <1>10, <1>12, <2>3, RecordKeeps
  <2>5. QED
    BY <1>9, <2>2, <2>4, OneRequestAtATime DEF Run
<1>13. QED
  BY <1>4, <1>11, <1>12

\* A copy to the archive returned.
LEMMA ArchiveCopyStep ==
  ASSUME TypeOK, NEW r \in Requests, RequestInv(r), pc[r] = "archive",
         NEW copied \in BOOLEAN, ArchiveCopy(r, copied)
  PROVE  /\ archived' \in [Requests -> SUBSET Part]
         /\ allArchived' \in [Requests -> BOOLEAN]
         /\ allArchived'[r] => archived'[r] = delivered[r]
<1>1. pos[r] \in Part
  BY DEF TypeOK
<1>2. allArchived[r] => archived[r] \cup {pos[r]} = delivered[r]
  BY DEF RequestInv, ArchiveInv
<1>3. /\ archived' \in [Requests -> SUBSET Part]
      /\ copied => archived'[r] = archived[r] \cup {pos[r]}
  BY <1>1 DEF ArchiveCopy, TypeOK
<1>4. /\ allArchived' \in [Requests -> BOOLEAN]
      /\ allArchived'[r] => allArchived[r] /\ copied
  BY DEF ArchiveCopy, TypeOK
<1>5. QED
  BY <1>2, <1>3, <1>4

\* A part is archived and the loop goes on.
LEMMA ArchiveStep ==
  ASSUME IInv, NEW r \in Requests, Archive(r)
  PROVE  IInv'
<1> USE DEF results, payments
<1>1. TypeOK /\ RequestInv(r) /\ pc[r] = "archive" /\ pc[r] \in Uploading
  BY DEF IInv, Archive, Uploading
<1>2. UNCHANGED <<plan, acked, charged, bills, failedCharges, resent, outcome, cache>>
  BY DEF Archive
<1>3. /\ plan[r] \in Plans /\ plan[r] \in Plan /\ Len(plan[r].groups) \in Nat
      /\ pos[r] \in PartsOf(plan[r])
      /\ pos[r] = <<pos[r][1], pos[r][2]>>
      /\ pos[r][1] \in Nat /\ pos[r][1] \in 1 .. Len(plan[r].groups)
      /\ pos[r][2] \in Nat
      /\ pos[r][2] \in 1 .. Len(plan[r].groups[pos[r][1]].sizes)
      /\ Len(plan[r].groups[pos[r][1]].sizes) \in Nat
      /\ album[r] \in Nat
      /\ resent[r] = FALSE /\ outcome[r] = "running"
      /\ charged[r] = FALSE /\ bills[r] = << >> /\ failedCharges[r] = 0
  BY <1>1, UploadingFacts DEF TypeOK
<1>4. /\ archived' \in [Requests -> SUBSET Part]
      /\ allArchived' \in [Requests -> BOOLEAN]
      /\ allArchived'[r] => archived'[r] = delivered[r]
  <2>1. PICK copied \in {FALSE, ArchiveOn} : ArchiveCopy(r, copied)
    BY DEF Archive
  <2>2. copied \in BOOLEAN
    BY PipelineAssumption
  <2>3. QED
    BY <1>1, <2>1, <2>2, ArchiveCopyStep
<1>5. CacheHoldsWholeResults'
  BY <1>2 DEF IInv, CacheHoldsWholeResults
<1>6. /\ delivered[r] = Before(plan[r], pos[r]) \cup {pos[r]}
      /\ acked[r] = IF album[r] = 0 THEN delivered[r]
                    ELSE Before(plan[r], <<album[r] + 1, 1>>)
  BY <1>1 DEF RequestInv, DeliveryInv
<1> DEFINE g == pos[r][1]
           i == pos[r][2]
           last == Len(plan[r].groups[g].sizes)
<1>7. CASE /\ g < album[r]
           /\ Record(r, <<g + 1, 1>>)
           /\ UNCHANGED album
  <2>1. /\ g + 1 \in pos[r][1] .. album[r]
        /\ album[r] # 0
    BY <1>3, <1>7
  <2>2. /\ pos[r] = <<g, 1>> /\ album[r] \in 0 .. Len(plan[r].groups)
        /\ \A k \in g .. album[r] :
              /\ Len(plan[r].groups[k].sizes) = 1
              /\ <<k, 1>> \in PartsOf(plan[r])
              /\ Before(plan[r], <<k + 1, 1>>) = Before(plan[r], <<k, 1>>) \cup {<<k, 1>>}
    BY <1>1, <2>1, BatchFacts
  <2> DEFINE x == <<g + 1, 1>>
  <2>3. x \in PartsOf(plan[r]) /\ x[1] = g + 1 /\ x[2] = 1 /\ g \in g .. album[r]
    <3>1. g \in g .. album[r] /\ g + 1 \in g .. album[r]
      BY <1>3, <2>1
    <3>2. <<g + 1, 1>> \in PartsOf(plan[r])
      BY ONLY <2>2, <3>1
    <3>3. QED
      BY <3>1, <3>2
  <2>4. delivered[r] = Before(plan[r], x)
    BY <1>6, <2>2, <2>3
  <2>5. /\ x[1] <= album[r]
        /\ \A k \in x[1] .. album[r] : Len(plan[r].groups[k].sizes) = 1
    <3>1. x[1] .. album[r] \subseteq g .. album[r] /\ x[1] <= album[r]
      BY <1>3, <1>7, <2>3
    <3>2. QED
      BY <2>2, <3>1
  <2>6. Record(r, x) /\ acked'[r] = Before(plan[r], <<album[r] + 1, 1>>)
    BY <1>2, <1>6, <1>7, <2>1
  <2> HIDE DEF x, g, i, last
  <2>7. TypeOK'
    BY <1>1, <1>2, <1>4, <1>7, <2>3, <2>6, RecordTypes DEF TypeOK
  <2>8. RequestInv(r)'
    BY <1>1, <1>2, <1>3, <1>4, <1>7, <2>1, <2>2, <2>3, <2>4, <2>5, <2>6, RecordKeeps
  <2>9. QED
    BY <1>5, <2>7, <2>8, OneRequestAtATime DEF Run
<1>8. CASE /\ album[r] = 0 /\ i < last
           /\ pos' = [pos EXCEPT ![r] = <<g, i + 1>>]
           /\ GoTo(r, "send")
           /\ UNCHANGED <<ledger, album, delivered, volume>>
  <2>1. /\ <<g, i + 1>> \in PartsOf(plan[r])
        /\ Before(plan[r], <<g, i + 1>>) = delivered[r]
    BY <1>3, <1>6, <1>8, BeforeNextPart
  <2>2. <<g, i + 1>> \in Part
    BY <1>3, <2>1, PartsOfType
  <2>3. /\ pos' \in [Requests -> Part] /\ pos'[r] = <<g, i + 1>>
        /\ pc' \in [Requests -> Awaits \cup {"idle", "charge", "done"}] /\ pc'[r] = "send"
    BY <1>1, <1>8, <2>2 DEF TypeOK, GoTo, Awaits
  <2> HIDE DEF g, i, last
  <2>4. TypeOK'
    BY <1>1, <1>2, <1>4, <1>8, <2>3 DEF TypeOK, LedgerTypeOK, ledger
  <2>5. PositionInv(r)'
    BY <1>2, <1>3, <1>8, <2>1, <2>3 DEF PositionInv, Late
  <2>6. DeliveryInv(r)'
    BY <1>2, <1>3, <1>6, <1>8, <2>1, <2>3 DEF DeliveryInv, Early, Late
  <2>7. ArchiveInv(r)' /\ BillInv(r)' /\ FaultInv(r)'
    BY <1>2, <1>3, <1>4, <1>8, <2>3 DEF ArchiveInv, BillInv, FaultInv, Early, Uploading
  <2>8. QED
    BY <1>5, <2>4, <2>5, <2>6, <2>7, OneRequestAtATime DEF RequestInv, Run
<1>9. CASE /\ g = album[r] \/ (album[r] = 0 /\ i = last)
           /\ EnterGroup(r, plan[r], g + 1)
           /\ UNCHANGED <<ledger, delivered, volume>>
  <2>1. i = last
    <3>1. CASE g = album[r]
      <4>1. album[r] # 0 /\ g \in g .. album[r]
        BY <1>3, <3>1
      <4>2. i = 1 /\ last = 1
        BY <1>1, <1>3, <3>1, <4>1 DEF RequestInv, PositionInv
      <4>3. QED
        BY <4>2
    <3>2. QED
      BY <1>9, <3>1
  <2>2. Before(plan[r], <<g + 1, 1>>) = delivered[r]
    BY <1>3, <1>6, <2>1, BeforeNextGroup
  <2>3. acked[r] = delivered[r]
    <3>1. CASE g = album[r]
      BY <1>3, <1>6, <2>2, <3>1
    <3>2. QED
      BY <1>6, <1>9, <3>1
  <2>4. g + 1 \in 1 .. Len(plan[r].groups) + 1 /\ plan'[r] = plan[r]
    BY <1>2, <1>3
  <2>5. EnterGroup(r, plan[r], g + 1)
    BY <1>9
  <2> HIDE DEF g, i, last
  <2>6. /\ pc' \in [Requests -> Awaits \cup {"idle", "charge", "done"}]
        /\ pos' \in [Requests -> Part]
        /\ album' \in [Requests -> Nat]
    BY <1>1, <1>3, <2>4, <2>5, EnterGroupStep
  <2>7. TypeOK'
    BY <1>1, <1>2, <1>4, <1>9, <2>6 DEF TypeOK, LedgerTypeOK, ledger
  <2>8. RequestInv(r)'
    BY <1>1, <1>2, <1>3, <1>4, <1>9, <2>2, <2>3, <2>4, <2>5, EnterGroupKeeps
  <2>9. QED
    BY <1>5, <2>7, <2>8, OneRequestAtATime DEF Run
<1>10. QED
  BY <1>7, <1>8, <1>9 DEF Archive

\* The charge after the loop.
LEMMA ChargeDeliveredStep ==
  ASSUME IInv, NEW r \in Requests, ChargeDelivered(r)
  PROVE  IInv'
<1> USE DEF position, record, copies, results, payments, GoTo
<1>1. TypeOK /\ RequestInv(r) /\ pc[r] = "charge"
  BY DEF IInv, ChargeDelivered
<1>2. UNCHANGED <<plan, pos, album, acked, delivered, volume, archived,
                  allArchived, resent, outcome, cache>>
  BY DEF ChargeDelivered
<1>3. charged[r] = FALSE /\ bills[r] = << >> /\ failedCharges[r] = 0
  BY <1>1 DEF RequestInv, BillInv, FaultInv, TypeOK
<1>4. /\ LedgerTypeOK'
      /\ bills' \in [Requests -> Seq(SUBSET Part)]
      /\ failedCharges' \in [Requests -> Nat]
      /\ Charge(r) => bills'[r] = IF delivered[r] = {} THEN << >> ELSE <<delivered[r]>>
      /\ ~Charge(r) => bills'[r] = << >> /\ failedCharges'[r] = 1
  <2>1. Append(<< >>, delivered[r]) = <<delivered[r]>>
    OBVIOUS
  <2>2. Charge(r) \/ ChargeFails(r)
    BY DEF ChargeDelivered
  <2>3. /\ LedgerTypeOK'
        /\ bills' \in [Requests -> Seq(SUBSET Part)]
        /\ failedCharges' \in [Requests -> Nat]
        /\ Charge(r) => bills'[r] = IF delivered[r] = {} THEN bills[r]
                                    ELSE Append(bills[r], delivered[r])
        /\ ~Charge(r) => /\ bills'[r] = bills[r]
                         /\ failedCharges'[r] = failedCharges[r] + 1
    BY <1>1, <2>2, ChargeStep
  <2>4. QED
    BY <1>3, <2>1, <2>3
<1>5. /\ charged' \in [Requests -> BOOLEAN]
      /\ charged'[r] => Charge(r)
      /\ ~charged'[r] => bills'[r] = << >> /\ failedCharges'[r] = 1
  <2>1. CASE Charge(r) /\ charged' = [charged EXCEPT ![r] = TRUE]
    BY <1>1, <2>1 DEF TypeOK
  <2>2. CASE ChargeFails(r) /\ UNCHANGED charged
    BY <1>1, <1>3, <2>2 DEF TypeOK, ChargeFails
  <2>3. QED
    BY <2>1, <2>2 DEF ChargeDelivered
<1>6. /\ pc' \in [Requests -> Awaits \cup {"idle", "charge", "done"}]
      /\ pc'[r] = "extras"
  BY <1>1 DEF ChargeDelivered, TypeOK, Awaits
<1>7. TypeOK'
  BY <1>1, <1>2, <1>4, <1>5, <1>6 DEF TypeOK
<1>8. CacheHoldsWholeResults'
  BY <1>2 DEF IInv, CacheHoldsWholeResults
<1>9. PositionInv(r)' /\ ArchiveInv(r)'
  BY <1>1, <1>2, <1>6 DEF RequestInv, PositionInv, LoopEnded, ArchiveInv, Uploading, Late
<1>10. DeliveryInv(r)'
  BY <1>1, <1>2, <1>6 DEF RequestInv, DeliveryInv, Early, Late
<1>11. BillInv(r)'
  BY <1>1, <1>2, <1>4, <1>5, <1>6 DEF RequestInv, BillInv
<1>12. FaultInv(r)'
  <2>1. LoopEnded(r)'
    BY <1>1, <1>2 DEF RequestInv, PositionInv, Late, LoopEnded
  <2>2. QED
    BY <1>2, <1>5, <1>6, <2>1 DEF FaultInv, Early, Uploading
<1>13. QED
  BY <1>7, <1>8, <1>9, <1>10, <1>11, <1>12, OneRequestAtATime DEF RequestInv, Run

\* The result is stored, or not.
LEMMA ExtrasStep ==
  ASSUME IInv, NEW r \in Requests, Extras(r)
  PROVE  IInv'
<1> USE DEF position, record, copies, results, payments, GoTo
<1>1. TypeOK /\ RequestInv(r) /\ pc[r] = "extras"
  BY DEF IInv, Extras
<1>2. UNCHANGED <<ledger, plan, pos, album, acked, delivered, volume, archived,
                  allArchived, charged, bills, failedCharges, resent, outcome>>
  BY DEF Extras
<1>3. /\ pc' \in [Requests -> Awaits \cup {"idle", "charge", "done"}]
      /\ pc'[r] \in {"closing", "handler"}
  BY <1>1 DEF Extras, TypeOK, Awaits
<1>4. \/ UNCHANGED cache
      \/ \E e \in Entry :
           /\ KeyOf[r] \in Keys
           /\ e.parts = PartsOf(e.plan) /\ e.parts # {} /\ e.subs /\ ~e.plan.trimmed
           /\ cache' = [cache EXCEPT ![KeyOf[r]] = {e}]
  <2>1. PICK subs \in {plan[r].subs = 0, ArchiveOn \/ plan[r].subs = 0} :
          \/ UNCHANGED cache
          \/ /\ Cacheable(r, subs)
             /\ cache' = [cache EXCEPT ![KeyOf[r]] =
                   {[parts |-> archived[r], subs |-> subs, plan |-> plan[r]]}]
    BY DEF Extras
  <2>2. ASSUME Cacheable(r, subs)
        PROVE  /\ KeyOf[r] \in Keys
               /\ archived[r] = PartsOf(plan[r]) /\ archived[r] # {}
               /\ archived[r] \in SUBSET Part /\ plan[r] \in Plan
               /\ subs /\ ~plan[r].trimmed
    <3>1. archived[r] = delivered[r] /\ delivered[r] = PartsOf(plan[r])
      BY <1>1, <2>2 DEF Cacheable, RequestInv, ArchiveInv, DeliveryInv, Late
    <3>2. QED
      BY <1>1, <2>2, <3>1, PipelineAssumption DEF Cacheable, TypeOK
  <2>3. subs \in BOOLEAN
    BY PipelineAssumption
  <2>4. QED
    BY <2>1, <2>2, <2>3 DEF Entry
<1>5. /\ DOMAIN cache' = Keys
      /\ \A k \in Keys :
           \/ cache'[k] = cache[k]
           \/ \E e \in Entry :
                /\ e.parts = PartsOf(e.plan) /\ e.parts # {} /\ e.subs /\ ~e.plan.trimmed
                /\ cache'[k] = {e}
  <2>1. CASE UNCHANGED cache
    BY <1>1, <2>1 DEF TypeOK
  <2>2. ASSUME NEW e \in Entry, KeyOf[r] \in Keys,
               e.parts = PartsOf(e.plan), e.parts # {}, e.subs, ~e.plan.trimmed,
               cache' = [cache EXCEPT ![KeyOf[r]] = {e}]
        PROVE  <1>5!:
    <3>1. /\ DOMAIN cache' = Keys
          /\ \A k \in Keys : cache'[k] = cache[k] \/ cache'[k] = {e}
      BY <1>1, <2>2 DEF TypeOK
    <3>2. QED
      BY <2>2, <3>1
  <2>3. QED
    BY <1>4, <2>1, <2>2
<1>5a. CacheHoldsWholeResults'
  BY <1>5 DEF IInv, CacheHoldsWholeResults
<1>6. \A k \in Keys : cache'[k] = {} \/ \E e \in cache'[k] : e \in Entry /\ cache'[k] = {e}
  <2>1. ASSUME NEW k \in Keys, cache'[k] = cache[k]
        PROVE  cache'[k] = {} \/ \E e \in cache'[k] : e \in Entry /\ cache'[k] = {e}
    BY <1>1, <2>1 DEF TypeOK
  <2>2. ASSUME NEW k \in Keys, NEW e \in Entry, cache'[k] = {e}
        PROVE  \E d \in cache'[k] : d \in Entry /\ cache'[k] = {d}
    BY <2>2
  <2>3. QED
    BY <1>5, <2>1, <2>2
<1>7. TypeOK'
  BY <1>1, <1>2, <1>3, <1>5, <1>6 DEF TypeOK, LedgerTypeOK, ledger
<1>8. PositionInv(r)' /\ ArchiveInv(r)' /\ BillInv(r)' /\ FaultInv(r)'
  BY <1>1, <1>2, <1>3 DEF RequestInv, PositionInv, DeliveryInv, ArchiveInv, BillInv, FaultInv,
       LoopEnded, Uploading, Early, Late
<1>9. DeliveryInv(r)'
  BY <1>1, <1>2, <1>3 DEF RequestInv, DeliveryInv, BillInv, Early, Late
<1>10. QED
  BY <1>5a, <1>7, <1>8, <1>9, OneRequestAtATime DEF RequestInv, Run

-----------------------------------------------------------------------------
(***************************************************************************)
(* The theorems.                                                           *)
(***************************************************************************)

\* The initial states satisfy the invariant.
LEMMA InitIInv == Init => IInv
<1> SUFFICES ASSUME Init PROVE IInv
  OBVIOUS
<1>1. LedgerTypeOK
  BY CreditsAssumption DEF Init, LedgerInit, LedgerTypeOK
<1>2. NoPlan \in Plan /\ <<1, 1>> \in Part /\ << >> \in Seq(SUBSET Part)
  BY DEF NoPlan, Plan, Part
<1>3. TypeOK
  BY <1>1, <1>2 DEF Init, TypeOK, Outcomes
<1>4. CacheHoldsWholeResults
  BY DEF Init, CacheHoldsWholeResults
<1>5. ASSUME NEW r \in Requests PROVE RequestInv(r)
  BY DEF Init, RequestInv, PositionInv, DeliveryInv, ArchiveInv, BillInv, FaultInv,
     Uploading, Early, Late
<1>6. QED
  BY <1>3, <1>4, <1>5 DEF IInv

\* Every step keeps it.
LEMMA NextIInv == IInv /\ [Next]_vars => IInv'
<1> SUFFICES ASSUME IInv, [Next]_vars PROVE IInv'
  OBVIOUS
<1>1. ASSUME NEW r \in Requests, Run(r) \/ Cancel(r) PROVE IInv'
  BY <1>1, StartSteps, CacheSteps, SetbackSteps, EndSteps, PrepareStep, SendPartStep,
     SendAlbumStep, SendFallbackStep, ArchiveStep, ChargeDeliveredStep, ExtrasStep DEF Run
<1>2. CASE UNCHANGED vars
  <2>1. TypeOK' /\ CacheHoldsWholeResults'
    BY <1>2 DEF IInv, TypeOK, LedgerTypeOK, CacheHoldsWholeResults, vars, ledger, position,
                record, copies, results, payments
  <2>2. \A q \in Requests : Same(q)
    BY <1>2 DEF Same, vars, position, record, copies, results, payments
  <2>3. QED
    BY <2>1, <2>2, SameKeeps DEF IInv
<1>3. QED
  BY <1>1, <1>2 DEF Next, Finished

\* The inductive invariant holds in every reachable state.
THEOREM Invariant == Spec => []IInv
<1>1. QED
  BY InitIInv, NextIInv, PTL DEF Spec

\* Types: in particular no interleaving of requests and no failing statement
\* takes a balance or a bandwidth below zero.
THEOREM TypeCorrect == Spec => []TypeOK
<1>1. IInv => TypeOK
  BY DEF IInv
<1>2. QED
  BY <1>1, Invariant, PTL

\* A request is charged at most once, for exactly what is on its list.
THEOREM ChargedOnceExactly == Spec => []OneExactCharge
<1>1. IInv => OneExactCharge
  BY DEF IInv, RequestInv, BillInv, OneExactCharge
<1>2. QED
  BY <1>1, Invariant, PTL

\* A request that returned has paid for its list, unless every charge that was
\* due raised: a charge that fails after the loop is repeated at the end.
THEOREM ReturnedIsCharged == Spec => []NothingLeftUncharged
<1>1. IInv => NothingLeftUncharged
  BY DEF IInv, RequestInv, FaultInv, NothingLeftUncharged
<1>2. QED
  BY <1>1, Invariant, PTL

\* Nobody pays for what did not reach the chat.
THEOREM ChargedWasDelivered == Spec => []OnlyDeliveredIsCharged
<1>1. ASSUME IInv PROVE OnlyDeliveredIsCharged
  <2>1. ASSUME NEW r \in Requests, NEW n \in DOMAIN bills[r]
        PROVE  bills[r][n] \subseteq acked[r]
    <3>1. bills[r] \in {<< >>, <<delivered[r]>>}
      BY <1>1 DEF IInv, RequestInv, BillInv
    <3>2. bills[r][n] = delivered[r]
      BY <2>1, <3>1
    <3>3. QED
      BY <1>1, <3>2 DEF IInv, RequestInv, DeliveryInv
  <2>2. QED
    BY <2>1 DEF OnlyDeliveredIsCharged
<1>2. QED
  BY <1>1, Invariant, PTL

\* What is in the chat is on the list, but for the batch under way.
THEOREM DeliveredIsRecorded == Spec => []UnrecordedOnlyInAlbum
<1>1. IInv => UnrecordedOnlyInAlbum
  BY DEF IInv, RequestInv, DeliveryInv, UnrecordedOnlyInAlbum
<1>2. QED
  BY <1>1, Invariant, PTL

\* "Done" is said only of a whole result.
THEOREM SuccessIsTruthful == Spec => []TruthfulSuccess
<1>1. ASSUME IInv PROVE TruthfulSuccess
  <2>1. ASSUME NEW r \in Requests, outcome[r] = "done"
        PROVE  (IF resent[r] THEN archived[r] ELSE acked[r]) = PartsOf(plan[r])
    BY <1>1, <2>1 DEF IInv, RequestInv, DeliveryInv, ArchiveInv
  <2>2. QED
    BY <2>1 DEF TruthfulSuccess
<1>2. QED
  BY <1>1, Invariant, PTL

\* The cache never holds a partial result.
THEOREM CacheIsWhole == Spec => []CacheHoldsWholeResults
<1>1. IInv => CacheHoldsWholeResults
  BY DEF IInv
<1>2. QED
  BY <1>1, Invariant, PTL

-----------------------------------------------------------------------------
(***************************************************************************)
(* What a request delivered, in megabytes.                                 *)
(***************************************************************************)

SizeIn(p, x) == p.groups[x[1]].sizes[x[2]]

Total(p, S) == MapThenSumSet(LAMBDA x : SizeIn(p, x), S)

\* The fold that adds up sizes has a result, whatever part it takes first.
LEMMA TotalIsSum ==
  ASSUME NEW p, NEW S, IsFiniteSet(S), \A x \in S : SizeIn(p, x) \in Nat
  PROVE  \E f \in SumsOf(S, [x \in S |-> SizeIn(p, x)]) : Total(p, S) = f[S]
<1> DEFINE pick == [T \in SUBSET S |-> CHOOSE x \in T : TRUE]
           step == [q \in S \X Nat |-> SizeIn(p, q[1]) + q[2]]
           w == [x \in S |-> SizeIn(p, x)]
           iter == CHOOSE f : f = [s \in SUBSET S |->
                     IF s = {} THEN 0
                     ELSE SizeIn(p, CHOOSE x \in s : TRUE) + f[s \ {CHOOSE x \in s : TRUE}]]
<1>1. Total(p, S) = iter[S]
  BY Zenon DEF Total, MapThenSumSet, MapThenFoldSet
<1>2. \A T \in SUBSET S : T # {} => (CHOOSE x \in T : TRUE) \in T
  OBVIOUS
<1>3. \A T \in SUBSET S : T # {} => pick[T] \in T /\ pick[T] = CHOOSE x \in T : TRUE
  BY <1>2
<1>4. step \in [S \X Nat -> Nat]
  OBVIOUS
<1>5. PICK f \in [SUBSET S -> Nat] : \A T \in SUBSET S :
        f[T] = IF T = {} THEN 0 ELSE step[<<pick[T], f[T \ {pick[T]}]>>]
  <2> HIDE DEF step, pick
  <2>1. Picks(S, pick)
    BY <1>3 DEF Picks
  <2>2. FoldResults(S, Nat, 0, pick, step) # {}
    BY <2>1, <1>4, SetRecursion
  <2> QED
    BY <2>2 DEF FoldResults
<1>6. ASSUME NEW T \in SUBSET S, T # {}
      PROVE  f[T] = SizeIn(p, CHOOSE x \in T : TRUE) + f[T \ {CHOOSE x \in T : TRUE}]
  <2> DEFINE z == CHOOSE x \in T : TRUE
  <2>1. z \in T /\ pick[T] = z
    BY <1>3, <1>6
  <2> HIDE DEF z, pick
  <2>2. f[T] = step[<<z, f[T \ {z}]>>]
    BY <1>5, <1>6, <2>1
  <2>3. f[T \ {z}] \in Nat
    OBVIOUS
  <2> QED
    BY <2>1, <2>2, <2>3 DEF z
<1>7. f = [s \in SUBSET S |->
             IF s = {} THEN 0
             ELSE SizeIn(p, CHOOSE x \in s : TRUE) + f[s \ {CHOOSE x \in s : TRUE}]]
  <2> HIDE DEF step, pick
  <2> QED
    BY <1>5, <1>6
<1>8. iter = [s \in SUBSET S |->
                IF s = {} THEN 0
                ELSE SizeIn(p, CHOOSE x \in s : TRUE) + iter[s \ {CHOOSE x \in s : TRUE}]]
  BY <1>7, Zenon
<1>9. /\ DOMAIN iter = SUBSET S
      /\ iter[{}] = 0
      /\ \A T \in SUBSET S : T # {} =>
           iter[T] = SizeIn(p, pick[T]) + iter[T \ {pick[T]}]
  <2> HIDE DEF iter, step
  <2>1. \A T \in SUBSET S : iter[T] =
          IF T = {} THEN 0
          ELSE SizeIn(p, CHOOSE x \in T : TRUE) + iter[T \ {CHOOSE x \in T : TRUE}]
    BY <1>8
  <2>2. DOMAIN iter = SUBSET S
    BY <1>8
  <2> QED
    BY <1>3, <2>1, <2>2
<1> HIDE DEF iter, step, pick
<1> DEFINE P == {T \in SUBSET S : iter[T] \in Nat}
<1>10. SUBSET S \subseteq P
  <2>1. {} \in P
    BY <1>9
  <2>2. Picks(S, pick)
    BY <1>3 DEF Picks
  <2>3. ASSUME NEW T \in SUBSET S, T # {}, T \ {pick[T]} \in P
        PROVE  T \in P
    <3>1. pick[T] \in S
      BY <1>3, <2>3
    <3>2. SizeIn(p, pick[T]) \in Nat /\ iter[T \ {pick[T]}] \in Nat
      BY <2>3, <3>1
    <3> QED
      BY <1>9, <2>3, <3>2
  <2> HIDE DEF P
  <2> QED
    BY <2>1, <2>2, <2>3, PickInduction
<1>11. iter \in [SUBSET S -> Nat]
  BY <1>8, <1>10
<1>12. ASSUME NEW T \in SUBSET S, T # {}
       PROVE  \E x \in T : iter[T] = w[x] + iter[T \ {x}]
  <2>1. pick[T] \in T /\ pick[T] \in S
    BY <1>3, <1>12
  <2>2. w[pick[T]] = SizeIn(p, pick[T])
    BY <2>1
  <2> QED
    BY <1>9, <1>12, <2>1, <2>2
<1>13. iter \in SumsOf(S, w)
  <2> HIDE DEF w
  <2> QED
    BY <1>9, <1>11, <1>12 DEF SumsOf
<1> QED
  BY <1>1, <1>13

\* A part adds its size to the total.
LEMMA TotalAdds ==
  ASSUME NEW p, NEW S, IsFiniteSet(S), NEW x, x \notin S,
         \A y \in S \cup {x} : SizeIn(p, y) \in Nat
  PROVE  /\ Total(p, S) \in Nat
         /\ Total(p, S \cup {x}) = Total(p, S) + SizeIn(p, x)
<1> DEFINE U == S \cup {x}
           w == [y \in U |-> SizeIn(p, y)]
           v == [y \in S |-> SizeIn(p, y)]
<1>1. IsFiniteSet(U)
  BY FS_AddElement
<1>2. U \ {x} = S /\ x \in U /\ S \in SUBSET U /\ U \in SUBSET U
  OBVIOUS
<1>3. w \in [U -> Nat] /\ v \in [S -> Nat] /\ w[x] = SizeIn(p, x)
  OBVIOUS
<1>4. \A y \in S : v[y] = w[y]
  OBVIOUS
<1>5. PICK g \in SumsOf(S, v) : Total(p, S) = g[S]
  BY TotalIsSum
<1>6. PICK f \in SumsOf(U, w) : Total(p, U) = f[U]
  BY <1>1, TotalIsSum
<1> HIDE DEF w, v
<1>7. g[S] = f[S]
  <2> HIDE DEF U
  <2> QED
    BY <1>1, <1>2, <1>3, <1>4, SumsAgree
<1>8. f[U] = f[S] + w[x]
  <2> HIDE DEF U
  <2> QED
    BY <1>1, <1>2, <1>3, SumOrder
<1>9. g[S] \in Nat
  BY DEF SumsOf
<1> QED
  BY <1>3, <1>5, <1>6, <1>7, <1>8, <1>9

\* Nothing adds up to nothing.
LEMMA TotalOfNone ==
  ASSUME NEW p
  PROVE  Total(p, {}) = 0
<1>1. IsFiniteSet({})
  BY FS_EmptySet
<1>2. PICK f \in SumsOf({}, [x \in {} |-> SizeIn(p, x)]) : Total(p, {}) = f[{}]
  BY <1>1, TotalIsSum
<1> QED
  BY <1>2 DEF SumsOf

\* The sum of the property is this total.
LEMMA MegabytesIsTotal ==
  ASSUME NEW r \in Requests, NEW S
  PROVE  Megabytes(r, S) = Total(plan[r], S)
BY Zenon DEF Megabytes, Total, Size, SizeIn, MapThenSumSet, MapThenFoldSet

\* volume is the total of what is on the list, which are parts of the plan.
VolumeInv(r) ==
  /\ delivered[r] \subseteq PartsOf(plan[r])
  /\ IsFiniteSet(delivered[r])
  /\ volume[r] = Total(plan[r], delivered[r])

\* A part that comes next is not on the list.
LEMMA NotBefore ==
  ASSUME NEW p \in Plan, NEW x \in PartsOf(p)
  PROVE  x \notin Before(p, x)
<1>1. x[1] \in Nat /\ x[2] \in Nat
  BY PartsOfType DEF Part
<1> QED
  BY <1>1 DEF Before

\* A step either records a part of the plan that is not on the list yet, or
\* leaves the list alone, and the plan too unless the list is empty.
LEMMA ListSteps ==
  ASSUME IInv, NEW r \in Requests, Run(r) \/ Cancel(r)
  PROVE  \/ /\ UNCHANGED <<delivered, volume>>
            /\ plan'[r] = plan[r] \/ delivered[r] = {}
         \/ /\ UNCHANGED plan
            /\ \E x \in PartsOf(plan[r]) \ delivered[r] : Record(r, x)
<1> USE DEF position, record, copies, results, payments
<1> DEFINE Leaves == /\ UNCHANGED <<delivered, volume>>
                     /\ plan'[r] = plan[r] \/ delivered[r] = {}
           Adds == /\ UNCHANGED plan
                   /\ \E x \in PartsOf(plan[r]) \ delivered[r] : Record(r, x)
<1>1. TypeOK /\ PositionInv(r) /\ DeliveryInv(r) /\ plan[r] \in Plan
  BY DEF IInv, RequestInv, TypeOK
<1>2. CASE \/ Refuse(r) \/ FailEarly(r) \/ StartDownload(r) \/ Serve(r) \/ DeleteFails(r)
           \/ AlbumRejected(r) \/ ChargeDelivered(r) \/ Extras(r) \/ Raise(r)
  BY <1>2 DEF Refuse, FailEarly, StartDownload, Serve, DeleteFails, AlbumRejected,
              ChargeDelivered, Extras, Raise
<1>3. CASE Close(r) \/ Fail(r) \/ Cancel(r)
  BY <1>3 DEF Close, Fail, Cancel, Finally
<1>4. CASE StartFromCache(r) \/ ServeFails(r) \/ Prepare(r)
  <2>1. UNCHANGED <<delivered, volume>>
    BY <1>4 DEF StartFromCache, ServeFails, Prepare
  <2>2. pc[r] \in Early
    BY <1>4 DEF StartFromCache, ServeFails, Prepare, Early
  <2>3. delivered[r] = {}
    BY <1>1, <2>2 DEF DeliveryInv
  <2> QED
    BY <2>1, <2>3
<1>5. ASSUME pc[r] \in {"send", "album", "fallback"}
      PROVE  pos[r] \in PartsOf(plan[r]) \ delivered[r]
  <2>1. pos[r] \in PartsOf(plan[r]) /\ delivered[r] = Before(plan[r], pos[r])
    BY <1>1, <1>5 DEF PositionInv, DeliveryInv, Uploading
  <2> QED
    BY <1>1, <2>1, NotBefore
<1>6. CASE SendPart(r) \/ SendAlbum(r)
  <2>1. Record(r, pos[r]) /\ UNCHANGED plan /\ pc[r] \in {"send", "album", "fallback"}
    BY <1>6 DEF SendPart, SendAlbum
  <2> QED
    BY <1>5, <2>1
<1>7. CASE SendFallback(r)
  <2>1. /\ UNCHANGED plan /\ pc[r] \in {"send", "album", "fallback"}
        /\ UNCHANGED <<delivered, volume>> \/ Record(r, pos[r])
    BY <1>7 DEF SendFallback
  <2> QED
    BY <1>5, <2>1
<1>8. CASE Archive(r)
  <2> DEFINE g == pos[r][1]
             y == <<g + 1, 1>>
  <2>1. /\ pc[r] = "archive" /\ UNCHANGED plan
        /\ UNCHANGED <<delivered, volume>> \/ (g < album[r] /\ Record(r, y))
    BY <1>8 DEF Archive
  <2>2. CASE UNCHANGED <<delivered, volume>>
    BY <2>1, <2>2
  <2>3. CASE g < album[r] /\ Record(r, y)
    <3>1. /\ pos[r] \in PartsOf(plan[r])
          /\ album[r] \in 0 .. Len(plan[r].groups)
          /\ album[r] # 0 => \A k \in pos[r][1] .. album[r] :
                                Len(plan[r].groups[k].sizes) = 1
      BY <1>1, <2>1 DEF PositionInv, Uploading, Late
    <3>2. delivered[r] = Before(plan[r], pos[r]) \cup {pos[r]}
      BY <1>1, <2>1 DEF DeliveryInv
    <3>3. g \in Nat /\ Len(plan[r].groups) \in Nat /\ g >= 1
      BY <1>1, <3>1, PartsOfType DEF Part
    <3>4. g + 1 \in 1 .. Len(plan[r].groups) /\ g + 1 \in pos[r][1] .. album[r]
          /\ album[r] # 0
      BY <2>3, <3>1, <3>3
    <3>5. y \in PartsOf(plan[r])
      BY <1>1, <3>1, <3>4, WholeFile
    <3>6. y # pos[r] /\ y \notin Before(plan[r], pos[r])
      BY <3>3 DEF Before
    <3> QED
      BY <2>1, <2>3, <3>2, <3>5, <3>6
  <2> QED
    BY <2>1, <2>2, <2>3
<1> HIDE DEF Leaves, Adds
<1>9. Leaves \/ Adds
  BY <1>2, <1>3, <1>4, <1>6, <1>7, <1>8 DEF Run, Leaves, Adds
<1> QED
  BY <1>9 DEF Leaves, Adds

\* Recording a part keeps volume the total of the list.
LEMMA VolumeKeeps ==
  ASSUME IInv, NEW r \in Requests, Run(r) \/ Cancel(r),
         \A q \in Requests : VolumeInv(q)
  PROVE  \A q \in Requests : VolumeInv(q)'
<1>1. TypeOK
  BY DEF IInv
<1>2. CASE /\ UNCHANGED <<delivered, volume>>
           /\ plan'[r] = plan[r] \/ delivered[r] = {}
  <2> SUFFICES ASSUME NEW q \in Requests
      PROVE  VolumeInv(q)'
    OBVIOUS
  <2>1. VolumeInv(q) /\ delivered'[q] = delivered[q] /\ volume'[q] = volume[q]
    BY <1>2
  <2>2. CASE plan'[q] = plan[q]
    BY <2>1, <2>2 DEF VolumeInv
  <2>3. CASE plan'[q] # plan[q]
    <3>1. q = r
      BY <1>1, <2>3, Locality DEF Same
    <3>2. delivered[q] = {}
      BY <1>2, <2>3, <3>1
    <3>3. volume[q] = 0
      BY <2>1, <3>2, TotalOfNone DEF VolumeInv
    <3> QED
      BY <2>1, <3>2, <3>3, TotalOfNone DEF VolumeInv
  <2> QED
    BY <2>2, <2>3
<1>3. CASE /\ UNCHANGED plan
           /\ \E x \in PartsOf(plan[r]) \ delivered[r] : Record(r, x)
  <2>1. PICK x \in PartsOf(plan[r]) \ delivered[r] : Record(r, x)
    BY <1>3
  <2>2. /\ delivered' = [delivered EXCEPT ![r] = @ \cup {x}]
        /\ volume' = [volume EXCEPT ![r] = @ + Size(r, x)]
    BY <2>1 DEF Record
  <2>3. delivered \in [Requests -> SUBSET Part] /\ volume \in [Requests -> Nat]
        /\ plan[r] \in Plan
    BY <1>1 DEF TypeOK
  <2>4. VolumeInv(r)'
    <3>1. /\ delivered'[r] = delivered[r] \cup {x}
          /\ volume'[r] = volume[r] + SizeIn(plan[r], x)
          /\ plan'[r] = plan[r]
      BY <1>3, <2>2, <2>3 DEF Size, SizeIn
    <3>2. VolumeInv(r)
      OBVIOUS
    <3>3. \A y \in delivered[r] \cup {x} : SizeIn(plan[r], y) \in Nat
      BY <2>3, <3>2, PartsOfType DEF VolumeInv, SizeIn
    <3>4. Total(plan[r], delivered[r] \cup {x}) = Total(plan[r], delivered[r]) + SizeIn(plan[r], x)
      BY <3>2, <3>3, TotalAdds DEF VolumeInv
    <3>5. IsFiniteSet(delivered[r] \cup {x})
      BY <3>2, FS_AddElement DEF VolumeInv
    <3> QED
      BY <3>1, <3>2, <3>4, <3>5 DEF VolumeInv
  <2>5. ASSUME NEW q \in Requests, q # r
        PROVE  VolumeInv(q)'
    <3>1. delivered'[q] = delivered[q] /\ volume'[q] = volume[q] /\ plan'[q] = plan[q]
      BY <1>3, <2>2, <2>3, <2>5
    <3>2. VolumeInv(q)
      OBVIOUS
    <3> QED
      BY <3>1, <3>2 DEF VolumeInv
  <2> QED
    BY <2>4, <2>5
<1> QED
  BY <1>2, <1>3, ListSteps

-----------------------------------------------------------------------------
(***************************************************************************)
(* What a charge takes.                                                    *)
(***************************************************************************)

\* In every reachable state volume, which use_quota_dynamic charges, is the total
\* of what is on delivered_sizes.
THEOREM VolumeIsTotal == Spec => [](IInv /\ \A r \in Requests : VolumeInv(r))
<1> DEFINE VInv == \A r \in Requests : VolumeInv(r)
<1>1. Init => VInv
  <2> SUFFICES ASSUME Init, NEW r \in Requests
      PROVE  VolumeInv(r)
    OBVIOUS
  <2>1. delivered[r] = {} /\ volume[r] = 0
    BY DEF Init
  <2> QED
    BY <2>1, TotalOfNone, FS_EmptySet DEF VolumeInv
<1>2. IInv /\ VInv /\ [Next]_vars => VInv'
  <2> SUFFICES ASSUME IInv, VInv, [Next]_vars
      PROVE  VInv'
    OBVIOUS
  <2>1. ASSUME NEW r \in Requests, Run(r) \/ Cancel(r)
        PROVE  VInv'
    BY <2>1, VolumeKeeps
  <2>2. CASE UNCHANGED vars
    BY <2>2 DEF VolumeInv, vars, position, record
  <2> QED
    BY <2>1, <2>2 DEF Next, Finished
<1> HIDE DEF VInv
<1>3. IInv /\ VInv <=> IInv /\ \A r \in Requests : VolumeInv(r)
  BY DEF VInv
<1> QED
  BY <1>1, <1>2, <1>3, InitIInv, NextIInv, PTL DEF Spec

\* The price of mb megabytes: the least number of credits that covers them, and
\* at least one.
PriceOf(mb) ==
  IF mb <= MbPerCredit THEN 1
  ELSE CHOOSE c \in 1 .. mb : /\ (c - 1) * MbPerCredit < mb
                              /\ mb <= c * MbPerCredit

\* That is what credits_for_sizes computes by integer division.
THEOREM PriceIsCeiling ==
  ASSUME NEW mb \in Nat
  PROVE  CreditsForSizes(TRUE, mb) = PriceOf(mb)
<1> DEFINE M == MbPerCredit
           q == (mb + M - 1) \div M
<1>1. M \in Nat /\ M >= 1
  BY CreditsAssumption
<1> HIDE DEF M
<1>2. q \in Nat /\ M * q <= mb + M - 1 /\ mb + M - 1 < M * q + M
  BY <1>1, SMT
<1>3. CreditsForSizes(TRUE, mb) = IF q > 1 THEN q ELSE 1
  BY DEF CreditsForSizes, M
<1> HIDE DEF q
<1>4. (q - 1) * M = M * q - M /\ q * M = M * q
  BY <1>1, <1>2, SMT
<1>5. CASE mb <= M
  <2>1. q <= 1
    <3>1. ASSUME q >= 2 PROVE FALSE
      <4>1. M * q >= M * 2
        BY <1>1, <1>2, <3>1, SMT
      <4> QED
        BY <1>1, <1>2, <1>5, <4>1
    <3> QED
      BY <1>2, <3>1
  <2> QED
    <3>1. PriceOf(mb) = 1
      BY <1>5, Zenon DEF PriceOf, M
    <3>2. ~(q > 1)
      BY <1>2, <2>1
    <3> QED
      BY <1>3, <3>1, <3>2, Zenon
<1>6. CASE mb > M
  <2>1. q > 1
    <3>1. ASSUME q <= 1 PROVE FALSE
      <4>1. q = 0 \/ q = 1
        BY <1>2, <3>1
      <4>2. M * 0 = 0 /\ M * 1 = M
        BY <1>1
      <4> QED
        BY <1>1, <1>2, <1>6, <4>1, <4>2
    <3> QED
      BY <1>2, <3>1
  <2>2. q <= mb
    <3>1. ASSUME q >= mb + 1 PROVE FALSE
      <4>1. M * q >= M * (mb + 1) /\ M * (mb + 1) = M * mb + M /\ M * mb >= mb
        BY <1>1, <1>2, <3>1, SMT
      <4>2. M * q \in Nat /\ M * (mb + 1) \in Nat /\ M * mb \in Nat
        BY <1>1, <1>2
      <4> QED
        BY <1>1, <1>2, <1>6, <4>1, <4>2
    <3> QED
      BY <1>2, <3>1
  <2>3. q \in 1 .. mb /\ (q - 1) * M < mb /\ mb <= q * M
    <3>1. M * q \in Nat
      BY <1>1, <1>2
    <3> QED
      BY <1>1, <1>2, <1>4, <2>1, <2>2, <3>1
  <2>4. ASSUME NEW c \in 1 .. mb, (c - 1) * M < mb, mb <= c * M
        PROVE  c = q
    <3>1. c \in Nat /\ (c - 1) * M = M * c - M /\ c * M = M * c
      BY <1>1, SMT
    <3>2. ASSUME c < q PROVE FALSE
      <4>1. M * q >= M * (c + 1) /\ M * (c + 1) = M * c + M
        BY <1>1, <1>2, <3>1, <3>2, SMT
      <4>2. M * q \in Nat /\ M * c \in Nat
        BY <1>1, <1>2, <3>1
      <4> QED
        BY <1>1, <1>2, <2>4, <3>1, <4>1, <4>2
    <3>3. ASSUME c > q PROVE FALSE
      <4>1. M * c >= M * (q + 1) /\ M * (q + 1) = M * q + M
        BY <1>1, <1>2, <3>1, <3>3, SMT
      <4>2. M * q \in Nat /\ M * c \in Nat
        BY <1>1, <1>2, <3>1
      <4> QED
        BY <1>1, <1>2, <2>3, <2>4, <1>4, <3>1, <4>1, <4>2
    <3> QED
      BY <1>2, <3>1, <3>2, <3>3
  <2>5. q = CHOOSE c \in 1 .. mb : (c - 1) * M < mb /\ mb <= c * M
    BY <2>3, <2>4, Zenon
  <2> QED
    <3>1. ~(mb <= M)
      BY <1>1, <1>6
    <3>2. PriceOf(mb) = q
      BY <2>5, <3>1, Zenon DEF PriceOf, M
    <3> QED
      BY <1>3, <2>1, <3>2, Zenon
<1>7. mb <= M \/ mb > M
  BY <1>1
<1> QED
  BY <1>5, <1>6, <1>7, Zenon

\* A charge takes its price, free credits first, or all there is.
LEMMA ChargeTakesThePrice ==
  ASSUME LedgerTypeOK, NEW u \in Users, NEW mb \in Nat, UseQuotaDynamic(u, TRUE, mb)
  PROVE  \A v \in Users : <<free[v], paid[v]>>' # <<free[v], paid[v]>> =>
           /\ v = u
           /\ free'[u] + paid'[u] =
                (free[u] + paid[u]) - Smaller(PriceOf(mb), free[u] + paid[u])
           /\ paid'[u] < paid[u] => free'[u] = 0
<1>1. CASE ~EnableVip
  BY <1>1 DEF UseQuotaDynamic
<1>2. CASE EnableVip
  <2> DEFINE price == PriceOf(mb)
             fromFree == Smaller(price, free[u])
             fromPaid == Smaller(price - fromFree, paid[u])
  <2>1. price \in Nat
    BY PriceIsCeiling, PriceType
  <2>2. Deduct(u, price)
    BY <1>2, PriceIsCeiling DEF UseQuotaDynamic
  <2> HIDE DEF price
  <2>3. /\ free' = [free EXCEPT ![u] = free[u] - fromFree]
        /\ paid' = [paid EXCEPT ![u] = paid[u] - fromPaid]
    BY <2>2 DEF Deduct
  <2>4. /\ free \in [Users -> Nat] /\ paid \in [Users -> Nat]
        /\ free[u] \in Nat /\ paid[u] \in Nat
    BY DEF LedgerTypeOK
  <2>5. free'[u] = free[u] - fromFree /\ paid'[u] = paid[u] - fromPaid
    BY <2>3, <2>4
  <2>6. \A v \in Users : v # u => free'[v] = free[v] /\ paid'[v] = paid[v]
    BY <2>3, <2>4
  <2>7. /\ fromFree + fromPaid = Smaller(price, free[u] + paid[u])
        /\ fromFree \in Nat /\ fromPaid \in Nat
        /\ fromPaid > 0 => fromFree = free[u]
    BY <2>1, <2>4 DEF Smaller
  <2> HIDE DEF fromFree, fromPaid
  <2>8. Smaller(price, free[u] + paid[u]) \in Nat
    BY <2>1, <2>4 DEF Smaller
  <2>9. /\ free'[u] + paid'[u] = (free[u] + paid[u]) - Smaller(price, free[u] + paid[u])
        /\ paid'[u] < paid[u] => free'[u] = 0
    BY <2>4, <2>5, <2>7, <2>8
  <2> QED
    BY <2>6, <2>9 DEF price
<1> QED
  BY <1>1, <1>2, CreditsAssumption

\* The whole list of a request that was not billed before is charged.
ChargesList(r) ==
  /\ delivered[r] # {}
  /\ UseQuotaDynamic(UserOf[r], TRUE, volume[r])
  /\ bills[r] = << >>
  /\ bills'[r] = <<delivered[r]>>

\* Nothing else changes a balance.
LEMMA BalanceSteps ==
  ASSUME IInv, NEW r \in Requests, Run(r) \/ Cancel(r)
  PROVE  UNCHANGED <<free, paid>> \/ ChargesList(r)
<1>1. TypeOK /\ BillInv(r)
  BY DEF IInv, RequestInv
<1>2. CASE \/ Refuse(r) \/ FailEarly(r) \/ StartFromCache(r) \/ StartDownload(r)
           \/ Serve(r) \/ ServeFails(r) \/ DeleteFails(r) \/ Prepare(r)
           \/ AlbumRejected(r) \/ Extras(r) \/ Raise(r)
  BY <1>2 DEF Refuse, FailEarly, StartFromCache, StartDownload, Serve, ServeFails,
              DeleteFails, Prepare, AlbumRejected, Extras, Raise, ledger
<1>3. ASSUME NEW x, Record(r, x)
      PROVE  UNCHANGED <<free, paid>>
  BY <1>3 DEF Record, AddBandwidthUsed, ledger
<1>4. CASE SendPart(r) \/ SendAlbum(r) \/ SendFallback(r) \/ Archive(r)
  BY <1>3, <1>4 DEF SendPart, SendAlbum, SendFallback, Archive, ledger
<1>5. ASSUME Charge(r), ~charged[r], pc[r] # "done"
      PROVE  UNCHANGED <<free, paid>> \/ ChargesList(r)
  <2>1. bills[r] = << >> /\ bills \in [Requests -> Seq(SUBSET Part)]
    BY <1>1, <1>5 DEF BillInv, TypeOK
  <2>2. /\ UseQuotaDynamic(UserOf[r], delivered[r] # {}, volume[r])
        /\ bills' = IF delivered[r] = {} THEN bills
                    ELSE [bills EXCEPT ![r] = Append(bills[r], delivered[r])]
    BY <1>5 DEF Charge
  <2>3. CASE delivered[r] = {}
    <3>1. UseQuotaDynamic(UserOf[r], FALSE, volume[r])
      BY <2>2, <2>3
    <3>2. CreditsForSizes(FALSE, volume[r]) = 0
      BY DEF CreditsForSizes
    <3>3. UserOf[r] \in Users /\ free \in [Users -> Nat] /\ paid \in [Users -> Nat]
      BY <1>1, PipelineAssumption DEF TypeOK, LedgerTypeOK
    <3>4. CASE EnableVip
      <4>1. Deduct(UserOf[r], 0)
        BY <3>1, <3>2, <3>4 DEF UseQuotaDynamic
      <4>2. Smaller(0, free[UserOf[r]]) = 0 /\ Smaller(0 - 0, paid[UserOf[r]]) = 0
        BY <3>3 DEF Smaller
      <4>3. /\ free' = [free EXCEPT ![UserOf[r]] = free[UserOf[r]] - 0]
            /\ paid' = [paid EXCEPT ![UserOf[r]] = paid[UserOf[r]] - 0]
        BY <4>1, <4>2 DEF Deduct
      <4>4. free[UserOf[r]] - 0 = free[UserOf[r]] /\ paid[UserOf[r]] - 0 = paid[UserOf[r]]
        BY <3>3
      <4> QED
        BY <3>3, <4>3, <4>4
    <3>5. CASE ~EnableVip
      BY <3>1, <3>5 DEF UseQuotaDynamic
    <3> QED
      BY <3>4, <3>5, Zenon
  <2>4. CASE delivered[r] # {}
    <3>1. UseQuotaDynamic(UserOf[r], TRUE, volume[r])
      BY <2>2, <2>4
    <3>2. bills'[r] = Append(bills[r], delivered[r])
      BY <2>1, <2>2, <2>4
    <3>3. Append(<< >>, delivered[r]) = <<delivered[r]>>
      OBVIOUS
    <3>4. bills'[r] = <<delivered[r]>>
      BY <2>1, <3>2, <3>3
    <3> QED
      BY <2>1, <2>4, <3>1, <3>4, Zenon DEF ChargesList
  <2> QED
    BY <2>3, <2>4
<1>6. CASE ChargeDelivered(r)
  <2>1. pc[r] = "charge" /\ (Charge(r) \/ ChargeFails(r))
    BY <1>6 DEF ChargeDelivered
  <2>2. ~charged[r]
    BY <1>1, <2>1 DEF BillInv
  <2> QED
    BY <1>5, <2>1, <2>2 DEF ChargeFails, ledger
<1>7. ASSUME NEW end, Finally(r, end), pc[r] # "done"
      PROVE  UNCHANGED <<free, paid>> \/ ChargesList(r)
  BY <1>5, <1>7 DEF Finally, ChargeFails, ledger
<1>8. CASE Close(r) \/ Fail(r) \/ Cancel(r)
  <2>1. \E end \in {"done", "failed", "cancelled"} : Finally(r, end) /\ pc[r] # "done"
    BY <1>8 DEF Close, Fail, Cancel, Awaits
  <2> QED
    BY <1>7, <2>1, Zenon
<1> QED
  BY <1>2, <1>4, <1>6, <1>8 DEF Run

\* What the property asks of a request r that charges user u.
ExactFor(u, r) ==
  LET mb == Megabytes(r, delivered[r])
      price == IF mb <= MbPerCredit THEN 1
               ELSE CHOOSE c \in 1 .. mb : /\ (c - 1) * MbPerCredit < mb
                                           /\ mb <= c * MbPerCredit
      balance == free[u] + paid[u]
  IN  /\ UserOf[r] = u
      /\ bills[r] = << >> /\ bills'[r] = <<delivered[r]>>
      /\ free'[u] + paid'[u] = balance - Smaller(price, balance)
      /\ paid'[u] < paid[u] => free'[u] = 0

\* A charge of everything the request delivered is what it asks for.
LEMMA ChargeIsExact ==
  ASSUME IInv, NEW r \in Requests, VolumeInv(r), ChargesList(r),
         NEW u \in Users, <<free[u], paid[u]>>' # <<free[u], paid[u]>>
  PROVE  ExactFor(u, r)
<1> DEFINE mb == Megabytes(r, delivered[r])
           price == IF mb <= MbPerCredit THEN 1
                    ELSE CHOOSE c \in 1 .. mb : /\ (c - 1) * MbPerCredit < mb
                                                /\ mb <= c * MbPerCredit
<1>1. LedgerTypeOK /\ volume[r] \in Nat /\ UserOf[r] \in Users
  BY PipelineAssumption DEF IInv, TypeOK
<1>2. volume[r] = mb
  BY MegabytesIsTotal DEF VolumeInv
<1>3. price = PriceOf(mb)
  BY Zenon DEF PriceOf
<1>4. UseQuotaDynamic(UserOf[r], TRUE, volume[r])
  BY DEF ChargesList
<1>5. /\ u = UserOf[r]
      /\ free'[u] + paid'[u] = (free[u] + paid[u]) -
           Smaller(PriceOf(volume[r]), free[u] + paid[u])
      /\ paid'[u] < paid[u] => free'[u] = 0
  BY <1>1, <1>4, ChargeTakesThePrice
<1>6. free'[u] + paid'[u] = (free[u] + paid[u]) - Smaller(price, free[u] + paid[u])
  <2> HIDE DEF mb, price
  <2> QED
    BY <1>2, <1>3, <1>5, Zenon
<1>7. /\ UserOf[r] = u
      /\ bills[r] = << >> /\ bills'[r] = <<delivered[r]>>
      /\ paid'[u] < paid[u] => free'[u] = 0
  BY <1>5, Zenon DEF ChargesList
<1> QED
  BY <1>6, <1>7, Zenon DEF ExactFor

\* A balance moves only by the exact price of what one request delivered
\* (use_quota_dynamic and credits_for_sizes, called from run).
THEOREM BalancesMoveExactly == Spec => ChargesAreExact
<1> DEFINE Exact == \A u \in Users : <<free[u], paid[u]>>' # <<free[u], paid[u]>> =>
                      \E r \in Requests : ExactFor(u, r)
<1> DEFINE Inv == IInv /\ \A r \in Requests : VolumeInv(r)
<1>1. Inv /\ [Next]_vars => [Exact]_ledger
  <2> SUFFICES ASSUME Inv, [Next]_vars
      PROVE  Exact \/ UNCHANGED ledger
    OBVIOUS
  <2>1. ASSUME NEW r \in Requests, Run(r) \/ Cancel(r)
        PROVE  Exact
    BY <2>1, BalanceSteps, ChargeIsExact
  <2>2. CASE UNCHANGED vars
    BY <2>2 DEF vars
  <2> QED
    BY <2>1, <2>2 DEF Next, Finished
<1>2. Spec => []Inv
  BY VolumeIsTotal
<1>3. ChargesAreExact <=> [][Exact]_ledger
  BY DEF ChargesAreExact, ExactFor
<1> HIDE DEF Exact, Inv
<1> QED
  BY <1>1, <1>2, <1>3, PTL DEF Spec
=============================================================================
