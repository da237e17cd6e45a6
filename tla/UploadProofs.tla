---------------------------- MODULE UploadProofs ----------------------------
(***************************************************************************)
(* Proofs about Upload, for any number of parts, lanes and connections and *)
(* any limits.                                                             *)
(***************************************************************************)
EXTENDS Upload, FiniteSetTheorems, TLAPS

Holding(l) == lpc[l] \in {"read", "send", "asleep"}
Held == {part[l] : l \in {m \in Lanes : Holding(m)}}

\* The parts that were taken from the queue and are no longer in a lane's hands.
Settled == (1 .. next - 1) \ Held

\* The lanes are cancelled, or are about to be.
Stopped == doomed \/ \E l \in Lanes : lpc[l] = "raised"

\* No two lanes hold the same part.
LaneInv ==
  /\ \A l \in Lanes : Holding(l) => part[l] \in 1 .. next - 1
  /\ \A l, m \in Lanes : Holding(l) /\ Holding(m) /\ part[l] = part[m] => l = m

\* What is counted is settled and stored; until a lane fails, all that is settled.
CountInv ==
  /\ uploaded <= Cardinality(stored \cap Settled)
  /\ ~Stopped => uploaded = Cardinality(Settled) /\ Settled \subseteq stored

\* The first lane goes on until no part is left.
FirstInv == lpc[0] = "returned" => next = Parts + 1

Quiet == \A l \in Lanes : lpc[l] \notin Working
Early == {"start", "slot", "open", "telethon"}
Late == {"send", "asleep", "over"}

\* What the lanes are at while send_file is where it is.
StageInv ==
  /\ pc \in Early => /\ \A l \in Lanes : lpc[l] = "none"
                     /\ next = 1 /\ uploaded = 0 /\ ~doomed /\ outcome = ""
  /\ pc = "lanes" => ~doomed /\ outcome = ""
  /\ pc = "stopping" => doomed
  /\ pc = "closing" /\ outcome # "cancelled" => ~fd /\ Quiet
  /\ pc \in Late /\ outcome # "cancelled" /\ uploaded > 0 => ~fd /\ Open = {} /\ Quiet
  /\ pc \in {"send", "asleep"} => outcome = "ok"
  /\ pc # "over" => messages = 0
  /\ outcome = "ok" => stored = AllParts /\ uploaded \in {0, Parts}
  /\ \A l \in Lanes :
       /\ lpc[l] \in Working => fd \/ doomed
       /\ lpc[l] \in Working /\ ~doomed => pc = "lanes"
       /\ lpc[l] = "cancelled" => doomed

\* What was shown was reached, and 100 per cent is shown when it is reached.
BarInv ==
  /\ shown <= uploaded /\ last <= uploaded
  /\ \A l \in Lanes : pct[l] <= uploaded
  /\ uploaded = Parts => text = Parts

\* The inductive invariant.
IInv == TypeOK /\ LaneInv /\ CountInv /\ FirstInv /\ StageInv /\ BarInv

-----------------------------------------------------------------------------
(***************************************************************************)
(* Parts and lanes.                                                        *)
(***************************************************************************)
LEMMA Bounds ==
  /\ Parts \in Nat /\ Parts >= 1 /\ Workers \in Nat /\ Workers >= 1
  /\ MaxTries \in Nat /\ MaxWaits \in Nat /\ MaxFloods \in Nat /\ MaxCancels \in Nat
  /\ Extra \in Nat /\ FloodsToTwo \in Nat /\ FloodsToOne \in Nat /\ MinStep \in Nat
  /\ 0 \in Lanes
BY UploadAssumption DEF Lanes

LEMMA Numbers ==
  ASSUME TypeOK
  PROVE  /\ Parts \in Nat /\ Parts >= 1
         /\ next \in Nat /\ next >= 1 /\ next <= Parts + 1
         /\ uploaded \in Nat /\ uploaded <= Parts
         /\ limit \in Nat /\ limit >= 1 /\ limit <= Workers
         /\ shown \in Nat /\ last \in Nat /\ floods \in Nat
<1>1. /\ next \in 1 .. Parts + 1 /\ uploaded \in 0 .. Parts /\ limit \in 1 .. Workers
      /\ shown \in 0 .. Parts /\ last \in 0 .. Parts /\ floods \in 0 .. MaxFloods
  BY DEF TypeOK
<1> QED
  BY <1>1, Bounds

LEMMA PartsAreFinite ==
  IsFiniteSet(AllParts) /\ Cardinality(AllParts) = Parts
<1>1. 1 \in Int /\ Parts \in Int /\ Parts >= 1
  BY Bounds
<1>2. IsFiniteSet(1 .. Parts) /\ Cardinality(1 .. Parts) = Parts - 1 + 1
  BY <1>1, FS_Interval
<1> QED
  BY <1>1, <1>2 DEF AllParts

\* Settled parts are parts, and there are finitely many.
LEMMA SettledIsFinite ==
  ASSUME TypeOK
  PROVE  /\ Settled \subseteq AllParts /\ IsFiniteSet(Settled)
         /\ IsFiniteSet(stored \cap Settled)
         /\ Cardinality(Settled) \in Nat /\ Cardinality(stored \cap Settled) \in Nat
<1>1. Settled \subseteq AllParts
  BY Numbers DEF Settled, AllParts
<1>2. IsFiniteSet(Settled) /\ IsFiniteSet(stored \cap Settled)
  BY <1>1, PartsAreFinite, FS_Subset
<1> QED
  BY <1>1, <1>2, FS_CardinalityType

\* A lane that holds a part leaves the upload incomplete.
LEMMA HolderIsMissing ==
  ASSUME IInv, NEW l \in Lanes, Holding(l)
  PROVE  uploaded < Parts
<1>1. part[l] \in AllParts /\ part[l] \notin Settled
  <2>1. part[l] \in 1 .. next - 1 /\ part[l] \in Held
    BY DEF IInv, LaneInv, Held
  <2> QED
    BY <2>1, Numbers DEF IInv, AllParts, Settled
<1>2. stored \cap Settled \subseteq AllParts \ {part[l]}
  BY <1>1, SettledIsFinite DEF IInv
<1>3. IsFiniteSet(AllParts \ {part[l]}) /\ Cardinality(AllParts \ {part[l]}) = Parts - 1
  BY <1>1, PartsAreFinite, FS_RemoveElement
<1>4. Cardinality(stored \cap Settled) <= Parts - 1
  BY <1>2, <1>3, FS_Subset
<1>5. Cardinality(stored \cap Settled) \in Nat /\ uploaded \in Nat
  BY SettledIsFinite, Numbers DEF IInv
<1> QED
  BY <1>4, <1>5, Bounds DEF IInv, CountInv

\* Lane l keeps the part it holds, takes the next one, or holds none.
Keeps(l) == Holding(l)' /\ Holding(l) /\ part'[l] = part[l] /\ next' = next
Takes(l) == Holding(l)' /\ part'[l] = next /\ next' = next + 1 /\ next <= Parts
Drops(l) == ~Holding(l)' /\ next' = next

Alone(l) == \A m \in Lanes \ {l} : lpc'[m] = lpc[m] /\ part'[m] = part[m]

LEMMA KeepingSettles ==
  ASSUME IInv, NEW l \in Lanes, Alone(l), Keeps(l)
  PROVE  LaneInv' /\ Settled' = Settled
<1>1. \A m \in Lanes : Holding(m)' <=> Holding(m)
  BY DEF Alone, Keeps, Holding
<1>2. \A m \in Lanes : Holding(m) => part'[m] = part[m]
  BY DEF Alone, Keeps
<1>3. Held' = Held
  BY <1>1, <1>2 DEF Held
<1>4. LaneInv'
  BY <1>1, <1>2 DEF Keeps, IInv, LaneInv
<1> QED
  BY <1>3, <1>4 DEF Settled, Keeps

\* What a lane lets go of is settled.
Released(l) == IF Holding(l) THEN {part[l]} ELSE {}

LEMMA LettingGoSettles ==
  ASSUME IInv, NEW l \in Lanes, Alone(l), Takes(l) \/ Drops(l)
  PROVE  /\ LaneInv' /\ Settled' = Settled \cup Released(l)
         /\ Released(l) \subseteq AllParts \ Settled
<1>1. \A m \in Lanes \ {l} : /\ Holding(m)' <=> Holding(m)
                            /\ part'[m] = part[m]
  BY DEF Alone, Holding
<1>2. next \in Nat /\ next >= 1 /\ next <= Parts + 1 /\ Parts \in Nat
  BY Numbers DEF IInv
<1>3. \A m \in Lanes : Holding(m) => part[m] \in Nat /\ 1 <= part[m] /\ part[m] < next
  BY <1>2 DEF IInv, LaneInv
<1>4. \A m, k \in Lanes : Holding(m) /\ Holding(k) /\ part[m] = part[k] => m = k
  BY DEF IInv, LaneInv
<1>5. Released(l) \subseteq AllParts \ Settled
  BY <1>2, <1>3 DEF Released, AllParts, Settled, Held
<1>6. CASE Takes(l)
  <2>1. LaneInv'
    <3>1. ASSUME NEW m \in Lanes, Holding(m)' PROVE part'[m] \in 1 .. next' - 1
      BY <1>1, <1>2, <1>3, <1>6, <3>1 DEF Takes
    <3>2. ASSUME NEW m \in Lanes, NEW k \in Lanes, Holding(m)', Holding(k)', part'[m] = part'[k]
          PROVE  m = k
      BY <1>1, <1>2, <1>3, <1>4, <1>6, <3>2 DEF Takes
    <3> QED
      BY <3>1, <3>2 DEF LaneInv
  <2>2. ASSUME NEW x
        PROVE  x \in Settled' <=> x \in Settled \cup Released(l)
    <3>1. x \in Held' <=> x = next \/ \E m \in Lanes \ {l} : Holding(m) /\ part[m] = x
      BY <1>1, <1>6 DEF Held, Takes
    <3>2. x \in Held <=> \E m \in Lanes : Holding(m) /\ part[m] = x
      BY DEF Held
    <3>3. x \in Settled' <=> x \in 1 .. next /\ x \notin Held'
      BY <1>2, <1>6 DEF Settled, Takes
    <3>4. x \in Settled <=> x \in 1 .. next - 1 /\ x \notin Held
      BY DEF Settled
    <3>5. x \in Released(l) <=> Holding(l) /\ x = part[l]
      BY DEF Released
    <3> QED
      BY <1>2, <1>3, <1>4, <3>1, <3>2, <3>3, <3>4, <3>5
  <2> QED
    BY <1>5, <2>1, <2>2
<1>7. CASE Drops(l)
  <2>1. LaneInv'
    BY <1>1, <1>2, <1>3, <1>4, <1>7 DEF Drops, LaneInv
  <2>2. ASSUME NEW x
        PROVE  x \in Settled' <=> x \in Settled \cup Released(l)
    <3>1. x \in Held' <=> \E m \in Lanes \ {l} : Holding(m) /\ part[m] = x
      BY <1>1, <1>7 DEF Held, Drops
    <3>2. x \in Held <=> \E m \in Lanes : Holding(m) /\ part[m] = x
      BY DEF Held
    <3>3. x \in Settled' <=> x \in 1 .. next - 1 /\ x \notin Held'
      BY <1>7 DEF Settled, Drops
    <3>4. x \in Settled <=> x \in 1 .. next - 1 /\ x \notin Held
      BY DEF Settled
    <3>5. x \in Released(l) <=> Holding(l) /\ x = part[l]
      BY DEF Released
    <3> QED
      BY <1>2, <1>3, <1>4, <3>1, <3>2, <3>3, <3>4, <3>5
  <2> QED
    BY <1>5, <2>1, <2>2
<1> QED
  BY <1>6, <1>7

-----------------------------------------------------------------------------
(***************************************************************************)
(* What a step of a lane keeps.                                            *)
(***************************************************************************)

\* Nothing is counted, and what a failing lane lets go of need not be stored.
LEMMA GrowingCounts ==
  ASSUME IInv, TypeOK', Settled \subseteq Settled', stored \subseteq stored',
         uploaded' = uploaded, Stopped => Stopped', Stopped' \/ Settled' = Settled
  PROVE  CountInv'
<1>1. stored \cap Settled \subseteq stored' \cap Settled'
  OBVIOUS
<1>2. TypeOK /\ uploaded <= Cardinality(stored \cap Settled)
  BY DEF IInv, CountInv
<1>3. /\ IsFiniteSet(stored' \cap Settled') /\ Cardinality(stored' \cap Settled') \in Nat
  <2>1. (TypeOK => IsFiniteSet(stored \cap Settled) /\ Cardinality(stored \cap Settled) \in Nat)'
    BY SettledIsFinite, PTL
  <2> QED
    BY <2>1
<1>4. Cardinality(stored \cap Settled) <= Cardinality(stored' \cap Settled')
  BY <1>1, <1>3, FS_Subset
<1>5. Cardinality(stored \cap Settled) \in Nat /\ uploaded \in Nat
  BY <1>2, SettledIsFinite, Numbers
<1>6. uploaded' <= Cardinality(stored' \cap Settled')
  BY <1>2, <1>3, <1>4, <1>5
<1>7. ~Stopped' => uploaded' = Cardinality(Settled') /\ Settled' \subseteq stored'
  BY DEF IInv, CountInv
<1> QED
  BY <1>6, <1>7 DEF CountInv

\* A part is accepted and counted.
LEMMA AcceptingCounts ==
  ASSUME IInv, NEW x \in AllParts \ Settled, Settled' = Settled \cup {x},
         stored' = stored \cup {x}, uploaded' = uploaded + 1, Stopped => Stopped'
  PROVE  CountInv'
<1> DEFINE S == stored \cap Settled
<1>1. /\ IsFiniteSet(S) /\ IsFiniteSet(Settled) /\ Cardinality(S) \in Nat
      /\ Cardinality(Settled) \in Nat /\ uploaded \in Nat /\ uploaded <= Cardinality(S)
  BY SettledIsFinite, Numbers DEF IInv, CountInv
<1>2. Cardinality(S \cup {x}) = Cardinality(S) + 1
  BY <1>1, FS_AddElement
<1>3. stored' \cap Settled' = S \cup {x}
  OBVIOUS
<1>4. uploaded' <= Cardinality(stored' \cap Settled')
  <2>1. Cardinality(stored' \cap Settled') = Cardinality(S \cup {x})
    BY <1>3
  <2> HIDE DEF S
  <2> QED
    BY <1>1, <1>2, <2>1
<1>5. Cardinality(Settled') = Cardinality(Settled) + 1
  BY <1>1, FS_AddElement
<1>6. ~Stopped' => uploaded' = Cardinality(Settled') /\ Settled' \subseteq stored'
  BY <1>5 DEF IInv, CountInv
<1> QED
  BY <1>4, <1>6 DEF CountInv

LaneStates == Working \cup {"none", "returned", "raised", "cancelled"}

\* The lanes' variables keep their types, and only those of l change.
LaneTyped(l) ==
  /\ lpc' \in [Lanes -> LaneStates] /\ part' \in [Lanes -> 0 .. Parts]
  /\ link' \in [Lanes -> 0 .. Extra] /\ tries' \in [Lanes -> 0 .. MaxTries]
  /\ pct' \in [Lanes -> 0 .. Parts] /\ next' \in 1 .. Parts + 1
  /\ Alone(l)
  /\ \A m \in Lanes \ {l} : pct'[m] = pct[m]

LEMMA LaneTypes ==
  ASSUME TypeOK
  PROVE  /\ lpc \in [Lanes -> LaneStates] /\ part \in [Lanes -> 0 .. Parts]
         /\ link \in [Lanes -> 0 .. Extra] /\ tries \in [Lanes -> 0 .. MaxTries]
         /\ pct \in [Lanes -> 0 .. Parts] /\ next \in 1 .. Parts + 1
         /\ 0 \in 0 .. Parts /\ 0 \in 0 .. Extra /\ 0 \in 0 .. MaxTries
<1>1. 0 \in 0 .. Parts /\ 0 \in 0 .. Extra /\ 0 \in 0 .. MaxTries
  BY Bounds
<1> QED
  BY <1>1 DEF TypeOK, LaneStates

LEMMA EndsLane ==
  ASSUME TypeOK, NEW l \in Lanes, NEW how \in {"returned", "raised", "cancelled"},
         Ends(l, how), next' = next
  PROVE  LaneTyped(l) /\ Drops(l) /\ lpc'[l] = how /\ pct'[l] = 0
<1>1. /\ lpc' = [lpc EXCEPT ![l] = how] /\ part' = [part EXCEPT ![l] = 0]
      /\ link' = [link EXCEPT ![l] = 0] /\ tries' = [tries EXCEPT ![l] = 0]
      /\ pct' = [pct EXCEPT ![l] = 0]
  BY DEF Ends, Goes
<1>2. lpc' \in [Lanes -> LaneStates] /\ lpc'[l] = how /\ \A m \in Lanes \ {l} : lpc'[m] = lpc[m]
  BY <1>1, LaneTypes DEF LaneStates
<1>3. part' \in [Lanes -> 0 .. Parts] /\ \A m \in Lanes \ {l} : part'[m] = part[m]
  BY <1>1, LaneTypes
<1>4. /\ link' \in [Lanes -> 0 .. Extra] /\ tries' \in [Lanes -> 0 .. MaxTries]
      /\ pct' \in [Lanes -> 0 .. Parts] /\ pct'[l] = 0
      /\ \A m \in Lanes \ {l} : pct'[m] = pct[m]
  BY <1>1, LaneTypes
<1>5. Drops(l)
  BY <1>2 DEF Drops, Holding
<1> QED
  BY <1>2, <1>3, <1>4, <1>5, LaneTypes DEF LaneTyped, Alone

LEMMA TurnLane ==
  ASSUME TypeOK, NEW l \in Lanes, Turn(l)
  PROVE  /\ LaneTyped(l) /\ (Takes(l) \/ Drops(l))
         /\ lpc'[l] \in {"read", "returned"} /\ pct'[l] = 0
         /\ lpc'[l] = "returned" => next > Parts \/ l >= limit
<1>1. CASE l < limit /\ next <= Parts
  <2>1. /\ lpc' = [lpc EXCEPT ![l] = "read"] /\ part' = [part EXCEPT ![l] = next]
        /\ tries' = [tries EXCEPT ![l] = 0] /\ pct' = [pct EXCEPT ![l] = 0]
        /\ next' = next + 1 /\ link' = link
    BY <1>1 DEF Turn, Goes
  <2>2. next \in 0 .. Parts /\ next' \in 1 .. Parts + 1
    BY <1>1, <2>1, Numbers
  <2>3. lpc' \in [Lanes -> LaneStates] /\ lpc'[l] = "read"
        /\ \A m \in Lanes \ {l} : lpc'[m] = lpc[m]
    BY <2>1, LaneTypes DEF LaneStates, Working
  <2>4. part' \in [Lanes -> 0 .. Parts] /\ part'[l] = next
        /\ \A m \in Lanes \ {l} : part'[m] = part[m]
    BY <2>1, <2>2, LaneTypes
  <2>5. /\ link' \in [Lanes -> 0 .. Extra] /\ tries' \in [Lanes -> 0 .. MaxTries]
        /\ pct' \in [Lanes -> 0 .. Parts] /\ pct'[l] = 0
        /\ \A m \in Lanes \ {l} : pct'[m] = pct[m]
    BY <2>1, LaneTypes
  <2>6. Takes(l)
    BY <1>1, <2>1, <2>3, <2>4 DEF Takes, Holding
  <2> QED
    BY <2>2, <2>3, <2>4, <2>5, <2>6 DEF LaneTyped, Alone
<1>2. CASE ~(l < limit /\ next <= Parts)
  <2>1. Ends(l, "returned") /\ next' = next
    BY <1>2 DEF Turn
  <2>2. l \in Int /\ limit \in Int /\ next \in Int /\ Parts \in Int
    BY Numbers, Bounds DEF Lanes
  <2>3. next > Parts \/ l >= limit
    BY <1>2, <2>2
  <2> QED
    BY <2>1, <2>3, EndsLane
<1> QED
  BY <1>1, <1>2

\* A lane that only moves on with its part.
LEMMA GoesLane ==
  ASSUME TypeOK, NEW l \in Lanes, NEW await \in Working, Goes(l, await),
         UNCHANGED <<part, next, pct>>,
         link' \in [Lanes -> 0 .. Extra], tries' \in [Lanes -> 0 .. MaxTries]
  PROVE  LaneTyped(l) /\ lpc'[l] = await
<1>1. lpc' = [lpc EXCEPT ![l] = await]
  BY DEF Goes
<1>2. lpc' \in [Lanes -> LaneStates] /\ lpc'[l] = await /\ \A m \in Lanes \ {l} : lpc'[m] = lpc[m]
  BY <1>1, LaneTypes DEF LaneStates
<1> QED
  BY <1>2, LaneTypes DEF LaneTyped, Alone

\* The rest of the state keeps its types.
LEMMA LaneStepTypes ==
  ASSUME TypeOK, NEW l \in Lanes, LaneTyped(l),
         UNCHANGED <<sender, links, doomed>>,
         limit' \in 1 .. Workers, floods' \in 0 .. MaxFloods, uploaded' \in 0 .. Parts,
         stored' \subseteq AllParts, shown' \in 0 .. Parts, last' \in 0 .. Parts,
         inFlood' \in BOOLEAN, text' \in 0 .. FloodNotice
  PROVE  TypeOK'
BY DEF TypeOK, LaneTyped, LaneStates, sender, links

LEMMA FirstKeeps ==
  ASSUME IInv, NEW l \in Lanes, Alone(l), Keeps(l) \/ Takes(l) \/ Drops(l),
         lpc'[l] = "returned" => next > Parts \/ l >= limit
  PROVE  FirstInv'
<1> SUFFICES ASSUME lpc'[0] = "returned" PROVE next' = Parts + 1
  BY DEF FirstInv
<1>1. /\ next \in Nat /\ next <= Parts + 1 /\ Parts \in Nat /\ limit \in Nat /\ limit >= 1
  BY Numbers DEF IInv
<1>2. next' = next
  BY <1>1, Bounds DEF IInv, FirstInv, Alone, Keeps, Takes, Drops, Holding
<1>3. next = Parts + 1
  BY <1>1, Bounds DEF IInv, FirstInv, Alone
<1> QED
  BY <1>2, <1>3

\* While lanes are at work send_file waits for them, or is stopping them.
LEMMA StageKeeps ==
  ASSUME IInv, NEW l \in Lanes, lpc[l] \in Working, Alone(l), TypeOK',
         UNCHANGED <<sender, links, doomed>>,
         stored \subseteq stored',
         \/ ~doomed /\ lpc'[l] \in Working \cup {"returned", "raised"}
         \/ doomed /\ lpc'[l] = "cancelled" /\ uploaded' = uploaded
  PROVE  StageInv'
<1>1. /\ pc' = pc /\ outcome' = outcome /\ messages' = messages /\ fd' = fd /\ conn' = conn
      /\ Open' = Open
  BY DEF sender, links, Open
<1>2. lpc[l] # "none" /\ (~doomed => pc = "lanes") /\ pc \notin Early
  BY DEF IInv, StageInv, Working
<1>3. \A m \in Lanes : /\ lpc'[m] \in Working => lpc[m] \in Working
                       /\ lpc'[m] = "cancelled" => doomed
  BY DEF Alone, IInv, StageInv, Working
<1>4. Quiet => Quiet'
  BY <1>3 DEF Quiet
<1>5. stored = AllParts => stored' = AllParts
  BY DEF TypeOK
<1>6. CASE ~doomed
  BY <1>1, <1>2, <1>3, <1>6 DEF IInv, StageInv, Early, Late
<1>7. CASE doomed
  BY <1>1, <1>2, <1>3, <1>4, <1>5, <1>7 DEF IInv, StageInv, Early, Late
<1> QED
  BY <1>6, <1>7

LEMMA LaneKeeps ==
  ASSUME IInv, NEW l \in Lanes, lpc[l] \in Working, LaneTyped(l),
         Keeps(l) \/ Takes(l) \/ Drops(l),
         lpc'[l] = "returned" => next > Parts \/ l >= limit,
         UNCHANGED <<sender, links, doomed>>, TypeOK', CountInv', BarInv',
         stored \subseteq stored',
         \/ ~doomed /\ lpc'[l] \in Working \cup {"returned", "raised"}
         \/ doomed /\ lpc'[l] = "cancelled" /\ uploaded' = uploaded
  PROVE  IInv'
<1>1. Alone(l)
  BY DEF LaneTyped
<1>2. LaneInv'
  BY <1>1, KeepingSettles, LettingGoSettles
<1>3. FirstInv'
  BY <1>1, FirstKeeps
<1>4. StageInv'
  BY <1>1, StageKeeps
<1> QED
  BY <1>2, <1>3, <1>4 DEF IInv

LEMMA StoppedStays ==
  ASSUME NEW l \in Lanes, Alone(l), lpc[l] \in Working, doomed' = doomed
  PROVE  Stopped => Stopped'
BY DEF Stopped, Alone, Working

\* A lane that counts nothing and does not let go of a part that is not stored.
LEMMA IdleCounts ==
  ASSUME IInv, NEW l \in Lanes, lpc[l] \in Working, LaneTyped(l), TypeOK', doomed' = doomed,
         Keeps(l) \/ ((Takes(l) \/ Drops(l)) /\ (~Holding(l) \/ Stopped')),
         stored \subseteq stored', uploaded' = uploaded
  PROVE  CountInv'
<1>1. Alone(l)
  BY DEF LaneTyped
<1>2. Settled \subseteq Settled' /\ (Stopped' \/ Settled' = Settled)
  BY <1>1, KeepingSettles, LettingGoSettles DEF Released
<1> QED
  BY <1>1, <1>2, StoppedStays, GrowingCounts

\* Nothing new is shown.
LEMMA IdleBar ==
  ASSUME IInv, NEW l \in Lanes, LaneTyped(l), pct'[l] = 0 \/ pct'[l] = pct[l],
         UNCHANGED <<uploaded, shown, last, text>>
  PROVE  BarInv'
<1>1. uploaded \in Nat
  BY Numbers DEF IInv
<1> QED
  BY <1>1 DEF IInv, BarInv, LaneTyped

-----------------------------------------------------------------------------
LEMMA StartsKeeps ==
  ASSUME IInv, NEW l \in Lanes, Starts(l)
  PROVE  IInv'
<1>1. /\ lpc[l] = "created" /\ ~doomed /\ lpc[l] \in Working /\ ~Holding(l)
      /\ UNCHANGED <<sender, links, doomed, limit, floods, uploaded, stored, shown, last,
                     inFlood, text>>
  BY DEF Starts, At, Working, Holding
<1>2. /\ LaneTyped(l) /\ (Takes(l) \/ Drops(l))
      /\ lpc'[l] \in {"read", "returned"} /\ pct'[l] = 0
      /\ lpc'[l] = "returned" => next > Parts \/ l >= limit
  BY TurnLane DEF Starts, IInv
<1>3. TypeOK'
  BY <1>1, <1>2, LaneStepTypes DEF IInv, TypeOK
<1>4. CountInv' /\ BarInv'
  BY <1>1, <1>2, <1>3, IdleCounts, IdleBar
<1> QED
  BY <1>1, <1>2, <1>3, <1>4, LaneKeeps DEF Working

LEMMA HasReadKeeps ==
  ASSUME IInv, NEW l \in Lanes, HasRead(l)
  PROVE  IInv'
<1>1. /\ lpc[l] = "read" /\ ~doomed /\ lpc[l] \in Working /\ Holding(l)
      /\ UNCHANGED <<sender, links, doomed, part, link, tries, next, limit, floods,
                     uploaded, stored, bar>>
  BY DEF HasRead, At, Working, Holding
<1>2. LaneTyped(l) /\ lpc'[l] = "send"
  BY <1>1, GoesLane, LaneTypes DEF HasRead, IInv, bar, Working
<1>3. Keeps(l) /\ pct'[l] = pct[l]
  BY <1>1, <1>2 DEF Keeps, Holding, bar
<1>4. TypeOK'
  BY <1>1, <1>2, LaneStepTypes DEF IInv, TypeOK, bar
<1>5. CountInv' /\ BarInv'
  BY <1>1, <1>2, <1>3, <1>4, IdleCounts, IdleBar DEF bar
<1> QED
  BY <1>1, <1>2, <1>3, <1>4, <1>5, LaneKeeps DEF Working

\* A lane that raises.
LEMMA RaisingKeeps ==
  ASSUME IInv, NEW l \in Lanes, lpc[l] \in Working, ~doomed, Ends(l, "raised"),
         UNCHANGED <<sender, links, doomed, next, uploaded, shown, last, inFlood, text>>,
         limit' \in 1 .. Workers, floods' \in 0 .. MaxFloods,
         stored \subseteq stored', stored' \subseteq AllParts
  PROVE  IInv'
<1>1. LaneTyped(l) /\ Drops(l) /\ lpc'[l] = "raised" /\ pct'[l] = 0
  BY EndsLane DEF IInv
<1>2. TypeOK'
  BY <1>1, LaneStepTypes DEF IInv, TypeOK
<1>3. Stopped'
  BY <1>1 DEF Stopped
<1>4. CountInv' /\ BarInv'
  BY <1>1, <1>2, <1>3, IdleCounts, IdleBar
<1> QED
  BY <1>1, <1>2, <1>4, LaneKeeps DEF Working

\* What a lane holds is a part.
LEMMA HeldIsPart ==
  ASSUME IInv, NEW l \in Lanes, Holding(l)
  PROVE  part[l] \in AllParts /\ part[l] \notin Settled
<1>1. part[l] \in 1 .. next - 1 /\ part[l] \in Held
  BY DEF IInv, LaneInv, Held
<1> QED
  BY <1>1, Numbers DEF IInv, AllParts, Settled

LEMMA ReadFailsKeeps ==
  ASSUME IInv, NEW l \in Lanes, ReadFails(l)
  PROVE  IInv'
<1>1. limit' \in 1 .. Workers /\ floods' \in 0 .. MaxFloods /\ stored' \subseteq AllParts
  BY DEF ReadFails, IInv, TypeOK
<1> QED
  BY <1>1, RaisingKeeps DEF ReadFails, At, Working

LEMMA MainFailsKeeps ==
  ASSUME IInv, NEW l \in Lanes, MainFails(l)
  PROVE  IInv'
<1>1. lpc[l] = "send" /\ ~doomed
  BY DEF MainFails, Lost, At
<1>2. part[l] \in AllParts
  BY <1>1, HeldIsPart DEF Holding
<1>3. /\ limit' \in 1 .. Workers /\ floods' \in 0 .. MaxFloods
      /\ stored \subseteq stored' /\ stored' \subseteq AllParts
  BY <1>2 DEF MainFails, Lost, IInv, TypeOK
<1> QED
  BY <1>1, <1>3, RaisingKeeps DEF MainFails, Working

LEMMA CountedFlood ==
  ASSUME TypeOK, CountFlood
  PROVE  limit' \in 1 .. Workers /\ floods' \in 0 .. MaxFloods
<1>1. floods' \in 0 .. MaxFloods
  BY Numbers, Bounds DEF CountFlood
<1>2. limit \in Nat /\ limit >= 1 /\ limit <= Workers
  BY Numbers
<1> QED
  BY <1>1, <1>2, Bounds DEF CountFlood, LimitAfter

LEMMA FloodedOutKeeps ==
  ASSUME IInv, NEW l \in Lanes, FloodedOut(l)
  PROVE  IInv'
<1>1. limit' \in 1 .. Workers /\ floods' \in 0 .. MaxFloods
  BY CountedFlood DEF FloodedOut, IInv
<1>2. stored' \subseteq AllParts /\ stored \subseteq stored'
  BY DEF FloodedOut, IInv, TypeOK
<1> QED
  BY <1>1, <1>2, RaisingKeeps DEF FloodedOut, At, Working

LEMMA FloodedKeeps ==
  ASSUME IInv, NEW l \in Lanes, Flooded(l)
  PROVE  IInv'
<1>1. /\ lpc[l] = "send" /\ ~doomed /\ lpc[l] \in Working /\ Holding(l)
      /\ UNCHANGED <<sender, links, doomed, part, link, next, uploaded, stored, pct, shown, last>>
  BY DEF Flooded, At, Working, Holding
<1>2. limit' \in 1 .. Workers /\ floods' \in 0 .. MaxFloods
  BY CountedFlood DEF Flooded, IInv
<1>3. tries' \in [Lanes -> 0 .. MaxTries]
  <2>1. tries \in [Lanes -> 0 .. MaxTries] /\ tries[l] < MaxTries
        /\ tries' = [tries EXCEPT ![l] = tries[l] + 1]
    BY LaneTypes DEF Flooded, IInv
  <2>2. tries[l] + 1 \in 0 .. MaxTries
    BY <2>1, Bounds
  <2> QED
    BY <2>1, <2>2
<1>4. LaneTyped(l) /\ lpc'[l] = "asleep"
  BY <1>1, <1>3, GoesLane, LaneTypes DEF Flooded, IInv, Working
<1>5. Keeps(l) /\ pct'[l] = pct[l]
  BY <1>1, <1>4 DEF Keeps, Holding
<1>6. inFlood' \in BOOLEAN /\ text' \in 0 .. FloodNotice
  <2>1. inFlood \in BOOLEAN /\ text \in 0 .. FloodNotice /\ last \in 0 .. Parts
    BY DEF IInv, TypeOK
  <2>2. FloodNotice \in 0 .. FloodNotice /\ 0 .. Parts \subseteq 0 .. FloodNotice
    BY Bounds DEF FloodNotice
  <2> QED
    BY <2>1, <2>2 DEF Flooded
<1>7. TypeOK'
  BY <1>1, <1>2, <1>4, <1>6, LaneStepTypes DEF IInv, TypeOK
<1>8. CountInv'
  BY <1>1, <1>4, <1>5, <1>7, IdleCounts
<1>9. BarInv'
  <2>1. uploaded < Parts /\ uploaded \in Nat /\ Parts \in Nat
    BY <1>1, HolderIsMissing, Numbers DEF IInv
  <2> QED
    BY <1>1, <2>1 DEF IInv, BarInv
<1> QED
  BY <1>1, <1>4, <1>5, <1>7, <1>8, <1>9, LaneKeeps DEF Working

LEMMA WakesKeeps ==
  ASSUME IInv, NEW l \in Lanes, Wakes(l)
  PROVE  IInv'
<1>1. /\ lpc[l] = "asleep" /\ ~doomed /\ lpc[l] \in Working /\ Holding(l)
      /\ UNCHANGED <<sender, links, doomed, part, link, tries, next, limit, floods,
                     uploaded, stored, pct, shown, last>>
  BY DEF Wakes, At, Working, Holding
<1>2. LaneTyped(l) /\ lpc'[l] = "send"
  BY <1>1, GoesLane, LaneTypes DEF Wakes, IInv, Working
<1>3. Keeps(l)
  BY <1>1, <1>2 DEF Keeps, Holding
<1>4. inFlood' \in BOOLEAN /\ text' \in 0 .. FloodNotice
  <2>1. inFlood \in BOOLEAN /\ text \in 0 .. FloodNotice /\ last \in 0 .. Parts
    BY DEF IInv, TypeOK
  <2>2. FloodNotice \in 0 .. FloodNotice /\ 0 .. Parts \subseteq 0 .. FloodNotice
    BY Bounds DEF FloodNotice
  <2> QED
    BY <2>1, <2>2 DEF Wakes
<1>5. TypeOK'
  BY <1>1, <1>2, <1>4, LaneStepTypes DEF IInv, TypeOK
<1>6. CountInv'
  BY <1>1, <1>2, <1>3, <1>5, IdleCounts
<1>7. BarInv'
  <2>1. uploaded < Parts /\ uploaded \in Nat /\ Parts \in Nat
    BY <1>1, HolderIsMissing, Numbers DEF IInv
  <2> QED
    BY <1>1, <2>1 DEF IInv, BarInv
<1> QED
  BY <1>1, <1>2, <1>3, <1>5, <1>6, <1>7, LaneKeeps DEF Working

LEMMA LinkFailsKeeps ==
  ASSUME IInv, NEW l \in Lanes, LinkFails(l)
  PROVE  IInv'
<1>1. /\ lpc[l] = "send" /\ ~doomed /\ lpc[l] \in Working /\ Holding(l)
      /\ UNCHANGED <<sender, links, doomed, lpc, part, next, limit, floods, uploaded, bar>>
  BY DEF LinkFails, Lost, At, Working, Holding
<1>2. LaneTyped(l)
  BY <1>1, LaneTypes DEF LinkFails, IInv, LaneTyped, Alone, bar
<1>3. Keeps(l)
  BY <1>1 DEF Keeps, Holding
<1>4. stored \subseteq stored' /\ stored' \subseteq AllParts
  BY <1>1, HeldIsPart DEF LinkFails, Lost, IInv, TypeOK
<1>5. TypeOK'
  BY <1>1, <1>2, <1>4, LaneStepTypes DEF IInv, TypeOK, bar
<1>6. CountInv' /\ BarInv'
  BY <1>1, <1>2, <1>3, <1>4, <1>5, IdleCounts, IdleBar DEF bar
<1> QED
  BY <1>1, <1>2, <1>3, <1>4, <1>5, <1>6, LaneKeeps

LEMMA UnwindsKeeps ==
  ASSUME IInv, NEW l \in Lanes, Unwinds(l)
  PROVE  IInv'
<1>1. /\ lpc[l] \in Working /\ doomed
      /\ UNCHANGED <<sender, links, doomed, next, limit, floods, uploaded, shown, last,
                     inFlood, text>>
  BY DEF Unwinds
<1>2. LaneTyped(l) /\ Drops(l) /\ lpc'[l] = "cancelled" /\ pct'[l] = 0
  BY <1>1, EndsLane DEF Unwinds, IInv
<1>3. stored \subseteq stored' /\ stored' \subseteq AllParts
  BY HeldIsPart DEF Unwinds, Holding, IInv, TypeOK
<1>4. TypeOK'
  BY <1>1, <1>2, <1>3, LaneStepTypes DEF IInv, TypeOK
<1>5. Stopped'
  BY <1>1 DEF Stopped
<1>6. CountInv' /\ BarInv'
  BY <1>1, <1>2, <1>3, <1>4, <1>5, IdleCounts, IdleBar
<1> QED
  BY <1>1, <1>2, <1>3, <1>4, <1>6, LaneKeeps

LEMMA AcceptedKeeps ==
  ASSUME IInv, NEW l \in Lanes, Accepted(l)
  PROVE  IInv'
<1>1. /\ lpc[l] = "send" /\ ~doomed /\ lpc[l] \in Working /\ Holding(l)
      /\ stored' = stored \cup {part[l]} /\ uploaded' = uploaded + 1
      /\ UNCHANGED <<sender, links, doomed, limit, floods, shown, last, inFlood>>
  BY DEF Accepted, At, Working, Holding
<1>2. PICK due \in BOOLEAN :
        IF WorthAnEdit(uploaded', due)
          THEN /\ Goes(l, "report") /\ pct' = [pct EXCEPT ![l] = uploaded']
               /\ text' = uploaded' /\ UNCHANGED <<part, link, tries, next>>
          ELSE Turn(l) /\ UNCHANGED text
  BY DEF Accepted
<1>3. uploaded < Parts /\ uploaded \in Nat /\ Parts \in Nat /\ part[l] \in AllParts
      /\ shown <= uploaded /\ last <= uploaded /\ shown \in Nat /\ last \in Nat
      /\ \A m \in Lanes : pct[m] <= uploaded /\ pct[m] \in Nat
  BY <1>1, HolderIsMissing, HeldIsPart, Numbers, LaneTypes DEF IInv, BarInv
<1>4. uploaded' \in 0 .. Parts /\ stored' \subseteq AllParts /\ uploaded' \in 0 .. FloodNotice
  <2>1. stored' \subseteq AllParts
    BY <1>1, <1>3 DEF IInv, TypeOK
  <2> QED
    BY <1>1, <1>3, <2>1 DEF FloodNotice
<1>5. /\ LaneTyped(l) /\ (Takes(l) \/ Drops(l))
      /\ lpc'[l] \in {"read", "returned", "report"} /\ pct'[l] \in {0, uploaded'}
      /\ lpc'[l] = "returned" => next > Parts \/ l >= limit
      /\ text' \in {text, uploaded'} /\ (uploaded' = Parts => text' = Parts)
  <2>1. CASE WorthAnEdit(uploaded', due)
    <3>1. /\ lpc' = [lpc EXCEPT ![l] = "report"] /\ pct' = [pct EXCEPT ![l] = uploaded']
          /\ text' = uploaded' /\ UNCHANGED <<part, link, tries, next>>
      BY <1>2, <2>1 DEF Goes
    <3>2. lpc' \in [Lanes -> LaneStates] /\ lpc'[l] = "report"
          /\ \A m \in Lanes \ {l} : lpc'[m] = lpc[m]
      BY <3>1, LaneTypes DEF IInv, LaneStates, Working
    <3>3. pct' \in [Lanes -> 0 .. Parts] /\ pct'[l] = uploaded'
          /\ \A m \in Lanes \ {l} : pct'[m] = pct[m]
      BY <1>4, <3>1, LaneTypes DEF IInv
    <3>4. LaneTyped(l)
      BY <3>1, <3>2, <3>3, LaneTypes DEF IInv, LaneTyped, Alone
    <3>5. Drops(l)
      BY <3>1, <3>2 DEF Drops, Holding
    <3> QED
      BY <3>1, <3>2, <3>3, <3>4, <3>5
  <2>2. CASE ~WorthAnEdit(uploaded', due)
    <3>1. Turn(l) /\ text' = text
      BY <1>2, <2>2
    <3>2. uploaded' # Parts
      BY <1>1, <1>3, <2>2 DEF WorthAnEdit
    <3> QED
      BY <3>1, <3>2, TurnLane DEF IInv
  <2> QED
    BY <2>1, <2>2
<1>6. TypeOK'
  <2>1. text' \in 0 .. FloodNotice
    BY <1>4, <1>5 DEF IInv, TypeOK
  <2> QED
    BY <1>1, <1>4, <1>5, <2>1, LaneStepTypes DEF IInv, TypeOK
<1>7. CountInv'
  <2>1. Settled' = Settled \cup {part[l]} /\ part[l] \in AllParts \ Settled
    BY <1>1, <1>5, LettingGoSettles, HeldIsPart DEF Released, LaneTyped
  <2>2. Stopped => Stopped'
    BY <1>1, <1>5, StoppedStays DEF LaneTyped
  <2> QED
    BY <1>1, <2>1, <2>2, AcceptingCounts
<1>8. BarInv'
  <2>1. shown' <= uploaded' /\ last' <= uploaded'
    BY <1>1, <1>3
  <2>2. \A m \in Lanes : pct'[m] <= uploaded'
    BY <1>1, <1>3, <1>5 DEF LaneTyped
  <2> QED
    BY <1>5, <2>1, <2>2 DEF BarInv
<1> QED
  BY <1>1, <1>5, <1>6, <1>7, <1>8, LaneKeeps DEF Working

\* A lane goes on after its report, whether that was shown or not.
LEMMA ReportEnds ==
  ASSUME IInv, NEW l \in Lanes, At(l, "report"), Turn(l),
         UNCHANGED <<sender, links, doomed, limit, floods, uploaded, stored, text>>,
         shown' \in {shown, pct[l]}, last' \in {last, pct[l]}, inFlood' \in BOOLEAN
  PROVE  IInv'
<1>1. lpc[l] = "report" /\ ~doomed /\ lpc[l] \in Working /\ ~Holding(l)
  BY DEF At, Working, Holding
<1>2. /\ LaneTyped(l) /\ (Takes(l) \/ Drops(l))
      /\ lpc'[l] \in {"read", "returned"} /\ pct'[l] = 0
      /\ lpc'[l] = "returned" => next > Parts \/ l >= limit
  BY TurnLane DEF IInv
<1>3. pct[l] \in 0 .. Parts /\ pct[l] <= uploaded /\ uploaded \in Nat
  BY LaneTypes, Numbers DEF IInv, BarInv
<1>4. shown' \in 0 .. Parts /\ last' \in 0 .. Parts
  BY <1>3 DEF IInv, TypeOK
<1>5. TypeOK'
  BY <1>2, <1>4, LaneStepTypes DEF IInv, TypeOK
<1>6. CountInv'
  BY <1>1, <1>2, <1>5, IdleCounts
<1>7. BarInv'
  BY <1>2, <1>3 DEF IInv, BarInv, LaneTyped
<1> QED
  BY <1>1, <1>2, <1>5, <1>6, <1>7, LaneKeeps DEF Working

LEMMA LaneStepKeeps ==
  ASSUME IInv, NEW l \in Lanes, LaneStep(l)
  PROVE  IInv'
<1>1. CASE Reported(l)
  BY <1>1, ReportEnds DEF Reported
<1>2. CASE ReportFails(l)
  <2>1. inFlood' \in BOOLEAN
    BY <1>2 DEF ReportFails, IInv, TypeOK
  <2> QED
    BY <1>2, <2>1, ReportEnds DEF ReportFails
<1> QED
  BY <1>1, <1>2, StartsKeeps, HasReadKeeps, ReadFailsKeeps, AcceptedKeeps, FloodedKeeps,
     FloodedOutKeeps, WakesKeeps, LinkFailsKeeps, MainFailsKeeps, UnwindsKeeps DEF LaneStep

-----------------------------------------------------------------------------
(***************************************************************************)
(* The steps of send_file.                                                 *)
(***************************************************************************)

\* The lanes and what they count are left alone.
LEMMA LanesAlone ==
  ASSUME IInv, UNCHANGED <<lpc, part, next, stored, uploaded, bar>>, doomed => doomed'
  PROVE  LaneInv' /\ CountInv' /\ FirstInv' /\ BarInv'
<1>1. Settled' = Settled
  BY DEF Settled, Held, Holding
<1>2. Stopped => Stopped'
  BY DEF Stopped
<1>3. CountInv'
  BY <1>1, <1>2 DEF IInv, CountInv
<1>4. LaneInv' /\ FirstInv' /\ BarInv'
  BY DEF IInv, LaneInv, Holding, FirstInv, BarInv, bar
<1> QED
  BY <1>3, <1>4

\* Nothing is settled before the first part is taken.
LEMMA NoneTaken ==
  /\ next = 1 => Settled = {}
  /\ next' = 1 => Settled' = {}
<1>1. 1 .. (1 - 1) = {}
  OBVIOUS
<1>2. next = 1 => 1 .. (next - 1) = {}
  BY <1>1
<1>3. next' = 1 => 1 .. (next' - 1) = {}
  BY <1>1
<1> QED
  BY <1>2, <1>3 DEF Settled

LEMMA NothingCounted ==
  ASSUME uploaded = 0, Settled = {}
  PROVE  CountInv
<1>1. stored \cap Settled = {}
  OBVIOUS
<1>2. Cardinality(stored \cap Settled) = 0 /\ Cardinality(Settled) = 0
  BY <1>1, FS_EmptySet
<1>3. uploaded <= Cardinality(stored \cap Settled)
  BY <1>2
<1> QED
  BY <1>2, <1>3 DEF CountInv

LEMMA NothingCountedNext ==
  ASSUME uploaded' = 0, Settled' = {}
  PROVE  CountInv'
<1>1. stored' \cap Settled' = {}
  OBVIOUS
<1>2. Cardinality(stored' \cap Settled') = 0 /\ Cardinality(Settled') = 0
  BY <1>1, FS_EmptySet
<1>3. uploaded' <= Cardinality(stored' \cap Settled')
  BY <1>2
<1> QED
  BY <1>2, <1>3 DEF CountInv

\* Nothing has begun in the early stages.
LEMMA NothingSettled ==
  ASSUME IInv, pc \in Early
  PROVE  /\ \A l \in Lanes : lpc[l] = "none"
         /\ next = 1 /\ uploaded = 0 /\ ~doomed /\ outcome = ""
         /\ Settled = {} /\ Quiet /\ messages = 0
<1>1. /\ \A l \in Lanes : lpc[l] = "none"
      /\ next = 1 /\ uploaded = 0 /\ ~doomed /\ outcome = ""
  BY DEF IInv, StageInv
<1>2. Quiet
  BY <1>1 DEF Quiet, Working
<1>3. Settled = {}
  BY <1>1, NoneTaken
<1>4. messages = 0
  BY DEF IInv, StageInv, Early
<1> QED
  BY <1>1, <1>2, <1>3, <1>4

LEMMA ZeroIsLeast == \A n \in Nat : n = 0 => ~(n > 0)
OBVIOUS

\* From one early stage to another, or to the end.
LEMMA EarlyKeeps ==
  ASSUME IInv, pc \in Early, UNCHANGED <<document, waits, messages, lanes, bar>>, TypeOK',
         \/ pc' \in Early /\ outcome' = outcome
         \/ pc' = "over" /\ outcome' \in {"", "error", "cancelled"}
  PROVE  IInv'
<1>1. LaneInv' /\ CountInv' /\ FirstInv' /\ BarInv'
  BY LanesAlone DEF lanes
<1>2. /\ \A l \in Lanes : lpc'[l] = "none"
      /\ next' = 1 /\ uploaded' = 0 /\ ~doomed' /\ outcome = "" /\ messages' = 0
  BY NothingSettled DEF lanes
<1>3. StageInv'
  <2>1. CASE pc' \in Early /\ outcome' = outcome
    BY <1>2, <2>1 DEF StageInv, Early, Late, Working
  <2>2. CASE pc' = "over" /\ outcome' \in {"", "error", "cancelled"}
    <3>1. /\ outcome' # "ok" /\ pc' \notin Early
          /\ pc' \notin {"lanes", "stopping", "closing", "send", "asleep"}
      BY <2>2 DEF Early
    <3>3. ~(uploaded' > 0)
      BY <1>2, ZeroIsLeast
    <3>2. \A l \in Lanes : lpc'[l] \notin Working /\ lpc'[l] # "cancelled"
      BY <1>2 DEF Working
    <3> QED
      BY <1>2, <2>2, <3>1, <3>2, <3>3 DEF StageInv, Late
  <2> QED
    BY <2>1, <2>2
<1> QED
  BY <1>1, <1>3 DEF IInv

LEMMA TelethonKeeps ==
  ASSUME IInv, TelethonUploads
  PROVE  IInv'
<1>1. /\ pc = "telethon" /\ pc' = "send" /\ outcome' = "ok" /\ stored' = AllParts
      /\ UNCHANGED <<document, waits, cancels, messages, links, doomed, lpc, part, link,
                     tries, next, limit, floods, uploaded, bar>>
  BY DEF TelethonUploads
<1>2. /\ \A l \in Lanes : lpc[l] = "none"
      /\ next = 1 /\ uploaded = 0 /\ Settled = {} /\ messages = 0
  BY <1>1, NothingSettled DEF Early
<1>3. TypeOK'
  BY <1>1 DEF IInv, TypeOK, links, bar
<1>4. LaneInv' /\ FirstInv' /\ BarInv'
  BY <1>1 DEF IInv, LaneInv, Holding, FirstInv, BarInv, bar
<1>5. CountInv'
  BY <1>1, <1>2, NoneTaken, NothingCountedNext
<1>6. StageInv'
  BY <1>1, <1>2 DEF StageInv, Early, Late, Working
<1> QED
  BY <1>3, <1>4, <1>5, <1>6 DEF IInv

LEMMA StartLanesKeeps ==
  ASSUME IInv, StartLanes
  PROVE  IInv'
<1>1. /\ pc = "open" /\ pc' = "lanes" /\ fd' = TRUE /\ lpc' = [l \in Lanes |-> "created"]
      /\ UNCHANGED <<outcome, document, waits, cancels, messages, conn, doomed, part,
                     tries, next, limit, floods, uploaded, stored, bar>>
  BY DEF StartLanes
<1>2. next = 1 /\ uploaded = 0 /\ ~doomed /\ outcome = "" /\ messages = 0 /\ pc \in Early
  BY <1>1, NothingSettled DEF Early
<1>3. link' \in [Lanes -> 0 .. Extra]
  <2>1. PICK f \in [Lanes -> Open \cup {0}] : link' = f
    BY DEF StartLanes
  <2>2. Open \cup {0} \subseteq 0 .. Extra
    BY Bounds DEF Open, Links
  <2> QED
    BY <2>1, <2>2
<1>4. TypeOK'
  BY <1>1, <1>3 DEF IInv, TypeOK, bar, Working
<1>5. LaneInv' /\ FirstInv' /\ BarInv'
  BY <1>1, Bounds DEF IInv, LaneInv, Holding, FirstInv, BarInv, bar
<1>6. CountInv'
  BY <1>1, <1>2, NoneTaken, NothingCountedNext
<1>7. StageInv'
  BY <1>1, <1>2 DEF StageInv, Early, Late, Working
<1> QED
  BY <1>4, <1>5, <1>6, <1>7 DEF IInv

\* Every part is settled when all lanes have returned.
LEMMA AllSettled ==
  ASSUME IInv, pc = "lanes", \A l \in Lanes : lpc[l] = "returned"
  PROVE  stored = AllParts /\ uploaded = Parts
<1>1. next = Parts + 1 /\ ~Stopped
  BY Bounds DEF IInv, FirstInv, StageInv, Stopped
<1>2. Held = {}
  BY DEF Held, Holding
<1>3. Settled = AllParts
  BY <1>1, <1>2, Bounds DEF Settled, AllParts
<1>4. AllParts \subseteq stored /\ uploaded = Cardinality(AllParts)
  BY <1>1, <1>3 DEF IInv, CountInv
<1> QED
  BY <1>4, PartsAreFinite DEF IInv, TypeOK

LEMMA LanesEndKeeps ==
  ASSUME IInv, LanesEnd
  PROVE  IInv'
<1>1. /\ pc = "lanes" /\ pc' = "stopping" /\ doomed' = TRUE
      /\ UNCHANGED <<document, waits, cancels, messages, links, lpc, part, link, tries, next,
                     limit, floods, uploaded, stored, bar>>
  BY DEF LanesEnd
<1>2. outcome' \in {"ok", "error"} /\ (outcome' = "ok" => stored = AllParts /\ uploaded = Parts)
  BY <1>1, AllSettled DEF LanesEnd
<1>3. LaneInv' /\ CountInv' /\ FirstInv' /\ BarInv'
  BY <1>1, LanesAlone
<1>4. TypeOK'
  BY <1>1, <1>2 DEF IInv, TypeOK, links, bar
<1>5. StageInv'
  BY <1>1, <1>2 DEF IInv, StageInv, Early, Late, links
<1> QED
  BY <1>3, <1>4, <1>5 DEF IInv

\* A step that leaves the lanes, the outcome and the messages alone.
LEMMA PlainKeeps ==
  ASSUME IInv, UNCHANGED <<outcome, messages, lanes, bar>>, TypeOK', StageInv'
  PROVE  IInv'
BY LanesAlone DEF IInv, lanes

LEMMA LanesStoppedKeeps ==
  ASSUME IInv, LanesStopped
  PROVE  IInv'
<1>1. TypeOK'
  BY DEF LanesStopped, IInv, TypeOK, lanes, bar
<1>2. StageInv'
  BY DEF LanesStopped, IInv, StageInv, Early, Late, Quiet, Working, lanes
<1> QED
  BY <1>1, <1>2, PlainKeeps DEF LanesStopped

LEMMA CloseLinkKeeps ==
  ASSUME IInv, NEW c \in Links, CloseLink(c)
  PROVE  IInv'
<1>1. TypeOK'
  BY DEF CloseLink, IInv, TypeOK, lanes, bar, sender
<1>2. StageInv'
  BY DEF CloseLink, IInv, StageInv, Early, Late, Quiet, Working, lanes, sender
<1> QED
  BY <1>1, <1>2, PlainKeeps DEF CloseLink, sender

LEMMA LinksClosedKeeps ==
  ASSUME IInv, LinksClosed
  PROVE  IInv'
<1>1. TypeOK'
  BY DEF LinksClosed, IInv, TypeOK, lanes, bar, links
<1>2. StageInv'
  BY DEF LinksClosed, IInv, StageInv, Early, Late, Quiet, Working, Open, lanes, links
<1> QED
  BY <1>1, <1>2, PlainKeeps DEF LinksClosed

\* The stages of the message, up to its sending.
LEMMA LateKeeps ==
  ASSUME IInv, pc \in {"send", "asleep"}, pc' \in Late,
         UNCHANGED <<outcome, cancels, links, lanes, bar>>,
         document' \in BOOLEAN, waits' \in 0 .. MaxWaits,
         messages' = messages \/ (messages' = messages + 1 /\ pc' = "over")
  PROVE  IInv'
<1>1. messages = 0
  BY DEF IInv, StageInv
<1>2. TypeOK'
  <2>1. messages' \in {0, 1}
    BY <1>1
  <2>2. pc' \in {"start", "slot", "open", "lanes", "stopping", "closing", "telethon",
                 "send", "asleep", "over"}
    BY DEF Late
  <2> QED
    BY <2>1, <2>2 DEF IInv, TypeOK, lanes, bar, links
<1>3. LaneInv' /\ CountInv' /\ FirstInv' /\ BarInv'
  BY LanesAlone DEF lanes
<1>4. StageInv'
  BY <1>1 DEF IInv, StageInv, Early, Late, Quiet, Working, Open, lanes, links
<1> QED
  BY <1>2, <1>3, <1>4 DEF IInv

LEMMA CancelKeeps ==
  ASSUME IInv, Cancel
  PROVE  IInv'
<1>1. /\ outcome' = "cancelled" /\ cancels' \in 0 .. MaxCancels
      /\ UNCHANGED <<document, waits, lpc, part, link, tries, next, limit, floods, uploaded,
                     stored, bar>>
      /\ pc' \in {"over", "stopping", "closing"}
  <2>1. cancels \in Nat /\ cancels < MaxCancels /\ cancels' = cancels + 1
    <3>1. cancels \in 0 .. MaxCancels
      BY DEF IInv, TypeOK
    <3> QED
      BY <3>1, Bounds DEF Cancel
  <2> QED
    BY <2>1, Bounds DEF Cancel
<1>2. doomed => doomed'
  BY DEF Cancel
<1>3. LaneInv' /\ CountInv' /\ FirstInv' /\ BarInv'
  BY <1>1, <1>2, LanesAlone
<1>4. /\ conn' \in [Links -> {"none", "opening", "open", "failed", "closed"}]
      /\ fd' \in BOOLEAN /\ doomed' \in BOOLEAN /\ messages' \in {0, 1}
  <2>1. /\ conn \in [Links -> {"none", "opening", "open", "failed", "closed"}]
        /\ fd \in BOOLEAN /\ doomed \in BOOLEAN /\ messages \in {0, 1}
    BY DEF IInv, TypeOK
  <2>2. fd' \in BOOLEAN /\ doomed' \in BOOLEAN
    BY <2>1 DEF Cancel, links
  <2>3. pc = "send" => messages = 0
    BY DEF IInv, StageInv
  <2>4. messages' \in {0, 1}
    BY <2>1, <2>3 DEF Cancel
  <2>5. \/ conn' = conn
        \/ conn' = [c \in Links |-> IF conn[c] = "opening" THEN "failed" ELSE conn[c]]
    BY DEF Cancel, links
  <2> QED
    BY <2>1, <2>2, <2>4, <2>5
<1>5. TypeOK'
  BY <1>1, <1>4 DEF IInv, TypeOK, bar
<1>6. StageInv'
  <2>1. pc' # "over" => messages' = 0
    BY DEF Cancel, IInv, StageInv
  <2>2. pc' = "stopping" => doomed'
    BY DEF Cancel
  <2>3. ASSUME NEW l \in Lanes
        PROVE  /\ lpc[l] \in Working => fd' \/ doomed'
               /\ lpc[l] \in Working /\ ~doomed' => pc' = "lanes"
               /\ lpc[l] = "cancelled" => doomed'
    BY <1>2 DEF Cancel, IInv, StageInv, Early, Working, links
  <2> QED
    BY <1>1, <2>1, <2>2, <2>3 DEF StageInv, Early
<1> QED
  BY <1>3, <1>5, <1>6 DEF IInv

LEMMA SendFileKeeps ==
  ASSUME IInv, SendFile
  PROVE  IInv'
<1>1. CASE Begin
  <2>1. TypeOK'
    BY <1>1 DEF Begin, IInv, TypeOK, lanes, bar, links
  <2> QED
    BY <1>1, <2>1, EarlyKeeps DEF Begin, Early
<1>2. CASE GetSlot
  <2>1. TypeOK'
    BY <1>2 DEF GetSlot, IInv, TypeOK, lanes, bar
  <2> QED
    BY <1>2, <2>1, EarlyKeeps DEF GetSlot, Early
<1>3. ASSUME NEW c \in Links, LinkSettles(c) PROVE IInv'
  <2>1. TypeOK'
    BY <1>3 DEF LinkSettles, IInv, TypeOK, lanes, bar, sender
  <2> QED
    BY <1>3, <2>1, EarlyKeeps DEF LinkSettles, Early, sender
<1>4. CASE OpenFails
  <2>1. TypeOK'
    BY <1>4 DEF OpenFails, IInv, TypeOK, lanes, bar, links
  <2> QED
    BY <1>4, <2>1, EarlyKeeps DEF OpenFails, Early
<1>5. CASE Sent
  BY <1>5, LateKeeps DEF Sent, Late, IInv, TypeOK
<1>6. CASE SendFloods
  <2>1. waits' \in 0 .. MaxWaits /\ pc' \in Late
    <3>1. waits \in 0 .. MaxWaits
      BY DEF IInv, TypeOK
    <3> QED
      BY <1>6, <3>1, Bounds DEF SendFloods, Late
  <2> QED
    BY <1>6, <2>1, LateKeeps DEF SendFloods, IInv, TypeOK
<1>7. CASE SendWakes
  BY <1>7, LateKeeps DEF SendWakes, Late, IInv, TypeOK
<1>8. CASE Rejected
  <2>1. document' \in BOOLEAN /\ waits' \in 0 .. MaxWaits /\ pc' \in Late
    <3>1. document \in BOOLEAN /\ waits \in 0 .. MaxWaits
      BY DEF IInv, TypeOK
    <3>2. 0 \in 0 .. MaxWaits
      BY Bounds
    <3> QED
      BY <1>8, <3>1, <3>2 DEF Rejected, Late
  <2> QED
    BY <1>8, <2>1, LateKeeps DEF Rejected
<1>9. CASE SendRaises
  <2>1. CASE pc = "send"
    BY <1>9, <2>1, LateKeeps DEF SendRaises, Late, IInv, TypeOK
  <2>2. CASE pc = "telethon"
    <3>1. TypeOK'
      BY <1>9 DEF SendRaises, IInv, TypeOK, lanes, bar, links
    <3>2. outcome = ""
      BY <2>2, NothingSettled DEF Early
    <3> QED
      BY <1>9, <2>2, <3>1, <3>2, EarlyKeeps DEF SendRaises, Early
  <2> QED
    BY <1>9, <2>1, <2>2 DEF SendRaises
<1> QED
  BY <1>1, <1>2, <1>3, <1>4, <1>5, <1>6, <1>7, <1>8, <1>9, TelethonKeeps, StartLanesKeeps,
     LanesEndKeeps, LanesStoppedKeeps, CloseLinkKeeps, LinksClosedKeeps DEF SendFile

LEMMA InitHolds == Init => IInv
<1> SUFFICES ASSUME Init PROVE IInv
  OBVIOUS
<1>1. TypeOK
  <2>1. /\ 0 \in 0 .. MaxWaits /\ 0 \in 0 .. MaxCancels /\ 0 \in 0 .. Parts /\ 0 \in 0 .. Extra
        /\ 0 \in 0 .. MaxTries /\ 1 \in 1 .. Parts + 1 /\ Workers \in 1 .. Workers
        /\ 0 \in 0 .. MaxFloods /\ 0 \in 0 .. FloodNotice
    BY Bounds DEF FloodNotice
  <2> QED
    BY <2>1 DEF Init, TypeOK
<1>2. LaneInv /\ FirstInv
  BY Bounds DEF Init, LaneInv, Holding, FirstInv
<1>3. CountInv
  BY NoneTaken, NothingCounted DEF Init
<1>4. StageInv
  BY DEF Init, StageInv, Early, Late, Working
<1>5. BarInv
  <2>1. uploaded = 0 /\ shown = 0 /\ last = 0
    BY DEF Init
  <2>4. uploaded # Parts /\ shown <= uploaded /\ last <= uploaded
    BY <2>1, Bounds
  <2>2. \A l \in Lanes : pct[l] = 0 /\ uploaded = 0
    BY DEF Init
  <2>3. \A l \in Lanes : pct[l] <= uploaded
    BY <2>2
  <2> QED
    BY <2>3, <2>4 DEF BarInv
<1> QED
  BY <1>1, <1>2, <1>3, <1>4, <1>5 DEF IInv

LEMMA NextHolds ==
  ASSUME IInv, [Next]_vars
  PROVE  IInv'
<1>1. CASE UNCHANGED vars
  <2>1. TypeOK'
    BY <1>1 DEF vars, sender, links, lanes, bar, IInv, TypeOK
  <2>2. StageInv'
    BY <1>1 DEF vars, sender, links, lanes, IInv, StageInv, Quiet, Open
  <2> QED
    BY <1>1, <2>1, <2>2, PlainKeeps DEF vars, sender
<1>2. CASE Over
  BY <1>1, <1>2 DEF Over
<1> QED
  BY <1>1, <1>2, SendFileKeeps, LaneStepKeeps, CancelKeeps DEF Next

\* The inductive invariant holds in every state.
THEOREM Invariant == Spec => []IInv
BY InitHolds, NextHolds, PTL DEF Spec

-----------------------------------------------------------------------------
(***************************************************************************)
(* The theorems.                                                           *)
(***************************************************************************)

\* The variables keep their types: no lane limit of zero, no part past the last.
THEOREM TypeCorrect == Spec => []TypeOK
<1>1. IInv => TypeOK
  BY DEF IInv
<1> QED
  BY <1>1, Invariant, PTL

\* What is counted are parts Telegram has, each once.
THEOREM CountsStoredParts == Spec => []ProgressIsReal
<1>1. ASSUME IInv PROVE ProgressIsReal
  <2>1. IsFiniteSet(stored)
    BY <1>1, PartsAreFinite, FS_Subset DEF IInv, TypeOK
  <2>2. Cardinality(stored \cap Settled) <= Cardinality(stored)
    BY <2>1, FS_Subset
  <2>3. /\ Cardinality(stored) \in Nat /\ Cardinality(stored \cap Settled) \in Nat
        /\ uploaded \in Nat
    BY <1>1, <2>1, FS_CardinalityType, SettledIsFinite, Numbers DEF IInv
  <2> QED
    BY <1>1, <2>2, <2>3 DEF IInv, CountInv, ProgressIsReal
<1> QED
  BY <1>1, Invariant, PTL

\* A completed upload has shown 100 per cent last.
THEOREM ShowsTheEnd == Spec => []EndsAtHundred
<1>1. IInv => EndsAtHundred
  BY Numbers DEF IInv, StageInv, BarInv, EndsAtHundred
<1> QED
  BY <1>1, Invariant, PTL

\* The lanes, the descriptor and the connections of an upload are gone with it.
THEOREM CleansUpAfterItself == Spec => []NothingOutlivesUpload
<1>1. IInv => NothingOutlivesUpload
  BY DEF IInv, StageInv, Late, Quiet, NothingOutlivesUpload
<1> QED
  BY <1>1, Invariant, PTL

\* The message goes out once, when Telegram has every part.
THEOREM Implements == Spec => Delivers
<1>1. Init => TransferSpec!Init
  BY DEF Init, TransferSpec!Init
<1>2. ASSUME IInv, IInv', [Next]_vars
      PROVE  [TransferSpec!Next]_<<stored, messages>>
  <2>1. stored' \subseteq AllParts
    BY <1>2 DEF IInv, TypeOK
  <2>2. CASE UNCHANGED vars \/ Over
    BY <2>2 DEF Over, vars, sender, lanes
  <2>3. ASSUME NEW l \in Lanes, LaneStep(l)
        PROVE  stored \subseteq stored' /\ messages' = messages
    BY <2>3 DEF LaneStep, Starts, HasRead, ReadFails, Accepted, Reported, ReportFails, Flooded,
                FloodedOut, Wakes, LinkFails, MainFails, Unwinds, Lost, sender
  <2>4. CASE SendFile \/ Cancel
    <3>1. \/ stored \subseteq stored' /\ messages' = messages
          \/ pc = "send" /\ messages' = messages + 1 /\ stored' = stored
      BY <1>2, <2>4
         DEF SendFile, Begin, TelethonUploads, GetSlot, LinkSettles, StartLanes, OpenFails,
             LanesEnd, LanesStopped, CloseLink, LinksClosed, Sent, SendFloods, SendWakes,
             Rejected, SendRaises, Cancel, sender, lanes, IInv, TypeOK
    <3>2. pc = "send" => messages = 0 /\ stored = AllParts
      BY <1>2 DEF IInv, StageInv
    <3> QED
      BY <2>1, <3>1, <3>2
         DEF TransferSpec!Next, TransferSpec!Store, TransferSpec!Deliver
  <2> QED
    BY <1>2, <2>1, <2>2, <2>3, <2>4 DEF Next, TransferSpec!Next, TransferSpec!Store
<1> QED
  BY <1>1, <1>2, Invariant, PTL DEF Spec, Delivers, TransferSpec!Spec

=============================================================================
