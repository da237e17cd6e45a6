----------------------------- MODULE HlsProofs -----------------------------
(***************************************************************************)
(* Hls keeps its invariants for every length of stream and window, number  *)
(* of threads and limit.  The invariant that is inductive is Inv.  What    *)
(* the folds of the model compute is proved by induction over the data     *)
(* (DataInduction).                                                        *)
(***************************************************************************)
EXTENDS Hls, DataInduction, SequenceTheorems

\* The stream stays what it is, and a live playlist lists as many segments as
\* before.
StreamOK ==
  /\ last = first + PlaylistLength - 1
  /\ finite => first = 1

\* Where a download of each kind can be.
KindOK ==
  /\ pc \in {"file", "file audio"} => finite
  /\ pc \in Batches \cup {"init", "audio", "refresh", "drain", "keys", "concat", "probe"}
       => ~finite
  /\ pc = "resolve" => hops <= MaxDepth

\* The segments of a finite playlist are fetched from the first one on.
FileOK ==
  finite =>
    /\ \A t \in Tracks : \E n \in Nat : seen[t] = 1 .. n
    /\ pc = "resolve" => \A t \in Tracks : seen[t] = {}
    /\ pc = "file" => /\ selected = From(1)
                      /\ PlaylistLength \notin seen["video"] /\ seen["audio"] = {}
    /\ pc = "file audio" => selected = From(1) /\ PlaylistLength \notin seen["audio"]
    /\ \A t \in Tracks, s \in Segments : job[t][s] = "none"

\* Whose jobs the main thread waits for.
Awaited(t) == pc \in Batches /\ TrackOf(pc) = t

\* The pool works for the batch that is waited for.
PoolOK ==
  /\ \A t \in Tracks, s \in Segments :
       /\ job[t][s] = "queued" => Awaited(t)
       /\ job[t][s] = "running" => Awaited(t) \/ pc = "drain"
       /\ job[t][s] \in {"failed", "dropped"} =>
            Awaited(t) \/ pc \in {"drain", "unwind", "failed"}
  /\ ~finite => \A t \in Tracks, s \in Segments :
       s \in seen[t] => job[t][s] \in {"ok", "gone"}

\* More than the cap allows was counted only if that fails the download.
CapOK ==
  \/ counter <= MaxSize
  \/ pc \in {"drain", "unwind", "failed"}
  \/ pc \in Batches /\ \E s \in Segments : job[TrackOf(pc)][s] = "failed"

\* The selection is in order; it is there before the playlist is refreshed.
SelectionOK ==
  /\ InOrder(selected)
  /\ pc \in {"init", "batch", "audio", "audio batch", "refresh"} => selected # <<>>

\* The runs cut from some segments: each is continuous, one comes after the
\* other, and they are those segments.
Continuous(run) ==
  /\ run # <<>> /\ InOrder(run)
  /\ \A k \in 2 .. Len(run) : run[k] = run[k - 1] + 1 /\ run[k] \notin Breaks

Cut(rs, segments) ==
  /\ \A i \in DOMAIN rs : Continuous(rs[i])
  /\ \A i, j \in DOMAIN rs : i < j =>
       \A k \in DOMAIN rs[i], l \in DOMAIN rs[j] : rs[i][k] < rs[j][l]
  /\ \A i \in DOMAIN rs : \A k \in DOMAIN rs[i] : rs[i][k] \in segments
  /\ \A s \in segments : \E i \in DOMAIN rs : \E k \in DOMAIN rs[i] : rs[i][k] = s

RunsOK ==
  /\ pc \in Batches \cup {"resolve", "init", "audio", "refresh", "keys"} => remuxed = 0
  /\ ~finite /\ pc \in {"remux", "concat", "probe", "rename", "tidy", "done"} =>
       /\ Cut(runs, ToSet(selected) \ Gaps) /\ Cardinality(Gaps) <= MaxGaps
       /\ Cardinality(Gaps) * 100 <= Len(selected) * MaxGapPercent
  /\ ~finite /\ pc \in {"remux", "concat"} => runs # <<>>
  /\ ~finite /\ pc = "remux" => remuxed < Len(runs)

OutputOK ==
  /\ pc \in {"done", "failed"} => ~work
  /\ pc = "failed" => output.name = "none"
  /\ pc \in {"tidy", "done"} => output.name = "final"
  /\ ~finite /\ pc \in {"probe", "rename", "tidy", "done"} =>
       InOrder(output.segments) /\ ToSet(output.segments) = ToSet(selected) \ Gaps

Inv ==
  /\ TypeOK /\ StreamOK /\ KindOK /\ FileOK /\ PoolOK /\ CapOK /\ SelectionOK
  /\ RunsOK /\ OutputOK

-----------------------------------------------------------------------------
\* Cutting a selection into its continuous runs.

\* The runs with one more segment.
Extended(rs, s) ==
  IF ~HasPath(s) THEN rs
  ELSE IF rs # <<>> /\ Joins(s, rs[Len(rs)])
         THEN [rs EXCEPT ![Len(rs)] = Append(@, s)]
         ELSE Append(rs, <<s>>)

\* The three things that one more segment does to the runs.
LEMMA ExtendedCases ==
  ASSUME NEW rs \in Seq(Seq(Segments)), NEW s \in Segments
  PROVE  /\ Extended(rs, s) \in Seq(Seq(Segments))
         /\ \/ ~HasPath(s) /\ Extended(rs, s) = rs
            \/ /\ HasPath(s) /\ rs # <<>> /\ Joins(s, rs[Len(rs)])
               /\ Len(Extended(rs, s)) = Len(rs)
               /\ \A i \in DOMAIN rs : i # Len(rs) => Extended(rs, s)[i] = rs[i]
               /\ Extended(rs, s)[Len(rs)] = Append(rs[Len(rs)], s)
            \/ /\ HasPath(s) /\ ~(rs # <<>> /\ Joins(s, rs[Len(rs)]))
               /\ Extended(rs, s) = Append(rs, <<s>>)
<1>1. CASE ~HasPath(s)
  BY <1>1 DEF Extended
<1>2. CASE HasPath(s) /\ rs # <<>> /\ Joins(s, rs[Len(rs)])
  <2> DEFINE n == Len(rs)
             e == [rs EXCEPT ![n] = Append(@, s)]
  <2>1. n \in Nat /\ n # 0 /\ DOMAIN rs = 1 .. n /\ n \in DOMAIN rs
    BY <1>2
  <2>2. rs[n] \in Seq(Segments) /\ Append(rs[n], s) \in Seq(Segments)
    BY <2>1
  <2>3. Extended(rs, s) = e
    BY <1>2 DEF Extended
  <2>4. /\ e \in [1 .. n -> Seq(Segments)]
        /\ \A i \in DOMAIN rs : i # n => e[i] = rs[i]
        /\ e[n] = Append(rs[n], s)
    BY <2>1, <2>2
  <2>5. e \in Seq(Seq(Segments)) /\ Len(e) = n
    BY <2>1, <2>4
  <2> HIDE DEF e
  <2> QED
    BY <1>2, <2>3, <2>4, <2>5
<1>3. CASE HasPath(s) /\ ~(rs # <<>> /\ Joins(s, rs[Len(rs)]))
  <2>1. Extended(rs, s) = Append(rs, <<s>>)
    BY <1>3 DEF Extended
  <2>2. <<s>> \in Seq(Segments)
    OBVIOUS
  <2> QED
    BY <1>3, <2>1, <2>2
<1> QED
  BY <1>1, <1>2, <1>3

\* The greatest of the first numbers.
LEMMA MaxOfInterval ==
  ASSUME NEW n \in Nat, n # 0
  PROVE  Max(1 .. n) = n
<1>1. n \in 1 .. n /\ \A m \in 1 .. n : n >= m
  OBVIOUS
<1>2. \E x \in 1 .. n : \A m \in 1 .. n : x >= m
  BY <1>1
<1>3. Max(1 .. n) \in 1 .. n /\ \A m \in 1 .. n : Max(1 .. n) >= m
  BY <1>2, Zenon DEF Max
<1> QED
  BY <1>1, <1>3

\* A finite set of numbers has a greatest one.
LEMMA MaxOfNumbers ==
  ASSUME NEW n \in Nat, NEW T \in SUBSET (1 .. n), T # {}
  PROVE  Max(T) \in T
<1> DEFINE U == {m \in Nat : \A k \in T : k <= m}
<1>1. n \in U
  OBVIOUS
<1>2. PICK m \in U : \A k \in U : m <= k
  BY <1>1, LeastNumber
<1>3. m \in T
  <2> SUFFICES ASSUME m \notin T
      PROVE  FALSE
    OBVIOUS
  <2>1. m # 0 /\ m - 1 \in Nat
    <3>1. PICK k \in T : TRUE
      OBVIOUS
    <3> QED
      BY <1>2, <3>1
  <2>2. \A k \in T : k <= m - 1
    BY <1>2
  <2> QED
    BY <1>2, <2>1, <2>2
<1>4. \E x \in T : \A y \in T : x >= y
  BY <1>2, <1>3
<1> QED
  BY <1>4, Zenon DEF Max

\* The runs of the first segments of a selection, one after the other.
LEMMA RunsOfPrefixes ==
  ASSUME NEW q \in Seq(Segments)
  PROVE  \E r \in [0 .. Len(q) -> Seq(Seq(Segments))] :
           /\ r[0] = <<>>
           /\ \A n \in 1 .. Len(q) : r[n] = Extended(r[n - 1], q[n])
           /\ ContinuousRuns(q) = r[Len(q)]
<1> DEFINE S == DOMAIN q
           Runs == Seq(Seq(Segments))
           iter == CHOOSE f : f = [s \in SUBSET S |->
                     IF s = {} THEN <<>> ELSE Extended(f[s \ {Max(s)}], q[Max(s)])]
           pick == [T \in SUBSET S |-> Max(T)]
           step == [p \in S \X Runs |-> Extended(p[2], q[p[1]])]
<1>1. ContinuousRuns(q) = iter[S]
  BY Zenon DEF ContinuousRuns, FoldLeft, MapThenFoldSet, Extended
<1>2. Len(q) \in Nat /\ S = 1 .. Len(q) /\ IsFiniteSet(S)
  BY FS_Interval
<1>3. \A T \in SUBSET S : T # {} => Max(T) \in T
  BY <1>2, MaxOfNumbers
<1>4. <<>> \in Runs
  OBVIOUS
<1>5. \A rs \in Runs, s \in S : Extended(rs, q[s]) \in Runs
  BY ExtendedCases
<1>6. step \in [S \X Runs -> Runs]
  BY <1>5
<1>7. \A T \in SUBSET S : T # {} => pick[T] \in T
  BY <1>3
<1> HIDE DEF Runs
<1>8. PICK f \in [SUBSET S -> Runs] : \A T \in SUBSET S :
        f[T] = IF T = {} THEN <<>> ELSE step[<<pick[T], f[T \ {pick[T]}]>>]
  <2>1. IsFiniteSet(S)
    BY <1>2
  <2> DEFINE base == <<>>
  <2>2. base \in Runs
    BY <1>4
  <2> HIDE DEF step, pick, S, iter, base
  <2>3. Picks(S, pick)
    BY <1>7 DEF Picks
  <2>4. FoldResults(S, Runs, base, pick, step) # {}
    BY <2>1, <2>2, <2>3, <1>6, SetRecursion
  <2> QED
    BY <2>4 DEF base, FoldResults
<1>9. \A T \in SUBSET S : T # {} =>
        step[<<pick[T], f[T \ {pick[T]}]>>] = Extended(f[T \ {Max(T)}], q[Max(T)])
  BY <1>3
<1>10. f = [s \in SUBSET S |->
             IF s = {} THEN <<>> ELSE Extended(f[s \ {Max(s)}], q[Max(s)])]
  <2> HIDE DEF step, pick, S
  <2> QED
    BY <1>8, <1>9
<1>11. iter = [s \in SUBSET S |->
               IF s = {} THEN <<>> ELSE Extended(iter[s \ {Max(s)}], q[Max(s)])]
  BY <1>10, Zenon
<1> HIDE DEF iter, step, pick
<1> DEFINE r == [n \in 0 .. Len(q) |-> iter[1 .. n]]
<1>12. iter[{}] = <<>>
  <2>1. {} \in SUBSET S
    OBVIOUS
  <2> QED
    BY <1>11, <2>1, Zenon
<1>13. r[0] = <<>>
  <2>1. 1 .. 0 = {} /\ 0 \in 0 .. Len(q)
    BY <1>2
  <2> QED
    BY <1>12, <2>1
<1>14. ASSUME NEW n \in 1 .. Len(q)
       PROVE  r[n] = Extended(r[n - 1], q[n])
  <2>0. Len(q) \in Nat /\ n \in Nat
    BY <1>2
  <2>1. 1 .. n \in SUBSET S /\ 1 .. n # {} /\ (1 .. n) \ {n} = 1 .. n - 1
    <3>1. \A m \in 1 .. n : m \in S
      BY <1>2, <2>0
    <3>2. n \in 1 .. n
      BY <2>0
    <3>3. (1 .. n) \ {n} = 1 .. n - 1
      BY <2>0
    <3> QED
      BY <3>1, <3>2, <3>3
  <2>2. Max(1 .. n) = n
    BY <1>2, MaxOfInterval
  <2>3. iter[1 .. n] = Extended(iter[1 .. n - 1], q[n])
    <3>1. iter[1 .. n] = Extended(iter[(1 .. n) \ {Max(1 .. n)}], q[Max(1 .. n)])
      BY <1>11, <2>1
    <3> QED
      BY <2>1, <2>2, <3>1
  <2>4. n \in 0 .. Len(q) /\ n - 1 \in 0 .. Len(q)
    BY <1>2
  <2> QED
    BY <2>3, <2>4
<1>15. ContinuousRuns(q) = r[Len(q)]
  BY <1>1, <1>2
<1>16. r \in [0 .. Len(q) -> Runs]
  <2> DEFINE Good == {n \in Nat : n <= Len(q) => r[n] \in Runs}
  <2>1. 0 \in Good
    BY <1>4, <1>13
  <2>2. \A n \in Nat : n \in Good => n + 1 \in Good
    <3> SUFFICES ASSUME NEW n \in Nat, n \in Good, n + 1 <= Len(q)
        PROVE  r[n + 1] \in Runs
      OBVIOUS
    <3> HIDE DEF r
    <3>1. n + 1 \in 1 .. Len(q) /\ (n + 1) - 1 = n /\ n + 1 \in S
      BY <1>2
    <3>2. r[n] \in Runs
      BY <1>2
    <3>3. r[n + 1] = Extended(r[n], q[n + 1])
      BY <1>14, <3>1
    <3> QED
      BY <1>5, <3>1, <3>2, <3>3
  <2> HIDE DEF Good
  <2>3. Nat \subseteq Good
    BY <2>1, <2>2, NumberInduction
  <2>4. \A n \in 0 .. Len(q) : r[n] \in Runs
    <3> HIDE DEF r
    <3> QED
      BY <1>2, <2>3 DEF Good
  <2> QED
    BY <2>4
<1> HIDE DEF r
<1> QED
  BY <1>13, <1>14, <1>15, <1>16 DEF Runs

\* A continuous run stays one with the segment that joins it.
LEMMA JoinedRun ==
  ASSUME NEW run \in Seq(Segments), Continuous(run),
         NEW s \in Segments, Joins(s, run)
  PROVE  Continuous(Append(run, s))
<1> DEFINE n == Len(run)
           r == Append(run, s)
<1>1. /\ n \in Nat \ {0} /\ DOMAIN run = 1 .. n /\ DOMAIN r = 1 .. n + 1
      /\ Len(r) = n + 1 /\ r[n + 1] = s /\ \A i \in 1 .. n : r[i] = run[i]
      /\ \A i \in 1 .. n : run[i] \in Nat
  <2>1. n \in Nat \ {0} /\ DOMAIN run = 1 .. n
    BY DEF Continuous
  <2>2. \A i \in 1 .. n : run[i] \in Segments
    BY <2>1
  <2>3. \A i \in 1 .. n : run[i] \in Nat
    BY <2>2 DEF Segments
  <2> QED
    BY <2>1, <2>3
<1>2. run[n] + 1 = s /\ s \notin Breaks
  BY DEF Joins
<1>3. \A i \in 1 .. n : run[i] <= run[n]
  <2> SUFFICES ASSUME NEW i \in 1 .. n
      PROVE  run[i] <= run[n]
    OBVIOUS
  <2>1. InOrder(run)
    BY DEF Continuous
  <2> HIDE DEF r
  <2>2. i < n => run[i] < run[n]
    BY <1>1, <2>1 DEF InOrder
  <2>3. run[n] \in Nat /\ run[i] \in Nat
    BY <1>1
  <2> QED
    BY <1>1, <2>2, <2>3
<1>4. s \in Nat /\ \A i \in 1 .. n : r[i] < s
  BY <1>1, <1>2, <1>3 DEF Segments
<1>5. \A i, j \in 1 .. n : i < j => r[i] < r[j]
  <2>1. InOrder(run)
    BY DEF Continuous
  <2> HIDE DEF r
  <2> QED
    BY <1>1, <2>1 DEF InOrder
<1> HIDE DEF r
<1>6. InOrder(r)
  <2> SUFFICES ASSUME NEW i \in 1 .. n + 1, NEW j \in 1 .. n + 1, i < j
      PROVE  r[i] < r[j]
    BY <1>1 DEF InOrder
  <2>1. i \in 1 .. n /\ (j \in 1 .. n \/ j = n + 1)
    BY <1>1
  <2> QED
    BY <1>1, <1>4, <1>5, <2>1
<1>7. \A k \in 2 .. Len(r) : r[k] = r[k - 1] + 1 /\ r[k] \notin Breaks
  <2> SUFFICES ASSUME NEW k \in 2 .. n + 1
      PROVE  r[k] = r[k - 1] + 1 /\ r[k] \notin Breaks
    BY <1>1
  <2>1. CASE k = n + 1
    <3>1. k - 1 = n /\ n \in 1 .. n
      BY <1>1, <2>1
    <3> QED
      BY <1>1, <1>2, <2>1, <3>1
  <2>2. CASE k # n + 1
    <3>1. k \in 2 .. n /\ k \in 1 .. n /\ k - 1 \in 1 .. n
      BY <1>1, <2>2
    <3>2. run[k] = run[k - 1] + 1 /\ run[k] \notin Breaks
      BY <3>1 DEF Continuous
    <3> QED
      BY <1>1, <3>1, <3>2
  <2> QED
    BY <2>1, <2>2
<1>8. r # <<>>
  BY <1>1
<1> QED
  BY <1>6, <1>7, <1>8 DEF Continuous, r

\* A segment that comes after the others is put where it belongs.
LEMMA ExtendedCut ==
  ASSUME NEW rs \in Seq(Seq(Segments)), NEW P \in SUBSET Segments, Cut(rs, P),
         NEW s \in Segments, \A p \in P : p < s
  PROVE  Cut(Extended(rs, s), IF HasPath(s) THEN P \cup {s} ELSE P)
<1> DEFINE n == Len(rs)
           e == Extended(rs, s)
<1>1. n \in Nat /\ DOMAIN rs = 1 .. n
  OBVIOUS
<1>2. CASE ~HasPath(s)
  BY <1>2, ExtendedCases
<1>3. CASE HasPath(s) /\ rs # <<>> /\ Joins(s, rs[n])
  <2>1. /\ n \in DOMAIN rs /\ e \in Seq(Seq(Segments)) /\ DOMAIN e = 1 .. n
        /\ \A i \in 1 .. n : i # n => e[i] = rs[i]
        /\ e[n] = Append(rs[n], s)
    <3>1. Len(e) = n /\ e \in Seq(Seq(Segments))
      BY <1>3, ExtendedCases DEF Joins
    <3>2. /\ \A i \in DOMAIN rs : i # n => e[i] = rs[i]
          /\ e[n] = Append(rs[n], s)
      BY <1>3, ExtendedCases
    <3> HIDE DEF e
    <3>3. n \in DOMAIN rs /\ DOMAIN e = 1 .. n
      BY <1>1, <1>3, <3>1
    <3> QED
      BY <1>1, <3>1, <3>2, <3>3
  <2> DEFINE m == Len(rs[n])
  <2>2. /\ rs[n] \in Seq(Segments) /\ m \in Nat /\ DOMAIN rs[n] = 1 .. m
        /\ DOMAIN e[n] = 1 .. m + 1 /\ e[n][m + 1] = s
        /\ \A k \in 1 .. m : e[n][k] = rs[n][k]
    BY <2>1
  <2> HIDE DEF e, n, m
  <2>3. \A i \in DOMAIN e : Continuous(e[i])
    <3>1. Continuous(e[n])
      BY <1>3, <2>1, <2>2, JoinedRun DEF Cut
    <3> QED
      BY <1>1, <2>1, <3>1 DEF Cut
  <2>4. \A i \in 1 .. n : \A k \in DOMAIN e[i] :
          \/ k \in DOMAIN rs[i] /\ e[i][k] = rs[i][k]
          \/ i = n /\ k = m + 1 /\ e[i][k] = s
    <3> SUFFICES ASSUME NEW i \in 1 .. n, NEW k \in DOMAIN e[i]
        PROVE  \/ k \in DOMAIN rs[i] /\ e[i][k] = rs[i][k]
               \/ i = n /\ k = m + 1 /\ e[i][k] = s
      OBVIOUS
    <3>1. CASE i = n
      <4>1. k \in 1 .. m \/ k = m + 1
        BY <2>2, <3>1
      <4> QED
        BY <2>2, <3>1, <4>1
    <3>2. CASE i # n
      BY <2>1, <3>2
    <3> QED
      BY <3>1, <3>2
  <2>5. \A i \in 1 .. n : \A k \in DOMAIN rs[i] :
          k \in DOMAIN e[i] /\ e[i][k] = rs[i][k] /\ rs[i][k] < s
    <3> SUFFICES ASSUME NEW i \in 1 .. n, NEW k \in DOMAIN rs[i]
        PROVE  k \in DOMAIN e[i] /\ e[i][k] = rs[i][k] /\ rs[i][k] < s
      OBVIOUS
    <3>1. rs[i][k] < s
      BY <1>1 DEF Cut
    <3>2. CASE i = n
      <4>1. k \in 1 .. m /\ k \in 1 .. m + 1
        BY <2>2, <3>2
      <4> QED
        BY <2>2, <3>1, <3>2, <4>1
    <3>3. CASE i # n
      BY <2>1, <3>1, <3>3
    <3> QED
      BY <3>2, <3>3
  <2>6. \A i, j \in DOMAIN e : i < j =>
          \A k \in DOMAIN e[i], l \in DOMAIN e[j] : e[i][k] < e[j][l]
    <3> SUFFICES ASSUME NEW i \in 1 .. n, NEW j \in 1 .. n, i < j,
                        NEW k \in DOMAIN e[i], NEW l \in DOMAIN e[j]
        PROVE  e[i][k] < e[j][l]
      BY <2>1
    <3>1. k \in DOMAIN rs[i] /\ e[i][k] = rs[i][k]
      BY <1>1, <2>4
    <3>2. (l \in DOMAIN rs[j] /\ e[j][l] = rs[j][l]) \/ e[j][l] = s
      BY <2>4
    <3> QED
      BY <1>1, <2>5, <3>1, <3>2 DEF Cut
  <2>7. \A i \in DOMAIN e : \A k \in DOMAIN e[i] : e[i][k] \in P \cup {s}
    BY <1>1, <2>1, <2>4 DEF Cut
  <2>8. \A p \in P \cup {s} : \E i \in DOMAIN e : \E k \in DOMAIN e[i] : e[i][k] = p
    <3>1. \E i \in DOMAIN e : \E k \in DOMAIN e[i] : e[i][k] = s
      BY <1>1, <2>1, <2>2
    <3>2. ASSUME NEW p \in P
          PROVE  \E i \in DOMAIN e : \E k \in DOMAIN e[i] : e[i][k] = p
      <4>1. PICK i \in DOMAIN rs : \E k \in DOMAIN rs[i] : rs[i][k] = p
        BY DEF Cut
      <4>2. PICK k \in DOMAIN rs[i] : rs[i][k] = p
        BY <4>1
      <4> QED
        BY <1>1, <2>1, <2>5, <4>2
    <3> QED
      BY <3>1, <3>2
  <2> QED
    BY <1>3, <2>3, <2>6, <2>7, <2>8 DEF Cut, e
<1>4. CASE HasPath(s) /\ e = Append(rs, <<s>>)
  <2>1. /\ DOMAIN e = 1 .. n + 1 /\ e[n + 1] = <<s>>
        /\ \A i \in 1 .. n : e[i] = rs[i]
    BY <1>4
  <2>2. DOMAIN <<s>> = {1} /\ <<s>>[1] = s /\ Len(<<s>>) = 1
    OBVIOUS
  <2> HIDE DEF e, n
  <2>3. \A i \in DOMAIN e : Continuous(e[i])
    <3>1. Continuous(<<s>>)
      BY <2>2 DEF Continuous, InOrder
    <3>2. \A i \in 1 .. n : Continuous(e[i])
      BY <1>1, <2>1 DEF Cut
    <3>3. \A i \in DOMAIN e : i \in 1 .. n \/ i = n + 1
      BY <1>1, <2>1
    <3> QED
      BY <2>1, <3>1, <3>2, <3>3
  <2>4. \A i \in 1 .. n : \A k \in DOMAIN e[i] :
          e[i] = rs[i] /\ e[i][k] \in P /\ e[i][k] < s
    BY <1>1, <2>1 DEF Cut
  <2>5. \A i, j \in DOMAIN e : i < j =>
          \A k \in DOMAIN e[i], l \in DOMAIN e[j] : e[i][k] < e[j][l]
    <3> SUFFICES ASSUME NEW i \in 1 .. n + 1, NEW j \in 1 .. n + 1, i < j,
                        NEW k \in DOMAIN e[i], NEW l \in DOMAIN e[j]
        PROVE  e[i][k] < e[j][l]
      BY <2>1
    <3>1. i \in 1 .. n
      BY <1>1
    <3>2. CASE j = n + 1
      BY <2>1, <2>2, <2>4, <3>1, <3>2
    <3>3. CASE j \in 1 .. n
      BY <1>1, <2>1, <3>1, <3>3 DEF Cut
    <3> QED
      BY <1>1, <3>2, <3>3
  <2>6. \A i \in DOMAIN e : \A k \in DOMAIN e[i] : e[i][k] \in P \cup {s}
    <3> SUFFICES ASSUME NEW i \in 1 .. n + 1, NEW k \in DOMAIN e[i]
        PROVE  e[i][k] \in P \cup {s}
      BY <2>1
    <3>1. i \in 1 .. n \/ i = n + 1
      BY <1>1
    <3> QED
      BY <2>1, <2>2, <2>4, <3>1
  <2>7. \A p \in P \cup {s} : \E i \in DOMAIN e : \E k \in DOMAIN e[i] : e[i][k] = p
    <3>1. \E i \in DOMAIN e : \E k \in DOMAIN e[i] : e[i][k] = s
      BY <1>1, <2>1, <2>2
    <3>2. ASSUME NEW p \in P
          PROVE  \E i \in DOMAIN e : \E k \in DOMAIN e[i] : e[i][k] = p
      <4>1. PICK i \in DOMAIN rs : \E k \in DOMAIN rs[i] : rs[i][k] = p
        BY DEF Cut
      <4>2. i \in 1 .. n /\ i \in DOMAIN e /\ e[i] = rs[i]
        BY <1>1, <2>1
      <4> QED
        BY <4>1, <4>2
    <3> QED
      BY <3>1, <3>2
  <2> QED
    BY <1>4, <2>3, <2>5, <2>6, <2>7 DEF Cut, e
<1> QED
  BY <1>2, <1>3, <1>4, ExtendedCases

\* The segments of a selection that are there, cut into runs.
LEMMA RunsAreCut ==
  ASSUME NEW q \in Seq(Segments), InOrder(q)
  PROVE  /\ ContinuousRuns(q) \in Seq(Seq(Segments))
         /\ Cut(ContinuousRuns(q), {s \in ToSet(q) : HasPath(s)})
<1>1. PICK r \in [0 .. Len(q) -> Seq(Seq(Segments))] :
        /\ r[0] = <<>>
        /\ \A n \in 1 .. Len(q) : r[n] = Extended(r[n - 1], q[n])
        /\ ContinuousRuns(q) = r[Len(q)]
  BY RunsOfPrefixes
<1>2. Len(q) \in Nat /\ DOMAIN q = 1 .. Len(q) /\ \A i \in DOMAIN q : q[i] \in Segments
  OBVIOUS
<1> DEFINE There(n) == {q[i] : i \in {j \in 1 .. n : HasPath(q[j])}}
           Fit(n) == Cut(r[n], There(n))
           Good == {n \in Nat : n <= Len(q) => Fit(n)}
<1>3. 0 \in Good
  <2>1. There(0) = {}
    OBVIOUS
  <2>2. DOMAIN <<>> = {}
    OBVIOUS
  <2>3. Cut(<<>>, {})
    BY <2>2 DEF Cut
  <2> QED
    BY <1>1, <2>1, <2>3
<1>4. \A n \in Nat : n \in Good => n + 1 \in Good
  <2> HIDE DEF Fit
  <2> SUFFICES ASSUME NEW n \in Nat, n \in Good, n + 1 <= Len(q)
      PROVE  Fit(n + 1)
    OBVIOUS
  <2> DEFINE s == q[n + 1]
  <2>1. n + 1 \in 1 .. Len(q) /\ (n + 1) - 1 = n /\ n \in 0 .. Len(q) /\ n <= Len(q)
    BY <1>2
  <2>2. Cut(r[n], There(n)) /\ r[n] \in Seq(Seq(Segments)) /\ s \in Segments
    <3>1. Fit(n)
      BY <2>1
    <3> QED
      BY <1>1, <1>2, <2>1, <3>1 DEF Fit
  <2>3. r[n + 1] = Extended(r[n], s)
    BY <1>1, <2>1
  <2>4. There(n) \in SUBSET Segments /\ \A p \in There(n) : p < s
    <3> SUFFICES ASSUME NEW i \in 1 .. n
        PROVE  q[i] \in Segments /\ q[i] < s
      OBVIOUS
    <3>1. i \in DOMAIN q /\ n + 1 \in DOMAIN q /\ i < n + 1
      BY <1>2, <2>1
    <3> QED
      BY <1>2, <3>1 DEF InOrder
  <2>5. There(n + 1) = IF HasPath(s) THEN There(n) \cup {s} ELSE There(n)
    <3>1. 1 .. n + 1 = (1 .. n) \cup {n + 1}
      OBVIOUS
    <3> QED
      BY <3>1
  <2> HIDE DEF There, s
  <2> QED
    BY <2>2, <2>3, <2>4, <2>5, ExtendedCut DEF Fit
<1> HIDE DEF Good
<1>5. Nat \subseteq Good
  BY <1>3, <1>4, NumberInduction
<1>6. There(Len(q)) = {s \in ToSet(q) : HasPath(s)}
  BY <1>2 DEF ToSet
<1> HIDE DEF There
<1>7. Cut(r[Len(q)], There(Len(q)))
  BY <1>2, <1>5 DEF Good
<1>8. Len(q) \in 0 .. Len(q)
  BY <1>2
<1> QED
  BY <1>1, <1>6, <1>7, <1>8

-----------------------------------------------------------------------------
\* Joining the runs.

\* One sequence after the other, all of it being later.
LEMMA OrderedConcat ==
  ASSUME NEW a \in Seq(Segments), NEW b \in Seq(Segments), InOrder(a), InOrder(b),
         \A i \in DOMAIN a, j \in DOMAIN b : a[i] < b[j]
  PROVE  /\ a \o b \in Seq(Segments) /\ InOrder(a \o b)
         /\ ToSet(a \o b) = ToSet(a) \cup ToSet(b)
<1> DEFINE c == a \o b
           m == Len(a)
           n == Len(b)
<1>1. /\ m \in Nat /\ n \in Nat /\ DOMAIN a = 1 .. m /\ DOMAIN b = 1 .. n
      /\ c \in Seq(Segments) /\ Len(c) = m + n /\ DOMAIN c = 1 .. m + n
  OBVIOUS
<1>2. \A i \in 1 .. m : i \in 1 .. m + n /\ c[i] = a[i]
  BY <1>1
<1>3. \A j \in 1 .. n : j + m \in 1 .. m + n /\ c[j + m] = b[j]
  BY <1>1
<1>4. \A i \in 1 .. m + n : i \in 1 .. m \/ (i - m \in 1 .. n /\ c[i] = b[i - m])
  BY <1>1
<1> HIDE DEF c, m, n
<1>5. InOrder(c)
  <2> SUFFICES ASSUME NEW i \in 1 .. m + n, NEW j \in 1 .. m + n, i < j
      PROVE  c[i] < c[j]
    BY <1>1 DEF InOrder
  <2>1. CASE i \in 1 .. m /\ j \in 1 .. m
    BY <1>1, <1>2, <2>1 DEF InOrder
  <2>2. CASE i \in 1 .. m /\ j \notin 1 .. m
    BY <1>1, <1>2, <1>4, <2>2
  <2>3. CASE i \notin 1 .. m
    <3>1. i - m \in 1 .. n /\ j - m \in 1 .. n /\ i - m < j - m
      BY <1>1, <1>4, <2>3
    <3>2. c[i] = b[i - m] /\ c[j] = b[j - m]
      BY <1>1, <1>4, <2>3
    <3> QED
      BY <1>1, <3>1, <3>2 DEF InOrder
  <2> QED
    BY <2>1, <2>2, <2>3
<1>6. ToSet(c) = ToSet(a) \cup ToSet(b)
  <2>1. \A x \in ToSet(c) : x \in ToSet(a) \cup ToSet(b)
    BY <1>1, <1>2, <1>4 DEF ToSet
  <2>2. \A x \in ToSet(a) : x \in ToSet(c)
    BY <1>1, <1>2 DEF ToSet
  <2>3. \A x \in ToSet(b) : x \in ToSet(c)
    BY <1>1, <1>3 DEF ToSet
  <2> QED
    BY <2>1, <2>2, <2>3
<1> QED
  BY <1>1, <1>5, <1>6 DEF c

\* What joins the first runs together.
LEMMA FlattenedPrefixes ==
  ASSUME NEW rs \in Seq(Seq(Segments)), rs # <<>>
  PROVE  \E r \in [0 .. Len(rs) -> Seq(Segments)] :
           /\ r[0] = <<>>
           /\ \A n \in 1 .. Len(rs) : r[n] = r[n - 1] \o rs[n]
           /\ FlattenSeq(rs) = r[Len(rs)]
<1> DEFINE N == Len(rs)
           D == Seq(Segments)
           flatten == CHOOSE f : f = [i \in 1 .. N |->
                        IF i = 1 THEN rs[i] ELSE f[i - 1] \o rs[i]]
           step == [p \in Nat \X D |->
                      IF p[1] \in 1 .. N THEN p[2] \o rs[p[1]] ELSE p[2]]
<1>1. N \in Nat \ {0} /\ \A i \in 1 .. N : rs[i] \in D
  OBVIOUS
<1>2. FlattenSeq(rs) = flatten[N]
  BY <1>1, Zenon DEF FlattenSeq
<1>3. step \in [Nat \X D -> D]
  BY <1>1
<1>4. PICK f \in RecursionResults(N, D, <<>>, step) : TRUE
  <2> DEFINE base == <<>>
  <2>1. base \in D
    OBVIOUS
  <2>2. N \in Nat
    BY <1>1
  <2> HIDE DEF base, N, D, step
  <2>3. RecursionResults(N, D, base, step) # {}
    BY <2>1, <2>2, <1>3, NumberRecursion
  <2> QED
    BY <2>3 DEF base
<1>5. /\ f \in [0 .. N -> D] /\ f[0] = <<>>
      /\ \A n \in 1 .. N : f[n] = step[<<n, f[n - 1]>>]
  BY <1>4 DEF RecursionResults
<1>6. \A n \in 1 .. N : f[n] = f[n - 1] \o rs[n]
  <2> SUFFICES ASSUME NEW n \in 1 .. N
      PROVE  f[n] = f[n - 1] \o rs[n]
    OBVIOUS
  <2>1. n \in Nat /\ n - 1 \in 0 .. N /\ f[n - 1] \in D
    <3> HIDE DEF N, D
    <3>1. n \in Nat /\ n - 1 \in 0 .. N
      BY <1>1
    <3> QED
      BY <1>5, <3>1
  <2>2. step[<<n, f[n - 1]>>] = f[n - 1] \o rs[n]
    BY <2>1
  <2> QED
    BY <1>5, <2>2
<1> HIDE DEF step
<1> DEFINE g == [i \in 1 .. N |-> f[i]]
<1>7. \A i \in 1 .. N : f[i] = IF i = 1 THEN rs[i] ELSE g[i - 1] \o rs[i]
  <2> SUFFICES ASSUME NEW i \in 1 .. N
      PROVE  f[i] = IF i = 1 THEN rs[i] ELSE g[i - 1] \o rs[i]
    OBVIOUS
  <2>1. CASE i = 1
    <3>1. f[1] = <<>> \o rs[1]
      <4>1. 1 - 1 = 0 /\ 1 \in 1 .. N
        BY <2>1
      <4>2. f[1] = f[1 - 1] \o rs[1]
        BY <1>6, <4>1
      <4> QED
        BY <1>5, <4>1, <4>2
    <3>2. rs[1] \in Seq(Segments)
      BY <1>1, <2>1
    <3> QED
      BY <2>1, <3>1, <3>2
  <2>2. CASE i # 1
    <3>1. i - 1 \in 1 .. N
      BY <1>1, <2>2
    <3> QED
      BY <1>6, <2>2, <3>1
  <2> QED
    BY <2>1, <2>2
<1>8. g = [i \in 1 .. N |-> IF i = 1 THEN rs[i] ELSE g[i - 1] \o rs[i]]
  BY <1>7, Zenon
<1>9. flatten = [i \in 1 .. N |-> IF i = 1 THEN rs[i] ELSE flatten[i - 1] \o rs[i]]
  <2> HIDE DEF g
  <2> QED
    BY <1>8, Zenon
<1> HIDE DEF flatten, g
<1> DEFINE r == [n \in 0 .. N |-> IF n = 0 THEN <<>> ELSE flatten[n]]
           Good == {n \in Nat : n <= N => r[n] = f[n]}
<1>10. 0 \in Good
  BY <1>1, <1>5
<1>11. \A n \in Nat : n \in Good => n + 1 \in Good
  <2> SUFFICES ASSUME NEW n \in Nat, n \in Good, n + 1 <= N
      PROVE  r[n + 1] = f[n + 1]
    OBVIOUS
  <2>1. n + 1 \in 1 .. N /\ (n + 1) - 1 = n /\ n \in 0 .. N /\ n + 1 \in 0 .. N /\ n + 1 # 0
    BY <1>1
  <2>2. r[n] = f[n]
    BY <1>1
  <2>3. r[n + 1] = flatten[n + 1]
    BY <2>1
  <2>4. CASE n = 0
    <3>1. flatten[n + 1] = rs[n + 1]
      BY <1>9, <2>1, <2>4
    <3>2. f[n + 1] = <<>> \o rs[n + 1]
      BY <1>5, <1>6, <2>1, <2>4
    <3>3. rs[n + 1] \in Seq(Segments)
      BY <1>1, <2>1
    <3> QED
      BY <2>3, <3>1, <3>2, <3>3
  <2>5. CASE n # 0
    <3>1. r[n] = flatten[n]
      BY <2>1, <2>5
    <3>2. flatten[n + 1] = flatten[n] \o rs[n + 1]
      <4>1. n + 1 # 1
        BY <2>5
      <4> QED
        BY <1>9, <2>1, <4>1
    <3> QED
      BY <1>6, <2>1, <2>2, <2>3, <3>1, <3>2
  <2> QED
    BY <2>4, <2>5
<1> HIDE DEF Good
<1>12. Nat \subseteq Good
  BY <1>10, <1>11, NumberInduction
<1>13. flatten[N] = f[N]
  <2>1. N \in 0 .. N /\ N # 0
    BY <1>1
  <2>2. r[N] = flatten[N]
    BY <2>1
  <2> HIDE DEF r
  <2>3. r[N] = f[N]
    BY <1>1, <1>12 DEF Good
  <2> QED
    BY <2>2, <2>3
<1> QED
  BY <1>2, <1>5, <1>6, <1>13

\* Joined together the runs are in order and what they were cut from.
LEMMA FlattenedCut ==
  ASSUME NEW rs \in Seq(Seq(Segments)), rs # <<>>, NEW P, Cut(rs, P)
  PROVE  /\ FlattenSeq(rs) \in Seq(Segments)
         /\ InOrder(FlattenSeq(rs)) /\ ToSet(FlattenSeq(rs)) = P
<1> DEFINE N == Len(rs)
<1>1. PICK r \in [0 .. N -> Seq(Segments)] :
        /\ r[0] = <<>>
        /\ \A n \in 1 .. N : r[n] = r[n - 1] \o rs[n]
        /\ FlattenSeq(rs) = r[N]
  BY FlattenedPrefixes
<1>2. N \in Nat /\ DOMAIN rs = 1 .. N /\ \A i \in 1 .. N : rs[i] \in Seq(Segments)
  OBVIOUS
<1> HIDE DEF N
<1> DEFINE Upto(n) == UNION {ToSet(rs[i]) : i \in 1 .. n}
           Fit(n) == InOrder(r[n]) /\ ToSet(r[n]) = Upto(n)
           Good == {n \in Nat : n <= N => Fit(n)}
<1>3. 0 \in Good
  <2>1. Upto(0) = {}
    OBVIOUS
  <2>2. InOrder(<<>>) /\ ToSet(<<>>) = {}
    BY DEF InOrder, ToSet
  <2> QED
    BY <1>1, <2>1, <2>2
<1>4. \A n \in Nat : n \in Good => n + 1 \in Good
  <2> HIDE DEF Fit
  <2> SUFFICES ASSUME NEW n \in Nat, n \in Good, n + 1 <= N
      PROVE  Fit(n + 1)
    OBVIOUS
  <2>1. n + 1 \in 1 .. N /\ (n + 1) - 1 = n /\ n \in 0 .. N /\ n <= N
    BY <1>2
  <2>2. InOrder(r[n]) /\ ToSet(r[n]) = Upto(n) /\ r[n] \in Seq(Segments)
    <3>1. Fit(n)
      BY <2>1
    <3> QED
      BY <1>1, <2>1, <3>1 DEF Fit
  <2>3. r[n + 1] = r[n] \o rs[n + 1] /\ rs[n + 1] \in Seq(Segments)
    BY <1>1, <1>2, <2>1
  <2>4. InOrder(rs[n + 1])
    BY <1>2, <2>1 DEF Cut, Continuous
  <2>5. \A k \in DOMAIN r[n], l \in DOMAIN rs[n + 1] : r[n][k] < rs[n + 1][l]
    <3> SUFFICES ASSUME NEW k \in DOMAIN r[n], NEW l \in DOMAIN rs[n + 1]
        PROVE  r[n][k] < rs[n + 1][l]
      OBVIOUS
    <3>1. r[n][k] \in Upto(n)
      <4>1. r[n][k] \in ToSet(r[n])
        BY DEF ToSet
      <4> QED
        BY <2>2, <4>1
    <3>2. PICK i \in 1 .. n : r[n][k] \in ToSet(rs[i])
      BY <3>1
    <3>3. PICK m \in DOMAIN rs[i] : rs[i][m] = r[n][k]
      BY <3>2 DEF ToSet
    <3>4. i \in DOMAIN rs /\ n + 1 \in DOMAIN rs /\ i < n + 1
      BY <1>2, <2>1
    <3>5. rs[i][m] < rs[n + 1][l]
      BY <3>4 DEF Cut
    <3> QED
      BY <3>3, <3>5
  <2>6. InOrder(r[n + 1]) /\ ToSet(r[n + 1]) = ToSet(r[n]) \cup ToSet(rs[n + 1])
    BY <2>2, <2>3, <2>4, <2>5, OrderedConcat
  <2>7. Upto(n + 1) = Upto(n) \cup ToSet(rs[n + 1])
    <3>1. 1 .. n + 1 = (1 .. n) \cup {n + 1}
      OBVIOUS
    <3> QED
      BY <3>1
  <2> QED
    BY <2>2, <2>6, <2>7 DEF Fit
<1> HIDE DEF Good
<1>5. Nat \subseteq Good
  BY <1>3, <1>4, NumberInduction
<1>6. Upto(N) = P
  <2>1. ASSUME NEW x \in Upto(N)
        PROVE  x \in P
    <3>1. PICK i \in 1 .. N : x \in ToSet(rs[i])
      OBVIOUS
    <3>2. PICK k \in DOMAIN rs[i] : x = rs[i][k]
      BY <3>1 DEF ToSet
    <3> QED
      BY <1>2, <3>2 DEF Cut
  <2>2. \A x \in P : x \in Upto(N)
    BY <1>2 DEF Cut, ToSet
  <2> QED
    BY <2>1, <2>2
<1> HIDE DEF Upto
<1>7. InOrder(r[N]) /\ ToSet(r[N]) = Upto(N) /\ N \in 0 .. N
  BY <1>2, <1>5 DEF Good
<1> QED
  BY <1>1, <1>6, <1>7

-----------------------------------------------------------------------------
\* What the playlists list.

\* The greater of two numbers.
LEMMA MaxOfTwo ==
  ASSUME NEW a \in Nat, NEW b \in Nat
  PROVE  Max({a, b}) \in Nat /\ Max({a, b}) >= a /\ Max({a, b}) >= b
<1>1. \E x \in {a, b} : \A y \in {a, b} : x >= y
  OBVIOUS
<1>2. Max({a, b}) \in {a, b} /\ \A y \in {a, b} : Max({a, b}) >= y
  BY <1>1, Zenon DEF Max
<1> QED
  BY <1>2

\* Segments are numbers.
LEMMA StreamNumbers ==
  ASSUME TypeOK
  PROVE  /\ first \in Nat /\ first > 0 /\ last \in Nat /\ last <= LastSegment
         /\ LastSegment \in Nat /\ PlaylistLength \in Nat /\ PlaylistLength > 0
<1>1. first \in Segments /\ last \in Segments
  BY DEF TypeOK
<1> QED
  BY <1>1, HlsAssumption DEF Segments

\* What is listed from a segment on is in order.
LEMMA FromInOrder ==
  ASSUME TypeOK, NEW n \in Nat, n > 0
  PROVE  /\ From(n) \in Seq(Segments) /\ InOrder(From(n))
         /\ n <= last => Len(From(n)) = last - n + 1
         /\ \A i \in DOMAIN From(n) : From(n)[i] = n + i - 1
<1> DEFINE q == From(n)
<1>1. last \in Nat /\ last <= LastSegment /\ LastSegment \in Nat
  BY StreamNumbers
<1>2. PICK m \in Nat : 1 .. last - n + 1 = 1 .. m /\ (n <= last => m = last - n + 1)
                       /\ (m # 0 => m = last - n + 1)
  <2>1. CASE n <= last
    BY <1>1, <2>1
  <2>2. CASE ~(n <= last)
    <3>1. 1 .. last - n + 1 = 1 .. 0
      BY <1>1, <2>2
    <3> QED
      BY <2>2, <3>1
  <2> QED
    BY <2>1, <2>2
<1>3. q = [i \in 1 .. m |-> n + i - 1]
  BY <1>2 DEF From
<1>4. \A i \in 1 .. m : n + i - 1 \in Segments
  BY <1>1, <1>2 DEF Segments
<1>5. q \in Seq(Segments) /\ Len(q) = m /\ DOMAIN q = 1 .. m
  BY <1>3, <1>4
<1>6. \A i \in 1 .. m : q[i] = n + i - 1
  BY <1>3
<1> HIDE DEF q
<1>7. InOrder(q)
  BY <1>5, <1>6 DEF InOrder
<1> QED
  BY <1>2, <1>5, <1>6, <1>7 DEF q

\* The playlist lists as many segments as it always does.
LEMMA ListedInOrder ==
  ASSUME TypeOK, StreamOK
  PROVE  Listed \in Seq(Segments) /\ InOrder(Listed) /\ Len(Listed) = PlaylistLength
<1>1. first \in Nat /\ first > 0 /\ PlaylistLength \in Nat /\ PlaylistLength > 0
  BY StreamNumbers
<1>2. first <= last /\ last - first + 1 = PlaylistLength
  BY <1>1 DEF StreamOK
<1> QED
  BY <1>1, <1>2, FromInOrder DEF Listed

\* The window is a part of them, and not empty.
LEMMA WindowInOrder ==
  ASSUME TypeOK, StreamOK
  PROVE  /\ SelectWindow(Listed) \in Seq(Segments) /\ InOrder(SelectWindow(Listed))
         /\ SelectWindow(Listed) # <<>>
<1> DEFINE q == Listed
           n == Len(q)
<1>1. q \in Seq(Segments) /\ InOrder(q) /\ n \in Nat /\ n > 0 /\ Wanted \in Nat
  BY ListedInOrder, HlsAssumption
<1>2. CASE Wanted = 0 \/ Wanted >= n
  <2>1. q # <<>>
    BY <1>1
  <2> QED
    BY <1>1, <1>2, <2>1 DEF SelectWindow
<1>3. CASE ~(Wanted = 0 \/ Wanted >= n)
  <2> DEFINE m == n - Wanted + 1
             w == SubSeq(q, m, n)
  <2>1. m \in Nat /\ m > 0 /\ m <= n
    BY <1>1, <1>3
  <2> HIDE DEF m, q
  <2>2. /\ w \in Seq(Segments) /\ Len(w) = n - m + 1
        /\ \A i \in 1 .. n - m + 1 : w[i] = q[m + i - 1]
    BY <1>1, <2>1, SubSeqProperties
  <2>3. DOMAIN w = 1 .. n - m + 1 /\ DOMAIN q = 1 .. n /\ w # <<>>
    BY <1>1, <2>1, <2>2
  <2> HIDE DEF w, n
  <2>4. InOrder(w)
    <3> SUFFICES ASSUME NEW i \in 1 .. n - m + 1, NEW j \in 1 .. n - m + 1, i < j
        PROVE  w[i] < w[j]
      BY <2>3 DEF InOrder
    <3>1. m + i - 1 \in 1 .. n /\ m + j - 1 \in 1 .. n /\ m + i - 1 < m + j - 1
      BY <1>1, <2>1
    <3> QED
      BY <1>1, <2>2, <2>3, <3>1 DEF InOrder
  <2>5. SelectWindow(q) = w
    BY <1>3 DEF SelectWindow, w, m, n
  <2> QED
    BY <2>2, <2>3, <2>4, <2>5 DEF q
<1> QED
  BY <1>2, <1>3

\* The refreshed playlist continues the selection.
LEMMA LaterInOrder ==
  ASSUME TypeOK, selected # <<>>, InOrder(selected)
  PROVE  /\ Later \in Seq(Segments)
         /\ selected \o Later \in Seq(Segments) /\ InOrder(selected \o Later)
<1> DEFINE n == Len(selected)
           m == Max({first, selected[n] + 1})
<1>1. /\ selected \in Seq(Segments) /\ n \in Nat /\ n > 0
      /\ DOMAIN selected = 1 .. n /\ n \in DOMAIN selected
      /\ \A i \in DOMAIN selected : selected[i] \in Segments
  <2>1. selected \in Seq(Segments)
    BY DEF TypeOK
  <2> QED
    BY <2>1
<1>2. first \in Nat /\ selected[n] \in Nat /\ \A i \in DOMAIN selected : selected[i] \in Nat
  <2>1. \A i \in DOMAIN selected : selected[i] \in Nat
    BY <1>1 DEF Segments
  <2> QED
    BY <1>1, <2>1, StreamNumbers
<1>3. m \in Nat /\ m >= selected[n] + 1 /\ m > 0
  BY <1>2, MaxOfTwo
<1>4. Later = From(m)
  BY DEF Later
<1> HIDE DEF m, n
<1>5. /\ Later \in Seq(Segments) /\ InOrder(Later)
      /\ \A i \in DOMAIN Later : Later[i] = m + i - 1
  BY <1>3, <1>4, FromInOrder
<1>6. \A i \in DOMAIN selected : selected[i] <= selected[n]
  BY <1>1, <1>2 DEF InOrder
<1>7. \A i \in DOMAIN Later : i \in Nat /\ i > 0
  BY <1>5
<1>8. \A i \in DOMAIN selected, j \in DOMAIN Later : selected[i] < Later[j]
  BY <1>2, <1>1, <1>3, <1>5, <1>6, <1>7
<1> QED
  BY <1>1, <1>5, <1>8, OrderedConcat

-----------------------------------------------------------------------------
\* The steps.

\* What a submission does to the jobs.
LEMMA Submitted ==
  ASSUME TypeOK, NEW t \in Tracks, NEW batch, Submit(t, batch)
  PROVE  /\ job' \in [Tracks -> [Segments ->
                   {"none", "queued", "running", "ok", "gone", "failed", "dropped"}]]
         /\ \A x \in Tracks, s \in Segments :
              \/ job'[x][s] = job[x][s]
              \/ x = t /\ s \notin seen[t] /\ job'[x][s] = "queued"
<1> DEFINE States == {"none", "queued", "running", "ok", "gone", "failed", "dropped"}
           new == [s \in Segments |->
                     IF s \in ToSet(batch) \ seen[t] THEN "queued" ELSE job[t][s]]
<1>1. job \in [Tracks -> [Segments -> States]]
  BY DEF TypeOK
<1>2. new \in [Segments -> States]
  BY <1>1
<1>3. job' = [job EXCEPT ![t] = new]
  BY DEF Submit
<1>4. \A s \in Segments : new[s] = job[t][s] \/ (s \notin seen[t] /\ new[s] = "queued")
  OBVIOUS
<1> HIDE DEF new
<1>5. \A x \in Tracks : job'[x] = IF x = t THEN new ELSE job[x]
  BY <1>1, <1>3
<1>6. job' \in [Tracks -> [Segments -> States]]
  BY <1>1, <1>2, <1>3
<1> QED
  BY <1>4, <1>5, <1>6

\* What the end of a future, or its start, does to them.
LEMMA Ended ==
  ASSUME TypeOK, NEW t \in Tracks, NEW s \in Segments,
         NEW how \in {"running", "ok", "gone", "failed"}, Ends(t, s, how)
  PROVE  /\ job' \in [Tracks -> [Segments ->
                   {"none", "queued", "running", "ok", "gone", "failed", "dropped"}]]
         /\ job'[t][s] = how
         /\ \A x \in Tracks, y \in Segments :
              x # t \/ y # s => job'[x][y] = job[x][y]
<1> DEFINE States == {"none", "queued", "running", "ok", "gone", "failed", "dropped"}
           new == [job[t] EXCEPT ![s] = how]
<1>1. job \in [Tracks -> [Segments -> States]]
  BY DEF TypeOK
<1>2. new \in [Segments -> States] /\ new[s] = how
      /\ \A y \in Segments : y # s => new[y] = job[t][y]
  BY <1>1
<1>3. job' = [job EXCEPT ![t] = new]
  BY DEF Ends
<1> HIDE DEF new
<1>5. \A x \in Tracks : job'[x] = IF x = t THEN new ELSE job[x]
  BY <1>1, <1>3
<1>6. job' \in [Tracks -> [Segments -> States]]
  BY <1>1, <1>2, <1>3
<1> QED
  BY <1>2, <1>5, <1>6

\* What the main thread is about to do while it fetches a track of a finite
\* playlist, and next.
Here(t) == IF t = "video" THEN "file" ELSE "file audio"
Then(t) == IF t = "video" THEN {"file audio", "remux"} ELSE {"remux"}

\* A segment of a finite playlist is left to be fetched, and it is the next one.
LEMMA NextSegment ==
  ASSUME Inv, NEW t \in Tracks, pc = Here(t)
  PROVE  \E n \in Nat :
           /\ seen[t] = 1 .. n /\ Cardinality(seen[t]) = n /\ n < PlaylistLength
           /\ Len(selected) = PlaylistLength
           /\ selected[n + 1] = n + 1 /\ n + 1 \in Segments
<1>1. finite /\ selected = From(1) /\ PlaylistLength \notin seen[t]
  BY DEF Inv, KindOK, FileOK, Here, Tracks
<1>2. PICK n \in Nat : seen[t] = 1 .. n
  BY <1>1 DEF Inv, FileOK
<1>3. Cardinality(seen[t]) = n
  BY <1>2, FS_Interval
<1>4. PlaylistLength \in Nat /\ PlaylistLength > 0
  BY HlsAssumption
<1>5. n < PlaylistLength /\ n + 1 \in 1 .. PlaylistLength
  BY <1>1, <1>2, <1>4
<1>6. selected = Listed /\ Listed \in Seq(Segments) /\ Len(Listed) = PlaylistLength
  BY <1>1, ListedInOrder DEF Inv, StreamOK, Listed
<1>7. DOMAIN selected = 1 .. PlaylistLength
  <2>1. DOMAIN Listed = 1 .. Len(Listed)
    BY <1>6
  <2> QED
    BY <1>6, <2>1
<1>8. \A i \in DOMAIN From(1) : From(1)[i] = 1 + i - 1
  BY FromInOrder DEF Inv
<1>9. selected[n + 1] = n + 1 /\ selected[n + 1] \in Segments
  BY <1>1, <1>5, <1>6, <1>7, <1>8
<1> QED
  BY <1>2, <1>3, <1>5, <1>6, <1>9

\* It is fetched, or the download fails.
LEMMA MaterializeNextKeeps ==
  ASSUME Inv, NEW t \in Tracks, NEW next \in Then(t),
         MaterializeNext(t, Here(t), next)
  PROVE  Inv'
<1> USE DEF Inv, stream, disk
<1>1. pc = Here(t) /\ UNCHANGED <<finite, hasAudio, first, last, hops, selected,
        job, cancelled, runs, remuxed, work, output>>
  BY DEF MaterializeNext
<1>2. finite
  BY <1>1 DEF KindOK, Here
<1>3. PICK n \in Nat :
        /\ seen[t] = 1 .. n /\ Cardinality(seen[t]) = n /\ n < PlaylistLength
        /\ Len(selected) = PlaylistLength
        /\ selected[n + 1] = n + 1 /\ n + 1 \in Segments
  BY <1>1, NextSegment
<1>4. counter \in Nat /\ MaxSize \in Nat /\ PlaylistLength \in Nat
  <2>1. counter \in Nat
    BY DEF TypeOK
  <2> QED
    BY <2>1, HlsAssumption, StreamNumbers
<1>5. seen \in [Tracks -> SUBSET Segments]
  BY DEF TypeOK
<1>6. \/ /\ counter' = counter + 1 /\ counter' <= MaxSize
         /\ seen' = [seen EXCEPT ![t] = 1 .. n + 1]
         /\ pc' = IF n + 1 = PlaylistLength THEN next ELSE Here(t)
      \/ pc' = "unwind" /\ seen' = seen /\ counter' \in {counter, counter + 1}
  <2>1. CASE Counts /\ Fits
             /\ seen' = [seen EXCEPT ![t] = @ \cup {selected[Cardinality(@) + 1]}]
             /\ pc' = IF Cardinality(seen'[t]) = Len(selected) THEN next ELSE Here(t)
    <3>1. (1 .. n) \cup {n + 1} = 1 .. n + 1 /\ Cardinality(1 .. n + 1) = n + 1
      <4>1. Cardinality(1 .. n + 1) = n + 1
        BY FS_Interval
      <4> QED
        BY <4>1
    <3>2. seen' = [seen EXCEPT ![t] = 1 .. n + 1]
      BY <1>3, <2>1, <3>1
    <3>3. Cardinality(seen'[t]) = n + 1
      BY <1>1, <1>5, <3>1, <3>2
    <3> QED
      BY <1>3, <2>1, <3>2, <3>3 DEF Counts, Fits
  <2>2. CASE Raises /\ UNCHANGED seen
    BY <2>2 DEF Raises
  <2> QED
    BY <2>1, <2>2 DEF MaterializeNext
<1>7. pc' \in {"file", "file audio", "remux", "unwind"} /\ counter' \in Nat
  <2>1. pc' \in {"file", "file audio", "remux", "unwind"}
    BY <1>6 DEF Here, Then
  <2>2. counter' \in {counter, counter + 1}
    BY <1>6
  <2>3. counter \in Nat
    BY <1>4
  <2>4. counter' \in Nat
    BY <2>2, <2>3
  <2> QED
    BY <2>1, <2>4
<1>8. seen' \in [Tracks -> SUBSET Segments]
  <2>1. 1 .. n + 1 \in SUBSET Segments
    BY <1>3, HlsAssumption DEF Segments
  <2> QED
    BY <1>1, <1>5, <1>6, <2>1
<1>9. TypeOK'
  BY <1>1, <1>7, <1>8 DEF TypeOK
<1>10. StreamOK' /\ KindOK' /\ SelectionOK'
  BY <1>1, <1>2, <1>7 DEF StreamOK, KindOK, SelectionOK, Batches
<1>11. FileOK'
  <2>0. n + 1 # PlaylistLength => PlaylistLength \notin 1 .. n + 1
    BY <1>3, <1>4
  <2>1. \A x \in Tracks : \E m \in Nat : seen'[x] = 1 .. m
    <3> SUFFICES ASSUME NEW x \in Tracks
        PROVE  \E m \in Nat : seen'[x] = 1 .. m
      OBVIOUS
    <3>1. PICK m \in Nat : seen[x] = 1 .. m
      BY <1>2 DEF FileOK
    <3>2. seen'[x] = seen[x] \/ seen'[x] = 1 .. n + 1
      BY <1>1, <1>5, <1>6
    <3> QED
      BY <3>1, <3>2
  <2>2. pc' = "file" => /\ PlaylistLength \notin seen'["video"] /\ seen'["audio"] = {}
                        /\ selected = From(1)
    <3> SUFFICES ASSUME pc' = "file"
        PROVE  /\ PlaylistLength \notin seen'["video"] /\ seen'["audio"] = {}
               /\ selected = From(1)
      OBVIOUS
    <3>1. t = "video" /\ n + 1 # PlaylistLength
          /\ seen' = [seen EXCEPT !["video"] = 1 .. n + 1]
      BY <1>6 DEF Here, Then, Tracks
    <3>2. PlaylistLength \notin 1 .. n + 1
      BY <2>0, <3>1
    <3>3. seen'["video"] = 1 .. n + 1 /\ seen'["audio"] = seen["audio"]
      BY <1>5, <3>1 DEF Tracks
    <3> QED
      BY <1>1, <1>2, <3>1, <3>2, <3>3 DEF FileOK, Here
  <2>3. pc' = "file audio" => PlaylistLength \notin seen'["audio"] /\ selected = From(1)
    <3> SUFFICES ASSUME pc' = "file audio"
        PROVE  PlaylistLength \notin seen'["audio"] /\ selected = From(1)
      OBVIOUS
    <3> t = "video" \/ t = "audio"
      BY DEF Tracks
    <3>1. CASE t = "video"
      <4>1. seen'["audio"] = seen["audio"]
        BY <1>5, <1>6, <3>1 DEF Tracks
      <4> QED
        BY <1>1, <1>2, <3>1, <4>1 DEF FileOK, Here
    <3>2. CASE t = "audio"
      <4>1. n + 1 # PlaylistLength /\ seen'["audio"] = 1 .. n + 1
        BY <1>5, <1>6, <3>2 DEF Here, Then, Tracks
      <4>2. PlaylistLength \notin 1 .. n + 1
        BY <2>0, <4>1
      <4> QED
        BY <1>1, <1>2, <3>2, <4>1, <4>2 DEF FileOK, Here
    <3> QED
      BY <3>1, <3>2
  <2>4. From(1)' = From(1)
    BY <1>1 DEF From
  <2> QED
    BY <1>1, <1>2, <1>7, <2>1, <2>2, <2>3, <2>4 DEF FileOK
<1>12. PoolOK' /\ RunsOK' /\ OutputOK'
  <2>1. \A x \in Tracks, s \in Segments : job[x][s] = "none"
    BY <1>2 DEF FileOK
  <2>2. PoolOK'
    BY <1>1, <1>2, <2>1 DEF PoolOK
  <2>3. RunsOK' /\ OutputOK'
    BY <1>1, <1>2, <1>7 DEF RunsOK, OutputOK, Batches
  <2> QED
    BY <2>2, <2>3
<1>13. CapOK'
  BY <1>6 DEF CapOK
<1> QED
  BY <1>9, <1>10, <1>11, <1>12, <1>13

\* Another master leads on.
LEMMA FollowMasterKeeps ==
  ASSUME Inv, FollowMaster
  PROVE  Inv'
<1> USE DEF Inv, FollowMaster, Fetches, Raises, Counts, Fits, stream, pool, disk
<1>1. Gaps' = Gaps /\ selected' = selected
  BY DEF Gaps, HasPath
<1>2. TypeOK'
  <2>1. pc' \in Batches \cup {"resolve", "file", "file audio", "init", "audio", "refresh",
               "drain", "keys", "remux", "concat", "probe", "rename", "tidy",
               "unwind", "done", "failed"}
    BY DEF TypeOK, Batches
  <2>2. hops' \in 0 .. MaxDepth + 1
    <3>1. hops \in Nat /\ hops <= MaxDepth /\ MaxDepth \in Nat
      BY HlsAssumption DEF TypeOK, KindOK
    <3> QED
      BY <3>1
  <2>3. counter' \in Nat
    BY DEF TypeOK, Batches
  <2> QED
    BY <2>1, <2>2, <2>3 DEF TypeOK
<1>3. StreamOK'
  BY DEF StreamOK
<1>4. KindOK'
  <2>1. hops \in Nat /\ MaxDepth \in Nat
    BY HlsAssumption DEF TypeOK
  <2>2. pc' \in {"resolve", "unwind"} /\ (pc' = "resolve" => hops < MaxDepth /\ hops' = hops + 1)
    OBVIOUS
  <2>3. pc' = "resolve" => hops' <= MaxDepth
    BY <2>1, <2>2
  <2> QED
    BY <2>2, <2>3 DEF KindOK, Batches
<1>5. FileOK'
  BY DEF FileOK
<1>6. PoolOK'
  BY DEF PoolOK, Awaited, TrackOf, Batches
<1>7. CapOK'
  BY DEF CapOK, TrackOf, Batches
<1>8. SelectionOK'
  BY DEF SelectionOK
<1>9. RunsOK'
  BY <1>1 DEF RunsOK, Batches
<1>10. OutputOK'
  BY <1>1 DEF OutputOK
<1> QED
  BY <1>2, <1>3, <1>4, <1>5, <1>6, <1>7, <1>8, <1>9, <1>10

\* A finite playlist is found.
LEMMA ResolveFileKeeps ==
  ASSUME Inv, ResolveFile
  PROVE  Inv'
<1> USE DEF Inv, ResolveFile, Fetches, Raises, Counts, Fits, stream, pool, disk
<1>1. TypeOK'
  <2>1. pc' \in Batches \cup {"resolve", "file", "file audio", "init", "audio", "refresh",
               "drain", "keys", "remux", "concat", "probe", "rename", "tidy",
               "unwind", "done", "failed"}
    BY DEF TypeOK, Batches
  <2>2. hops' \in 0 .. MaxDepth + 1
    <3>1. hops \in Nat /\ hops <= MaxDepth /\ MaxDepth \in Nat
      BY HlsAssumption DEF TypeOK, KindOK
    <3> QED
      BY <3>1
  <2>3. counter' \in Nat
    BY DEF TypeOK, Batches
  <2>4. selected' \in Seq(Segments)
    BY ListedInOrder
  <2>5. work' \in BOOLEAN
    BY DEF TypeOK, Batches
  <2> QED
    BY <2>1, <2>2, <2>3, <2>4, <2>5 DEF TypeOK
<1>2. StreamOK'
  BY DEF StreamOK
<1>3. KindOK'
  BY DEF KindOK, Batches
<1>4. FileOK'
  <2>1. Listed = From(1) /\ PlaylistLength # 0
    BY HlsAssumption DEF Listed, StreamOK
  <2>2. From(1)' = From(1)
    BY DEF From
  <2>3. \A t \in Tracks : seen[t] = {}
    BY DEF FileOK
  <2> QED
    BY <2>1, <2>2, <2>3 DEF FileOK, Tracks
<1>5. PoolOK'
  BY DEF PoolOK, Awaited, TrackOf, Batches
<1>6. CapOK'
  BY DEF CapOK, TrackOf, Batches
<1>7. SelectionOK'
  <2>1. InOrder(Listed) /\ InOrder(<<>>)
    BY ListedInOrder DEF InOrder
  <2> QED
    BY <2>1 DEF SelectionOK
<1>8. RunsOK'
  BY DEF RunsOK, Batches
<1>9. OutputOK'
  BY DEF OutputOK
<1> QED
  BY <1>1, <1>2, <1>3, <1>4, <1>5, <1>6, <1>7, <1>8, <1>9

\* A live playlist is found.
LEMMA ResolveWindowKeeps ==
  ASSUME Inv, ResolveWindow
  PROVE  Inv'
<1> USE DEF Inv, ResolveWindow, Fetches, Raises, Counts, Fits, stream, pool, disk
<1>1. TypeOK'
  <2>1. pc' \in Batches \cup {"resolve", "file", "file audio", "init", "audio", "refresh",
               "drain", "keys", "remux", "concat", "probe", "rename", "tidy",
               "unwind", "done", "failed"}
    BY DEF TypeOK, Batches
  <2>2. hops' \in 0 .. MaxDepth + 1
    <3>1. hops \in Nat /\ hops <= MaxDepth /\ MaxDepth \in Nat
      BY HlsAssumption DEF TypeOK, KindOK
    <3> QED
      BY <3>1
  <2>3. counter' \in Nat
    BY DEF TypeOK, Batches
  <2>4. selected' \in Seq(Segments)
    BY WindowInOrder DEF TypeOK
  <2>5. work' \in BOOLEAN
    BY DEF TypeOK
  <2> QED
    BY <2>1, <2>2, <2>3, <2>4, <2>5 DEF TypeOK
<1>2. StreamOK'
  BY DEF StreamOK
<1>3. KindOK'
  BY DEF KindOK, Batches
<1>4. FileOK'
  BY DEF FileOK
<1>5. PoolOK'
  BY DEF PoolOK, Awaited, TrackOf, Batches
<1>6. CapOK'
  <2>1. counter' = 0 \/ pc' = "unwind"
    OBVIOUS
  <2>2. 0 <= MaxSize
    BY HlsAssumption
  <2>3. counter' <= MaxSize \/ pc' = "unwind"
    BY <2>1, <2>2
  <2> QED
    BY <2>3 DEF CapOK
<1>7. SelectionOK'
  BY WindowInOrder DEF SelectionOK
<1>8. RunsOK'
  BY DEF RunsOK, Batches
<1>9. OutputOK'
  BY DEF OutputOK
<1> QED
  BY <1>1, <1>2, <1>3, <1>4, <1>5, <1>6, <1>7, <1>8, <1>9

\* ffmpeg makes the output of a finite playlist.
LEMMA RemuxFileKeeps ==
  ASSUME Inv, RemuxFile
  PROVE  Inv'
<1> USE DEF Inv, RemuxFile, FfmpegFails, stream, pool, disk
<1>1. Gaps' = Gaps /\ selected' = selected
  BY DEF Gaps, HasPath
<1>2. TypeOK'
  <2>1. pc' \in Batches \cup {"resolve", "file", "file audio", "init", "audio", "refresh",
               "drain", "keys", "remux", "concat", "probe", "rename", "tidy",
               "unwind", "done", "failed"}
    BY DEF TypeOK, Batches
  <2>2. output' \in [name : {"none", "part", "final"}, segments : Seq(Segments)]
    <3>1. selected \in Seq(Segments) /\ <<>> \in Seq(Segments)
      BY DEF TypeOK
    <3>2. output' = output \/ output' = [name |-> "part", segments |-> selected]
          \/ output' = [name |-> "part", segments |-> <<>>]
      OBVIOUS
    <3>4. /\ [name |-> "part", segments |-> selected]
                \in [name : {"none", "part", "final"}, segments : Seq(Segments)]
          /\ [name |-> "part", segments |-> <<>>]
                \in [name : {"none", "part", "final"}, segments : Seq(Segments)]
      BY <3>1
    <3>3. output \in [name : {"none", "part", "final"}, segments : Seq(Segments)]
      BY DEF TypeOK
    <3> HIDE DEF RemuxFile, Inv
    <3> QED
      BY <3>4, <3>2, <3>3
  <2> QED
    BY <2>1, <2>2 DEF TypeOK
<1>3. StreamOK'
  BY DEF StreamOK
<1>4. KindOK'
  BY DEF KindOK, Batches
<1>5. FileOK'
  BY DEF FileOK
<1>6. PoolOK'
  BY DEF PoolOK, Awaited, TrackOf, Batches
<1>7. CapOK'
  BY DEF CapOK, TrackOf, Batches
<1>8. SelectionOK'
  BY DEF SelectionOK
<1>9. RunsOK'
  BY <1>1 DEF RunsOK, Batches
<1>10. OutputOK'
  BY <1>1 DEF OutputOK
<1> QED
  BY <1>2, <1>3, <1>4, <1>5, <1>6, <1>7, <1>8, <1>9, <1>10

\* The window is submitted to the pool.
LEMMA FetchInitKeeps ==
  ASSUME Inv, FetchInit
  PROVE  Inv'
<1> USE DEF Inv, FetchInit, FetchesIfAny, Fetches, Raises, Counts, Fits, stream, pool,
            disk
<1>1. TypeOK'
  <2>1. pc' \in Batches \cup {"resolve", "file", "file audio", "init", "audio", "refresh",
               "drain", "keys", "remux", "concat", "probe", "rename", "tidy",
               "unwind", "done", "failed"}
    BY DEF TypeOK, Batches
  <2>2. counter' \in Nat
    BY DEF TypeOK
  <2>3. job' \in [Tracks -> [Segments ->
               {"none", "queued", "running", "ok", "gone", "failed", "dropped"}]]
    <3>1. job' = job \/ Submit("video", selected)
      OBVIOUS
    <3> QED
      BY <3>1, Submitted DEF TypeOK, Tracks
  <2> QED
    BY <2>1, <2>2, <2>3 DEF TypeOK
<1>2. StreamOK'
  BY DEF StreamOK
<1>3. KindOK'
  BY DEF KindOK, Batches
<1>4. FileOK'
  <2>1. ~finite
    BY DEF KindOK, Batches
  <2> QED
    BY <2>1 DEF FileOK
<1>5. PoolOK'
  <2>1. CASE pc' = "batch"
    <3>1. Submit("video", selected) /\ "video" \in Tracks
      BY <2>1 DEF Tracks
    <3>2. \A x \in Tracks, s \in Segments :
            \/ job'[x][s] = job[x][s]
            \/ x = "video" /\ s \notin seen[x] /\ job'[x][s] = "queued"
      BY <3>1, Submitted
    <3>3. /\ pc \notin Batches \cup {"drain", "unwind", "failed"}
          /\ finite' = finite /\ seen' = seen /\ PoolOK
      BY DEF Batches
    <3>4. pc' \in Batches /\ TrackOf(pc') = "video"
      BY <2>1 DEF Batches, TrackOf
    <3> HIDE DEF FetchInit, Inv
    <3>5. \A x \in Tracks, s \in Segments :
            /\ job'[x][s] = "queued" => x = "video"
            /\ job'[x][s] \notin {"running", "failed", "dropped"}
      BY <3>2, <3>3 DEF PoolOK, Awaited
    <3>6. ~finite' => \A x \in Tracks, s \in Segments :
            s \in seen'[x] => job'[x][s] \in {"ok", "gone"}
      BY <3>2, <3>3 DEF PoolOK
    <3> QED
      BY <3>4, <3>5, <3>6 DEF PoolOK, Awaited
  <2>2. CASE pc' # "batch"
    BY <2>2 DEF PoolOK, Awaited, TrackOf, Batches
  <2> QED
    BY <2>1, <2>2
<1>6. CapOK'
  BY DEF CapOK, TrackOf, Batches
<1>7. SelectionOK'
  BY DEF SelectionOK
<1>8. RunsOK'
  BY DEF RunsOK, Batches
<1>9. OutputOK'
  BY DEF OutputOK
<1> QED
  BY <1>1, <1>2, <1>3, <1>4, <1>5, <1>6, <1>7, <1>8, <1>9

\* A result is noted.
LEMMA CollectKeeps ==
  ASSUME Inv, Collect
  PROVE  Inv'
<1> USE DEF Inv, Collect, TrackOf, Batches, stream, pool, disk
<1>1. TypeOK'
  <2>1. TrackOf(pc) \in Tracks
    BY DEF Tracks
  <2>2. PICK s \in Segments : seen' = [seen EXCEPT ![TrackOf(pc)] = @ \cup {s}]
    OBVIOUS
  <2>3. seen' \in [Tracks -> SUBSET Segments]
    BY <2>1, <2>2 DEF TypeOK
  <2> QED
    BY <2>3 DEF TypeOK
<1>2. StreamOK'
  BY DEF StreamOK
<1>3. KindOK'
  BY DEF KindOK, Batches
<1>4. FileOK'
  <2>1. ~finite
    BY DEF KindOK, Batches
  <2> QED
    BY <2>1 DEF FileOK
<1>5. PoolOK'
  <2>1. TrackOf(pc) \in Tracks /\ seen \in [Tracks -> SUBSET Segments]
    BY DEF Tracks, TypeOK
  <2>2. PICK s \in Segments : /\ job[TrackOf(pc)][s] \in {"ok", "gone"}
                              /\ seen' = [seen EXCEPT ![TrackOf(pc)] = @ \cup {s}]
    OBVIOUS
  <2> HIDE DEF Collect, TrackOf, Inv
  <2>3. \A x \in Tracks : seen'[x] = IF x = TrackOf(pc) THEN seen[x] \cup {s} ELSE seen[x]
    BY <2>1, <2>2
  <2>4. pc' = pc /\ job' = job /\ finite' = finite
    BY DEF Collect
  <2>5. PoolOK
    BY DEF Inv
  <2>6. \A t \in Tracks, y \in Segments :
          y \in seen'[t] => y \in seen[t] \/ job[t][y] \in {"ok", "gone"}
    BY <2>2, <2>3
  <2> QED
    BY <2>4, <2>5, <2>6 DEF PoolOK, Awaited, TrackOf
<1>6. CapOK'
  BY DEF CapOK, TrackOf, Batches
<1>7. SelectionOK'
  BY DEF SelectionOK
<1>8. RunsOK'
  BY DEF RunsOK, Batches
<1>9. OutputOK'
  BY DEF OutputOK
<1> QED
  BY <1>1, <1>2, <1>3, <1>4, <1>5, <1>6, <1>7, <1>8, <1>9

\* A result is an exception.
LEMMA DropKeeps ==
  ASSUME Inv, Drop
  PROVE  Inv'
<1> USE DEF Inv, Drop, TrackOf, Batches, stream, pool, disk
<1>1. TypeOK'
  BY DEF TypeOK, Batches
<1>2. StreamOK'
  BY DEF StreamOK
<1>3. KindOK'
  BY DEF KindOK, Batches
<1>4. FileOK'
  BY DEF FileOK
<1>5. PoolOK'
  BY DEF PoolOK, Awaited, TrackOf, Batches
<1>6. CapOK'
  BY DEF CapOK, TrackOf, Batches
<1>7. SelectionOK'
  BY DEF SelectionOK
<1>8. RunsOK'
  BY DEF RunsOK, Batches
<1>9. OutputOK'
  BY DEF OutputOK
<1> QED
  BY <1>1, <1>2, <1>3, <1>4, <1>5, <1>6, <1>7, <1>8, <1>9

\* The pool has come to rest.
LEMMA DrainedKeeps ==
  ASSUME Inv, Drained
  PROVE  Inv'
<1> USE DEF Inv, Drained, stream, pool, disk
<1>1. Gaps' = Gaps /\ selected' = selected
  BY DEF Gaps, HasPath
<1>2. TypeOK'
  BY DEF TypeOK, Batches
<1>3. StreamOK'
  BY DEF StreamOK
<1>4. KindOK'
  BY DEF KindOK, Batches
<1>5. FileOK'
  BY DEF FileOK
<1>6. PoolOK'
  <2>1. \A t \in Tracks, s \in Segments : job[t][s] # "running"
    <3> HIDE DEF Inv
    <3>1. \A t \in Tracks, s \in Segments : <<t, s>> \notin Running
      OBVIOUS
    <3> QED
      BY <3>1 DEF Running
  <2> QED
    BY <2>1 DEF PoolOK, Awaited, Batches
<1>7. CapOK'
  BY DEF CapOK, TrackOf, Batches
<1>8. SelectionOK'
  BY DEF SelectionOK
<1>9. RunsOK'
  BY <1>1 DEF RunsOK, Batches
<1>10. OutputOK'
  BY <1>1 DEF OutputOK
<1> QED
  BY <1>2, <1>3, <1>4, <1>5, <1>6, <1>7, <1>8, <1>9, <1>10

\* A batch is complete.
LEMMA CollectedKeeps ==
  ASSUME Inv, Collected
  PROVE  Inv'
<1> USE DEF Inv, Collected, TrackOf, Batches, stream, pool, disk
<1>1. Gaps' = Gaps /\ selected' = selected
  BY DEF Gaps, HasPath
<1>2. TypeOK'
  BY DEF TypeOK, Batches
<1>3. StreamOK'
  BY DEF StreamOK
<1>4. KindOK'
  BY DEF KindOK, Batches
<1>5. FileOK'
  BY DEF FileOK
<1>6. PoolOK'
  <2>1. \A s \in Segments :
          job[TrackOf(pc)][s] \notin {"queued", "running", "failed", "dropped"}
    BY DEF PoolOK, KindOK, Tracks
  <2>2. \A t \in Tracks, s \in Segments :
          job[t][s] \notin {"queued", "running", "failed", "dropped"}
    BY <2>1 DEF PoolOK, Awaited
  <2> QED
    BY <2>2 DEF PoolOK
<1>7. CapOK'
  <2>1. \A s \in Segments :
          job[TrackOf(pc)][s] \notin {"queued", "running", "failed", "dropped"}
    BY DEF PoolOK, KindOK, Tracks
  <2>2. counter <= MaxSize
    BY <2>1 DEF CapOK
  <2> QED
    BY <2>2 DEF CapOK
<1>8. SelectionOK'
  BY DEF SelectionOK
<1>9. RunsOK'
  BY <1>1 DEF RunsOK, Batches
<1>10. OutputOK'
  BY <1>1 DEF OutputOK
<1> QED
  BY <1>2, <1>3, <1>4, <1>5, <1>6, <1>7, <1>8, <1>9, <1>10

\* The audio rendition is submitted to the pool.
LEMMA ResolveAudioKeeps ==
  ASSUME Inv, ResolveAudio
  PROVE  Inv'
<1> USE DEF Inv, ResolveAudio, Fetches, Raises, Counts, Fits, stream, pool, disk
<1>1. TypeOK'
  <2>1. pc' \in Batches \cup {"resolve", "file", "file audio", "init", "audio", "refresh",
               "drain", "keys", "remux", "concat", "probe", "rename", "tidy",
               "unwind", "done", "failed"}
    BY DEF TypeOK, Batches
  <2>2. counter' \in Nat
    <3>1. counter \in Nat /\ counter' \in {counter, counter + 1}
      BY DEF TypeOK
    <3> HIDE DEF ResolveAudio, Inv
    <3> QED
      BY <3>1
  <2>3. job' \in [Tracks -> [Segments ->
               {"none", "queued", "running", "ok", "gone", "failed", "dropped"}]]
    <3>1. job' = job \/ Submit("audio", SelectWindow(Listed))
      OBVIOUS
    <3> QED
      BY <3>1, Submitted DEF TypeOK, Tracks
  <2> QED
    BY <2>1, <2>2, <2>3 DEF TypeOK
<1>2. StreamOK'
  BY DEF StreamOK
<1>3. KindOK'
  BY DEF KindOK, Batches
<1>4. FileOK'
  <2>1. ~finite
    BY DEF KindOK, Batches
  <2> QED
    BY <2>1 DEF FileOK
<1>5. PoolOK'
  <2>1. CASE pc' = "audio batch"
    <3>1. Submit("audio", SelectWindow(Listed)) /\ "audio" \in Tracks
      BY <2>1 DEF Tracks
    <3>2. \A x \in Tracks, s \in Segments :
            \/ job'[x][s] = job[x][s]
            \/ x = "audio" /\ s \notin seen[x] /\ job'[x][s] = "queued"
      BY <3>1, Submitted
    <3>3. /\ pc \notin Batches \cup {"drain", "unwind", "failed"}
          /\ finite' = finite /\ seen' = seen /\ PoolOK
      BY DEF Batches
    <3>4. pc' \in Batches /\ TrackOf(pc') = "audio"
      BY <2>1 DEF Batches, TrackOf
    <3> HIDE DEF ResolveAudio, Inv
    <3>5. \A x \in Tracks, s \in Segments :
            /\ job'[x][s] = "queued" => x = "audio"
            /\ job'[x][s] \notin {"running", "failed", "dropped"}
      BY <3>2, <3>3 DEF PoolOK, Awaited
    <3>6. ~finite' => \A x \in Tracks, s \in Segments :
            s \in seen'[x] => job'[x][s] \in {"ok", "gone"}
      BY <3>2, <3>3 DEF PoolOK
    <3> QED
      BY <3>4, <3>5, <3>6 DEF PoolOK, Awaited
  <2>2. CASE pc' # "audio batch"
    BY <2>2 DEF PoolOK, Awaited, TrackOf, Batches
  <2> QED
    BY <2>1, <2>2
<1>6. CapOK'
  BY DEF CapOK, TrackOf, Batches
<1>7. SelectionOK'
  BY DEF SelectionOK
<1>8. RunsOK'
  BY DEF RunsOK, Batches
<1>9. OutputOK'
  BY DEF OutputOK
<1> QED
  BY <1>1, <1>2, <1>3, <1>4, <1>5, <1>6, <1>7, <1>8, <1>9

\* What has been published since is submitted to the pool.
LEMMA RefreshKeeps ==
  ASSUME Inv, Refresh
  PROVE  Inv'
<1> USE DEF Inv, Refresh, Fetches, Raises, Counts, Fits, stream, pool, disk
<1>1. TypeOK'
  <2>1. pc' \in Batches \cup {"resolve", "file", "file audio", "init", "audio", "refresh",
               "drain", "keys", "remux", "concat", "probe", "rename", "tidy",
               "unwind", "done", "failed"}
    BY DEF TypeOK, Batches
  <2>2. counter' \in Nat
    BY DEF TypeOK
  <2>3. job' \in [Tracks -> [Segments ->
               {"none", "queued", "running", "ok", "gone", "failed", "dropped"}]]
    <3>1. job' = job \/ Submit("video", Later)
      OBVIOUS
    <3> QED
      BY <3>1, Submitted DEF TypeOK, Tracks
  <2>4. selected' \in Seq(Segments)
    <3>1. selected # <<>> /\ InOrder(selected)
      BY DEF SelectionOK
    <3>2. selected \o Later \in Seq(Segments) /\ selected \in Seq(Segments)
      BY <3>1, LaterInOrder DEF TypeOK
    <3> QED
      BY <3>2
  <2> QED
    BY <2>1, <2>2, <2>3, <2>4 DEF TypeOK
<1>2. StreamOK'
  BY DEF StreamOK
<1>3. KindOK'
  BY DEF KindOK, Batches
<1>4. FileOK'
  <2>1. ~finite
    BY DEF KindOK, Batches
  <2> QED
    BY <2>1 DEF FileOK
<1>5. PoolOK'
  <2>1. CASE pc' = "tail"
    <3>1. Submit("video", Later) /\ "video" \in Tracks
      BY <2>1 DEF Tracks
    <3>2. \A x \in Tracks, s \in Segments :
            \/ job'[x][s] = job[x][s]
            \/ x = "video" /\ s \notin seen[x] /\ job'[x][s] = "queued"
      BY <3>1, Submitted
    <3>3. /\ pc \notin Batches \cup {"drain", "unwind", "failed"}
          /\ finite' = finite /\ seen' = seen /\ PoolOK
      BY DEF Batches
    <3>4. pc' \in Batches /\ TrackOf(pc') = "video"
      BY <2>1 DEF Batches, TrackOf
    <3> HIDE DEF Refresh, Inv
    <3>5. \A x \in Tracks, s \in Segments :
            /\ job'[x][s] = "queued" => x = "video"
            /\ job'[x][s] \notin {"running", "failed", "dropped"}
      BY <3>2, <3>3 DEF PoolOK, Awaited
    <3>6. ~finite' => \A x \in Tracks, s \in Segments :
            s \in seen'[x] => job'[x][s] \in {"ok", "gone"}
      BY <3>2, <3>3 DEF PoolOK
    <3> QED
      BY <3>4, <3>5, <3>6 DEF PoolOK, Awaited
  <2>2. CASE pc' # "tail"
    BY <2>2 DEF PoolOK, Awaited, TrackOf, Batches
  <2> QED
    BY <2>1, <2>2
<1>6. CapOK'
  BY DEF CapOK, TrackOf, Batches
<1>7. SelectionOK'
  <2>1. selected # <<>> /\ InOrder(selected)
    BY DEF SelectionOK
  <2>2. InOrder(selected \o Later)
    BY <2>1, LaterInOrder
  <2>3. selected' \in {selected, selected \o Later} /\ pc' \in {"keys", "tail", "unwind"}
    OBVIOUS
  <2> QED
    BY <2>1, <2>2, <2>3 DEF SelectionOK, InOrder
<1>8. RunsOK'
  BY DEF RunsOK, Batches
<1>9. OutputOK'
  BY DEF OutputOK
<1> QED
  BY <1>1, <1>2, <1>3, <1>4, <1>5, <1>6, <1>7, <1>8, <1>9

\* The runs are cut.
LEMMA CutRunsKeeps ==
  ASSUME Inv, CutRuns
  PROVE  Inv'
<1> USE DEF Inv, CutRuns, FetchesIfAny, Fetches, Raises, Counts, Fits, WithinGapLimits,
            stream, pool, disk
<1>1. Gaps' = Gaps /\ selected' = selected
  BY DEF Gaps, HasPath
<1>2. TypeOK'
  <2>1. pc' \in Batches \cup {"resolve", "file", "file audio", "init", "audio", "refresh",
               "drain", "keys", "remux", "concat", "probe", "rename", "tidy",
               "unwind", "done", "failed"}
    BY DEF TypeOK, Batches
  <2>2. counter' \in Nat
    BY DEF TypeOK
  <2>3. runs' \in Seq(Seq(Segments))
    <3>1. selected \in Seq(Segments) /\ InOrder(selected)
      BY DEF TypeOK, SelectionOK
    <3> QED
      BY <3>1, RunsAreCut DEF TypeOK
  <2>4. remuxed' \in 0 .. Len(runs')
    <3>1. remuxed = 0 /\ runs' \in Seq(Seq(Segments))
      BY <2>3 DEF RunsOK
    <3> QED
      BY <3>1
  <2> QED
    BY <2>1, <2>2, <2>3, <2>4 DEF TypeOK
<1>3. StreamOK'
  BY DEF StreamOK
<1>4. KindOK'
  BY DEF KindOK, Batches
<1>5. FileOK'
  BY DEF FileOK
<1>6. PoolOK'
  BY DEF PoolOK, Awaited, TrackOf, Batches
<1>7. CapOK'
  BY DEF CapOK, TrackOf, Batches
<1>8. SelectionOK'
  BY DEF SelectionOK
<1>9. RunsOK'
  <2>1. selected \in Seq(Segments) /\ InOrder(selected)
    BY DEF TypeOK, SelectionOK
  <2>2. ToSet(selected) \ Gaps = {s \in ToSet(selected) : HasPath(s)}
    BY DEF Gaps
  <2>3. Cut(ContinuousRuns(selected), ToSet(selected) \ Gaps)
    BY <2>1, <2>2, RunsAreCut
  <2>4. remuxed = 0 /\ remuxed' = 0
    BY DEF RunsOK, Batches
  <2>5. CASE pc' = "remux"
    <3>1. runs' = ContinuousRuns(selected) /\ Gaps # ToSet(selected)
          /\ Cardinality(Gaps) <= MaxGaps
          /\ Cardinality(Gaps) * 100 <= Len(selected) * MaxGapPercent
      BY <2>5
    <3>2. Cut(runs', ToSet(selected) \ Gaps) /\ ToSet(selected) \ Gaps # {}
      BY <2>3, <3>1 DEF Gaps
    <3>3. runs' \in Seq(Seq(Segments))
      BY <2>1, <3>1, RunsAreCut
    <3>4. runs' # <<>>
      <4>1. DOMAIN runs' # {}
        BY <3>2 DEF Cut
      <4> QED
        BY <4>1
    <3>5. Len(runs') > 0
      BY <3>3, <3>4
    <3> QED
      BY <1>1, <2>4, <2>5, <3>1, <3>2, <3>4, <3>5 DEF RunsOK, Batches
  <2>6. CASE pc' # "remux"
    BY <2>4, <2>6 DEF RunsOK, Batches
  <2> QED
    BY <2>5, <2>6
<1>10. OutputOK'
  BY <1>1 DEF OutputOK
<1> QED
  BY <1>2, <1>3, <1>4, <1>5, <1>6, <1>7, <1>8, <1>9, <1>10

\* A run is remuxed.
LEMMA RemuxRunKeeps ==
  ASSUME Inv, RemuxRun
  PROVE  Inv'
<1> USE DEF Inv, RemuxRun, FfmpegFails, stream, pool, disk
<1>1. Gaps' = Gaps /\ selected' = selected
  BY DEF Gaps, HasPath
<1>2. TypeOK'
  <2>1. pc' \in Batches \cup {"resolve", "file", "file audio", "init", "audio", "refresh",
               "drain", "keys", "remux", "concat", "probe", "rename", "tidy",
               "unwind", "done", "failed"}
    BY DEF TypeOK, Batches
  <2>2. remuxed' \in 0 .. Len(runs')
    <3>1. remuxed < Len(runs) /\ remuxed \in Nat /\ Len(runs) \in Nat
      BY DEF TypeOK, RunsOK
    <3>2. remuxed' \in {remuxed, remuxed + 1} /\ runs' = runs
      OBVIOUS
    <3> QED
      BY <3>1, <3>2
  <2>3. output' \in [name : {"none", "part", "final"}, segments : Seq(Segments)]
    <3>1. runs \in Seq(Seq(Segments)) /\ runs # <<>>
      BY DEF TypeOK, RunsOK
    <3>2. runs[1] \in Seq(Segments)
      BY <3>1
    <3> QED
      BY <3>2 DEF TypeOK
  <2> QED
    BY <2>1, <2>2, <2>3 DEF TypeOK
<1>3. StreamOK'
  BY DEF StreamOK
<1>4. KindOK'
  BY DEF KindOK, Batches
<1>5. FileOK'
  BY DEF FileOK
<1>6. PoolOK'
  BY DEF PoolOK, Awaited, TrackOf, Batches
<1>7. CapOK'
  BY DEF CapOK, TrackOf, Batches
<1>8. SelectionOK'
  BY DEF SelectionOK
<1>9. RunsOK'
  BY <1>1 DEF RunsOK, Batches
<1>10. OutputOK'
  <2>1. CASE pc' = "probe"
    <3>1. Len(runs) = 1 /\ output' = [name |-> "part", segments |-> runs[1]]
      BY <2>1
    <3>2. Cut(runs, ToSet(selected) \ Gaps) /\ runs \in Seq(Seq(Segments))
      BY DEF RunsOK, TypeOK
    <3>3. DOMAIN runs = {1}
      BY <3>1, <3>2
    <3>4. InOrder(runs[1]) /\ ToSet(runs[1]) = ToSet(selected) \ Gaps
      <4>1. InOrder(runs[1])
        BY <3>2, <3>3 DEF Cut, Continuous
      <4>2. \A k \in DOMAIN runs[1] : runs[1][k] \in ToSet(selected) \ Gaps
        BY <3>2, <3>3 DEF Cut
      <4>3. \A s \in ToSet(selected) \ Gaps : \E k \in DOMAIN runs[1] : runs[1][k] = s
        BY <3>2, <3>3 DEF Cut
      <4>4. ToSet(runs[1]) = {runs[1][k] : k \in DOMAIN runs[1]}
        BY DEF ToSet
      <4> QED
        BY <4>1, <4>2, <4>3, <4>4
    <3>5. output'.segments = runs[1]
      BY <3>1
    <3> QED
      BY <1>1, <2>1, <3>4, <3>5 DEF OutputOK
  <2>2. CASE pc' # "probe"
    BY <2>2 DEF OutputOK
  <2> QED
    BY <2>1, <2>2
<1> QED
  BY <1>2, <1>3, <1>4, <1>5, <1>6, <1>7, <1>8, <1>9, <1>10

\* The runs are joined.
LEMMA ConcatKeeps ==
  ASSUME Inv, Concat
  PROVE  Inv'
<1> USE DEF Inv, Concat, FfmpegFails, stream, pool, disk
<1>1. Gaps' = Gaps /\ selected' = selected
  BY DEF Gaps, HasPath
<1>2. TypeOK'
  <2>1. pc' \in Batches \cup {"resolve", "file", "file audio", "init", "audio", "refresh",
               "drain", "keys", "remux", "concat", "probe", "rename", "tidy",
               "unwind", "done", "failed"}
    BY DEF TypeOK, Batches
  <2>2. output' \in [name : {"none", "part", "final"}, segments : Seq(Segments)]
    <3>1. Cut(runs, ToSet(selected) \ Gaps) /\ runs \in Seq(Seq(Segments)) /\ runs # <<>>
      BY DEF RunsOK, TypeOK, KindOK
    <3>2. FlattenSeq(runs) \in Seq(Segments) /\ <<>> \in Seq(Segments)
      BY <3>1, FlattenedCut
    <3>3. output' = output \/ output' = [name |-> "part", segments |-> FlattenSeq(runs)]
          \/ output' = [name |-> "part", segments |-> <<>>]
      OBVIOUS
    <3>5. /\ [name |-> "part", segments |-> FlattenSeq(runs)]
                \in [name : {"none", "part", "final"}, segments : Seq(Segments)]
          /\ [name |-> "part", segments |-> <<>>]
                \in [name : {"none", "part", "final"}, segments : Seq(Segments)]
      BY <3>2
    <3>4. output \in [name : {"none", "part", "final"}, segments : Seq(Segments)]
      BY DEF TypeOK
    <3> HIDE DEF Concat, Inv
    <3> QED
      BY <3>5, <3>3, <3>4
  <2> QED
    BY <2>1, <2>2 DEF TypeOK
<1>3. StreamOK'
  BY DEF StreamOK
<1>4. KindOK'
  BY DEF KindOK, Batches
<1>5. FileOK'
  BY DEF FileOK
<1>6. PoolOK'
  BY DEF PoolOK, Awaited, TrackOf, Batches
<1>7. CapOK'
  BY DEF CapOK, TrackOf, Batches
<1>8. SelectionOK'
  BY DEF SelectionOK
<1>9. RunsOK'
  BY <1>1 DEF RunsOK, Batches
<1>10. OutputOK'
  <2>1. CASE pc' = "probe"
    <3>1. Cut(runs, ToSet(selected) \ Gaps) /\ runs \in Seq(Seq(Segments)) /\ runs # <<>>
      BY DEF RunsOK, TypeOK, KindOK
    <3>2. InOrder(FlattenSeq(runs)) /\ ToSet(FlattenSeq(runs)) = ToSet(selected) \ Gaps
      BY <3>1, FlattenedCut
    <3>3. output'.segments = FlattenSeq(runs)
      BY <2>1
    <3> QED
      BY <1>1, <2>1, <3>2, <3>3 DEF OutputOK
  <2>2. CASE pc' # "probe"
    BY <2>2 DEF OutputOK
  <2> QED
    BY <2>1, <2>2
<1> QED
  BY <1>2, <1>3, <1>4, <1>5, <1>6, <1>7, <1>8, <1>9, <1>10

\* The output is looked at.
LEMMA ProbeKeeps ==
  ASSUME Inv, Probe
  PROVE  Inv'
<1> USE DEF Inv, Probe, FfmpegFails, stream, pool, disk
<1>1. Gaps' = Gaps /\ selected' = selected
  BY DEF Gaps, HasPath
<1>2. TypeOK'
  BY DEF TypeOK, Batches
<1>3. StreamOK'
  BY DEF StreamOK
<1>4. KindOK'
  BY DEF KindOK, Batches
<1>5. FileOK'
  BY DEF FileOK
<1>6. PoolOK'
  BY DEF PoolOK, Awaited, TrackOf, Batches
<1>7. CapOK'
  BY DEF CapOK, TrackOf, Batches
<1>8. SelectionOK'
  BY DEF SelectionOK
<1>9. RunsOK'
  BY <1>1 DEF RunsOK, Batches
<1>10. OutputOK'
  BY <1>1 DEF OutputOK
<1> QED
  BY <1>2, <1>3, <1>4, <1>5, <1>6, <1>7, <1>8, <1>9, <1>10

\* The output takes its name.
LEMMA RenameKeeps ==
  ASSUME Inv, Rename
  PROVE  Inv'
<1> USE DEF Inv, Rename, stream, pool, disk
<1>1. Gaps' = Gaps /\ selected' = selected
  BY DEF Gaps, HasPath
<1>2. TypeOK'
  BY DEF TypeOK, Batches
<1>3. StreamOK'
  BY DEF StreamOK
<1>4. KindOK'
  BY DEF KindOK, Batches
<1>5. FileOK'
  BY DEF FileOK
<1>6. PoolOK'
  BY DEF PoolOK, Awaited, TrackOf, Batches
<1>7. CapOK'
  BY DEF CapOK, TrackOf, Batches
<1>8. SelectionOK'
  BY DEF SelectionOK
<1>9. RunsOK'
  BY <1>1 DEF RunsOK, Batches
<1>10. OutputOK'
  BY <1>1 DEF OutputOK
<1> QED
  BY <1>2, <1>3, <1>4, <1>5, <1>6, <1>7, <1>8, <1>9, <1>10

\* The work directory goes.
LEMMA TidyKeeps ==
  ASSUME Inv, Tidy
  PROVE  Inv'
<1> USE DEF Inv, Tidy, stream, pool, disk
<1>1. Gaps' = Gaps /\ selected' = selected
  BY DEF Gaps, HasPath
<1>2. TypeOK'
  BY DEF TypeOK, Batches
<1>3. StreamOK'
  BY DEF StreamOK
<1>4. KindOK'
  BY DEF KindOK, Batches
<1>5. FileOK'
  BY DEF FileOK
<1>6. PoolOK'
  BY DEF PoolOK, Awaited, TrackOf, Batches
<1>7. CapOK'
  BY DEF CapOK, TrackOf, Batches
<1>8. SelectionOK'
  BY DEF SelectionOK
<1>9. RunsOK'
  BY <1>1 DEF RunsOK, Batches
<1>10. OutputOK'
  BY <1>1 DEF OutputOK
<1> QED
  BY <1>2, <1>3, <1>4, <1>5, <1>6, <1>7, <1>8, <1>9, <1>10

\* Everything goes.
LEMMA UnwindKeeps ==
  ASSUME Inv, Unwind
  PROVE  Inv'
<1> USE DEF Inv, Unwind, stream, pool, disk
<1>1. Gaps' = Gaps /\ selected' = selected
  BY DEF Gaps, HasPath
<1>2. TypeOK'
  <2>1. output' \in [name : {"none", "part", "final"}, segments : Seq(Segments)]
    <3>1. <<>> \in Seq(Segments)
      OBVIOUS
    <3> QED
      BY <3>1 DEF NoOutput
  <2> QED
    BY <2>1 DEF TypeOK
<1>3. StreamOK'
  BY DEF StreamOK
<1>4. KindOK'
  BY DEF KindOK, Batches
<1>5. FileOK'
  BY DEF FileOK
<1>6. PoolOK'
  BY DEF PoolOK, Awaited, TrackOf, Batches
<1>7. CapOK'
  BY DEF CapOK, TrackOf, Batches
<1>8. SelectionOK'
  BY DEF SelectionOK
<1>9. RunsOK'
  BY <1>1 DEF RunsOK, Batches
<1>10. OutputOK'
  BY DEF OutputOK, NoOutput
<1> QED
  BY <1>2, <1>3, <1>4, <1>5, <1>6, <1>7, <1>8, <1>9, <1>10

\* The server publishes a segment.
LEMMA PublishKeeps ==
  ASSUME Inv, Publish
  PROVE  Inv'
<1> USE DEF Inv, Publish, stream, pool, disk
<1>1. /\ last' = last + 1 /\ first' = first + 1 /\ last' \in Segments /\ first' \in Segments
      /\ last' = first' + PlaylistLength - 1
  <2>1. last = first + PlaylistLength - 1
    BY DEF StreamOK
  <2>2. /\ first \in Nat /\ first > 0 /\ last \in Nat /\ last <= LastSegment
        /\ LastSegment \in Nat /\ PlaylistLength \in Nat /\ PlaylistLength > 0
    BY StreamNumbers
  <2>3. last < LastSegment /\ last' = last + 1 /\ first' = last' - PlaylistLength + 1
    OBVIOUS
  <2> HIDE DEF Publish, Inv
  <2> QED
    BY <2>1, <2>2, <2>3 DEF Segments
<1>2. Gaps' = Gaps /\ selected' = selected
  BY DEF Gaps, HasPath
<1>3. TypeOK'
  BY <1>1 DEF TypeOK
<1>4. StreamOK'
  BY <1>1 DEF StreamOK
<1>5. KindOK'
  BY DEF KindOK, Batches
<1>6. FileOK'
  BY DEF FileOK
<1>7. PoolOK'
  BY DEF PoolOK, Awaited, TrackOf, Batches
<1>8. CapOK'
  BY DEF CapOK, TrackOf, Batches
<1>9. SelectionOK'
  BY DEF SelectionOK
<1>10. RunsOK'
  BY <1>2 DEF RunsOK, Batches
<1>11. OutputOK'
  BY <1>2 DEF OutputOK
<1> QED
  BY <1>3, <1>4, <1>5, <1>6, <1>7, <1>8, <1>9, <1>10, <1>11

\* The token is set.
LEMMA CancelKeeps ==
  ASSUME Inv, Cancel
  PROVE  Inv'
<1> USE DEF Inv, Cancel, stream, pool, disk
<1>1. Gaps' = Gaps /\ selected' = selected
  BY DEF Gaps, HasPath
<1>2. TypeOK'
  BY DEF TypeOK, Batches
<1>3. StreamOK'
  BY DEF StreamOK
<1>4. KindOK'
  BY DEF KindOK, Batches
<1>5. FileOK'
  BY DEF FileOK, From
<1>6. PoolOK'
  BY DEF PoolOK, Awaited, TrackOf, Batches
<1>7. CapOK'
  BY DEF CapOK, TrackOf, Batches
<1>8. SelectionOK'
  BY DEF SelectionOK
<1>9. RunsOK'
  BY <1>1 DEF RunsOK, Batches
<1>10. OutputOK'
  BY <1>1 DEF OutputOK
<1> QED
  BY <1>2, <1>3, <1>4, <1>5, <1>6, <1>7, <1>8, <1>9, <1>10

\* A step that leaves these alone leaves the download where it was.
LEMMA SameKind ==
  ASSUME KindOK, finite' = finite, pc' = pc, hops' = hops
  PROVE  KindOK'
BY DEF KindOK

\* A future starts or ends.
LEMMA FutureKeeps ==
  ASSUME Inv, NEW t \in Tracks, NEW s \in Segments,
         NEW how \in {"running", "ok", "gone", "failed"}, Ends(t, s, how),
         job[t][s] \in {"queued", "running"}, how = "running" => job[t][s] = "queued",
         counter' \in {counter, counter + 1},
         how # "failed" => counter' = counter \/ counter' <= MaxSize,
         UNCHANGED <<stream, pc, hops, selected, seen, cancelled, runs, remuxed, disk>>
  PROVE  Inv'
<1> USE DEF Inv, stream, disk
<1>1. /\ job' \in [Tracks -> [Segments ->
                {"none", "queued", "running", "ok", "gone", "failed", "dropped"}]]
      /\ job'[t][s] = how
      /\ \A x \in Tracks, y \in Segments : x # t \/ y # s => job'[x][y] = job[x][y]
  BY Ended
<1>2. UNCHANGED <<finite, hasAudio, first, last, pc, hops, selected, seen, cancelled, runs,
        remuxed, work, output>>
  OBVIOUS
<1>3. (pc \in Batches /\ TrackOf(pc) = t) \/ pc = "drain"
  BY DEF PoolOK, Awaited
<1>4. how = "running" => pc \in Batches
  BY DEF PoolOK, Awaited
<1>5. ~finite
  BY <1>3 DEF KindOK
<1>6. s \notin seen[t]
  BY <1>5 DEF PoolOK
<1>7. TypeOK'
  <2>1. counter' \in Nat
    <3>1. counter \in Nat
      BY DEF TypeOK
    <3>2. counter' \in {counter, counter + 1}
      OBVIOUS
    <3> HIDE DEF Inv
    <3> QED
      BY <3>1, <3>2
  <2> QED
    BY <1>1, <1>2, <2>1 DEF TypeOK
<1>8. StreamOK' /\ KindOK' /\ FileOK' /\ SelectionOK'
  <2>1. StreamOK'
    BY <1>2 DEF StreamOK
  <2>2. KindOK'
    BY <1>2, SameKind
  <2>3. FileOK'
    <3>1. ~finite'
      BY <1>2, <1>5
    <3> HIDE DEF Inv
    <3> QED
      BY <3>1 DEF FileOK
  <2>4. SelectionOK'
    BY <1>2 DEF SelectionOK, InOrder
  <2> QED
    BY <2>1, <2>2, <2>3, <2>4
<1>9. PoolOK'
  <2>1. PoolOK
    OBVIOUS
  <2> HIDE DEF Inv
  <2>2. \A x \in Tracks, y \in Segments : y \in seen'[x] => job'[x][y] \in {"ok", "gone"}
    BY <1>1, <1>2, <1>5, <1>6, <2>1 DEF PoolOK
  <2>3. \A x \in Tracks, y \in Segments : x # t \/ y # s =>
          /\ job'[x][y] = "queued" => Awaited(x)'
          /\ job'[x][y] = "running" => Awaited(x)' \/ pc' = "drain"
          /\ job'[x][y] \in {"failed", "dropped"} =>
               Awaited(x)' \/ pc' \in {"drain", "unwind", "failed"}
    BY <1>1, <1>2, <2>1 DEF PoolOK, Awaited
  <2>4. /\ job'[t][s] # "queued"
        /\ Awaited(t)' \/ pc' = "drain"
    BY <1>1, <1>2, <1>3 DEF Awaited
  <2> QED
    BY <2>2, <2>3, <2>4 DEF PoolOK
<1>10. CapOK'
  <2>1. CASE how = "failed"
    BY <1>1, <1>2, <1>3, <2>1 DEF CapOK
  <2>2. CASE how # "failed" /\ counter' = counter
    <3>1. \A y \in Segments : job[TrackOf(pc)][y] = "failed" => job'[TrackOf(pc)][y] = "failed"
      BY <1>1, <1>3 DEF TrackOf, Tracks
    <3> QED
      BY <1>2, <2>2, <3>1 DEF CapOK
  <2>3. CASE counter' <= MaxSize
    BY <2>3 DEF CapOK
  <2> QED
    BY <2>1, <2>2, <2>3
<1>11. RunsOK' /\ OutputOK'
  BY <1>2, <1>3 DEF RunsOK, OutputOK, Batches
<1> QED
  BY <1>7, <1>8, <1>9, <1>10, <1>11

\* The pool works.
LEMMA WorkerKeeps ==
  ASSUME Inv, Worker
  PROVE  Inv'
<1> PICK t \in Tracks, s \in Segments :
      Take(t, s) \/ Arrive(t, s) \/ Expired(t, s) \/ Break(t, s)
  BY DEF Worker
<1>1. CASE Take(t, s)
  <2> DEFINE how == IF cancelled THEN "failed" ELSE "running"
  <2>1. /\ Ends(t, s, how) /\ job[t][s] = "queued" /\ counter' = counter
        /\ UNCHANGED <<stream, pc, hops, selected, seen, cancelled, runs, remuxed, disk>>
    BY <1>1 DEF Take
  <2>2. how \in {"running", "failed"}
    OBVIOUS
  <2> HIDE DEF how
  <2> QED
    BY <2>1, <2>2, FutureKeeps
<1>2. CASE Arrive(t, s)
  <2>1. PICK how \in {"ok", "failed"} :
          /\ Ends(t, s, how) /\ (how = "ok" => counter + 1 <= MaxSize)
    BY <1>2 DEF Arrive, Fits
  <2>2. /\ job[t][s] = "running" /\ counter' = counter + 1
        /\ UNCHANGED <<stream, pc, hops, selected, seen, cancelled, runs, remuxed, disk>>
    BY <1>2 DEF Arrive, Counts
  <2> QED
    BY <2>1, <2>2, FutureKeeps
<1>3. CASE Expired(t, s)
  BY <1>3, FutureKeeps DEF Expired
<1>4. CASE Break(t, s)
  BY <1>4, FutureKeeps DEF Break
<1> QED
  BY <1>1, <1>2, <1>3, <1>4

\* The invariant holds before anything happens.
LEMMA InitInv ==
  ASSUME Init
  PROVE  Inv
<1> USE DEF Init
<1>1. StreamOK /\ KindOK /\ PoolOK /\ CapOK /\ RunsOK /\ OutputOK
  <2>1. PlaylistLength \in Nat /\ MaxDepth \in Nat /\ MaxSize \in Nat
    BY HlsAssumption
  <2>2. StreamOK /\ KindOK /\ CapOK
    BY <2>1 DEF StreamOK, KindOK, CapOK, Batches
  <2>3. PoolOK /\ RunsOK /\ OutputOK
    BY DEF PoolOK, RunsOK, OutputOK, NoOutput
  <2> QED
    BY <2>2, <2>3
<1>2. SelectionOK
  BY DEF SelectionOK, InOrder
<1>3. FileOK
  <2>1. {} = 1 .. 0
    OBVIOUS
  <2> QED
    BY <2>1 DEF FileOK
<1>4. TypeOK
  <2>1. first \in Segments /\ last \in Segments
    BY HlsAssumption DEF Segments
  <2>2. hops \in 0 .. MaxDepth + 1
    BY HlsAssumption
  <2>3. selected \in Seq(Segments) /\ runs \in Seq(Seq(Segments)) /\ remuxed \in 0 .. Len(runs)
    OBVIOUS
  <2>4. output \in [name : {"none", "part", "final"}, segments : Seq(Segments)]
    <3>1. <<>> \in Seq(Segments)
      OBVIOUS
    <3> QED
      BY <3>1 DEF NoOutput
  <2> QED
    BY <2>1, <2>2, <2>3, <2>4 DEF TypeOK
<1> QED
  BY <1>1, <1>2, <1>3, <1>4 DEF Inv

\* Every step of the download keeps the invariant.
LEMMA NextKeeps ==
  ASSUME Inv, [Next]_vars
  PROVE  Inv'
<1>1. CASE UNCHANGED vars
  <2>1. UNCHANGED <<finite, hasAudio, first, last, pc, hops, selected, job, seen, counter,
          cancelled, runs, remuxed, work, output>>
    BY <1>1 DEF vars, stream, pool, disk
  <2>2. Gaps' = Gaps
    BY <2>1 DEF Gaps, HasPath
  <2>3. TypeOK' /\ StreamOK' /\ KindOK'
    BY <2>1 DEF Inv, TypeOK, StreamOK, KindOK
  <2>4. FileOK' /\ PoolOK' /\ CapOK'
    <3>1. FileOK'
      BY <2>1 DEF Inv, FileOK, From
    <3>2. PoolOK'
      BY <2>1 DEF Inv, PoolOK, Awaited
    <3>3. CapOK'
      BY <2>1 DEF Inv, CapOK
    <3> QED
      BY <3>1, <3>2, <3>3
  <2>5. SelectionOK' /\ RunsOK' /\ OutputOK'
    BY <2>1, <2>2 DEF Inv, SelectionOK, RunsOK, OutputOK
  <2> QED
    BY <2>3, <2>4, <2>5 DEF Inv
<1>2. CASE Main
  <2>1. ASSUME MaterializeVideo
        PROVE  Inv'
    <3>1. MaterializeNext("video", Here("video"), IF hasAudio THEN "file audio" ELSE "remux")
      BY <2>1 DEF MaterializeVideo, Here
    <3>2. (IF hasAudio THEN "file audio" ELSE "remux") \in Then("video") /\ "video" \in Tracks
      BY DEF Then, Tracks
    <3> QED
      BY <3>1, <3>2, MaterializeNextKeeps
  <2>2. ASSUME MaterializeAudio
        PROVE  Inv'
    <3>1. MaterializeNext("audio", Here("audio"), "remux")
      BY <2>2 DEF MaterializeAudio, Here
    <3>2. "remux" \in Then("audio") /\ "audio" \in Tracks
      BY DEF Then, Tracks
    <3> QED
      BY <3>1, <3>2, MaterializeNextKeeps
  <2> QED
    BY <1>2, <2>1, <2>2, FollowMasterKeeps, ResolveFileKeeps, ResolveWindowKeeps,
       RemuxFileKeeps, FetchInitKeeps, CollectKeeps, DropKeeps, DrainedKeeps, CollectedKeeps,
       ResolveAudioKeeps, RefreshKeeps, CutRunsKeeps, RemuxRunKeeps, ConcatKeeps, ProbeKeeps,
       RenameKeeps, TidyKeeps, UnwindKeeps DEF Main
<1>3. CASE Worker \/ Publish \/ Cancel \/ Over
  BY <1>1, <1>3, WorkerKeeps, PublishKeeps, CancelKeeps DEF Over
<1> QED
  BY <1>1, <1>2, <1>3 DEF Next

-----------------------------------------------------------------------------
\* The results.

\* The inductive invariant: what is listed and selected, whose jobs run, how much
\* was counted, what the runs and the output consist of, as long as a download
\* (download_hls, download_hls_window) takes.
THEOREM Invariance == Spec => []Inv
<1>1. Init => Inv
  BY InitInv
<1>2. Inv /\ [Next]_vars => Inv'
  BY NextKeeps
<1> QED
  BY <1>1, <1>2, PTL DEF Spec

\* The types of the state, for streams of any length and any number of threads.
THEOREM TypeCorrect == Spec => []TypeOK
<1>1. Inv => TypeOK
  BY DEF Inv
<1> QED
  BY <1>1, Invariance, PTL

\* A live window is delivered in order, without repeats and but for its gaps, in
\* continuous runs (download_hls_window).
THEOREM WindowDelivered == Spec => []WindowIsDelivered
<1>1. Inv => WindowIsDelivered
  <2> SUFFICES ASSUME Inv, pc = "done", ~finite
      PROVE  /\ InOrder(output.segments)
             /\ ToSet(output.segments) = ToSet(selected) \ Gaps
             /\ \A i \in DOMAIN runs : \A k \in 2 .. Len(runs[i]) :
                  runs[i][k] = runs[i][k - 1] + 1 /\ runs[i][k] \notin Breaks
    BY DEF WindowIsDelivered, Live
  <2>1. InOrder(output.segments) /\ ToSet(output.segments) = ToSet(selected) \ Gaps
    BY DEF Inv, OutputOK
  <2>2. Cut(runs, ToSet(selected) \ Gaps)
    BY DEF Inv, RunsOK
  <2>3. \A i \in DOMAIN runs : Continuous(runs[i])
    BY <2>2 DEF Cut
  <2> QED
    BY <2>1, <2>3 DEF Continuous
<1> QED
  BY <1>1, Invariance, PTL

\* What is delivered is no larger than the cap and has no more gaps than allowed
\* (_ByteCounter, _enforce_gap_limits).
THEOREM LimitsKept == Spec => []LimitsAreKept
<1>1. Inv => LimitsAreKept
  BY DEF Inv, CapOK, RunsOK, LimitsAreKept, Batches
<1> QED
  BY <1>1, Invariance, PTL

\* No file and no writing thread is left when the download is over (the finally
\* clauses of download_hls, _download_segment_batch).
THEOREM NothingLeft == Spec => []NothingLeftBehind
<1>1. Inv => NothingLeftBehind
  <2> SUFFICES ASSUME Inv
      PROVE  NothingLeftBehind
    OBVIOUS
  <2>1. pc \in {"unwind", "tidy", "done", "failed"} => Running = {}
    BY DEF Inv, PoolOK, Awaited, Batches, Running
  <2> QED
    BY <2>1 DEF NothingLeftBehind, Inv, OutputOK
<1> QED
  BY <1>1, Invariance, PTL
=============================================================================
