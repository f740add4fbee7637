-------------------------- MODULE FairQueueProofs --------------------------
(***************************************************************************)
(* What FAIR_ENQUEUE_LUA keeps of fair queueing for every number of lanes, *)
(* jobs and retries.                                                       *)
(*                                                                         *)
(* Everything rests on two facts about one insert.  A round is zero        *)
(* exactly where no earlier entry has the same lane, so entries at round   *)
(* zero are never passed by a new one; and the index arithmetic puts the   *)
(* new entry at the physical place that the service position names,        *)
(* provided no job is on the list twice, which is why uniqueness is part   *)
(* of the invariant.                                                       *)
(***************************************************************************)
EXTENDS FairQueue, TLAPS, FiniteSetTheorems, SequenceTheorems,
        WellFoundedInduction

-----------------------------------------------------------------------------
(* The least element *)

LEMMA LeastProperties ==
  ASSUME NEW S \in SUBSET Nat, S # {}
  PROVE  Least(S) \in S /\ \A k \in S : Least(S) <= k
<1> DEFINE R == {p \in Nat \X Nat : p[1] < p[2]}
<1>1. IsWellFoundedOn(R, Nat)
  BY NatLessThanWellFounded DEF OpToRel
<1>2. PICK x \in S : \A y \in S : ~ (<<y, x>> \in R)
  <2> HIDE DEF R
  <2> QED
    BY <1>1, WFMin
<1>3. ASSUME NEW y \in S PROVE x <= y
  <2>1. x \in Nat /\ y \in Nat
    OBVIOUS
  <2>2. <<y, x>> \notin R
    BY <1>2
  <2>3. ~ (y < x)
    BY <2>1, <2>2
  <2> QED
    BY <2>1, <2>3
<1> QED
  BY <1>3 DEF Least

-----------------------------------------------------------------------------
(* Rounds and the place of an insert *)

LEMMA LaneCountZero ==
  ASSUME NEW front \in Seq(Records), NEW i \in 1 .. Len(front) + 1, NEW lane
  PROVE  /\ LaneCount(front, i, lane) \in Nat
         /\ LaneCount(front, i, lane) = 0
              <=> \A k \in 1 .. i - 1 : front[k].lane # lane
<1> DEFINE S == {k \in 1 .. i - 1 : front[k].lane = lane}
<1>1. IsFiniteSet(1 .. i - 1)
  BY FS_Interval
<1>2. IsFiniteSet(S)
  BY <1>1, FS_Subset
<1>3. Cardinality(S) \in Nat /\ (Cardinality(S) = 0 <=> S = {})
  BY <1>2, FS_CardinalityType, FS_EmptySet
<1> QED
  BY <1>3 DEF LaneCount

LEMMA InsertPointProperties ==
  ASSUME NEW front \in Seq(Records), NEW lane \in Lanes
  PROVE  /\ InsertPoint(front, lane) \in 1 .. Len(front) + 1
         /\ \A i \in 1 .. Len(front) :
              i < InsertPoint(front, lane)
                => RoundOf(front, i) <= NewRound(front, lane)
         /\ InsertPoint(front, lane) <= Len(front)
              => /\ RoundOf(front, InsertPoint(front, lane))
                      > NewRound(front, lane)
                 /\ RoundOf(front, InsertPoint(front, lane)) > 0
<1> DEFINE S == LaterRounds(front, lane) \cup {Len(front) + 1}
           ip == InsertPoint(front, lane)
<1>1. NewRound(front, lane) \in Nat
  BY LaneCountZero DEF NewRound
<1>2. \A i \in 1 .. Len(front) : RoundOf(front, i) \in Nat
  BY LaneCountZero DEF RoundOf
<1>3. S \in SUBSET (1 .. Len(front) + 1) /\ S # {}
  BY DEF LaterRounds
<1>4. S \in SUBSET Nat
  BY <1>3
<1>5. ip \in S /\ \A k \in S : ip <= k
  BY <1>3, <1>4, LeastProperties DEF InsertPoint
<1>6. ip \in 1 .. Len(front) + 1
  BY <1>3, <1>5
<1>7. ASSUME NEW i \in 1 .. Len(front), i < ip
      PROVE  RoundOf(front, i) <= NewRound(front, lane)
  <2>1. i \notin LaterRounds(front, lane)
    BY <1>5, <1>6, <1>7
  <2>2. ~ (RoundOf(front, i) > NewRound(front, lane))
    BY <2>1 DEF LaterRounds
  <2> QED
    BY <2>2, <1>1, <1>2
<1>8. ASSUME ip <= Len(front)
      PROVE  RoundOf(front, ip) > NewRound(front, lane) /\ RoundOf(front, ip) > 0
  <2>1. ip \in LaterRounds(front, lane)
    BY <1>5, <1>8
  <2>2. ip \in 1 .. Len(front) /\ RoundOf(front, ip) > NewRound(front, lane)
    BY <2>1 DEF LaterRounds
  <2> QED
    BY <2>2, <1>1, <1>2
<1> QED
  BY <1>6, <1>7, <1>8

LEMMA ServiceProperties ==
  ASSUME NEW raw \in Seq(Records)
  PROVE  /\ Service(raw) \in Seq(Records)
         /\ Len(Service(raw)) = Len(raw)
         /\ \A i \in 1 .. Len(raw) : Service(raw)[i] = raw[Len(raw) - i + 1]
<1> DEFINE n == Len(raw)
<1>1. n \in Nat
  OBVIOUS
<1>2. Service(raw) = [i \in 1 .. n |-> raw[(n - i) + 1]]
  BY DEF Service, Reverse
<1>3. \A i \in 1 .. n : raw[(n - i) + 1] \in Records
  OBVIOUS
<1> QED
  BY <1>1, <1>2, <1>3

\* The position of a queue's front is never taken: its round is zero.
LEMMA BehindTheFront ==
  ASSUME NEW front \in Seq(Records), front # <<>>, NEW lane \in Lanes
  PROVE  InsertPoint(front, lane) >= 2
<1>1. Len(front) \in Nat /\ Len(front) >= 1
  BY EmptySeq
<1>2. RoundOf(front, 1) = 0
  BY <1>1, LaneCountZero DEF RoundOf
<1> QED
  BY <1>1, <1>2, InsertPointProperties

NoJobTwice(raw) ==
  \A i, k \in 1 .. Len(raw) : raw[i].job = raw[k].job => i = k

LEMMA PushProperties ==
  ASSUME NEW raw \in Seq(Records), NEW e \in Records
  PROVE  /\ LPush(raw, e) \in Seq(Records)
         /\ Len(LPush(raw, e)) = Len(raw) + 1
         /\ \A i \in 1 .. Len(raw) + 1 :
              LPush(raw, e)[i] = IF i = 1 THEN e ELSE raw[i - 1]
<1>1. <<e>> \in Seq(Records) /\ Len(<<e>>) = 1 /\ <<e>>[1] = e
  OBVIOUS
<1>2. Len(raw) \in Nat
  OBVIOUS
<1> QED
  BY <1>1, <1>2, ConcatProperties DEF LPush

LEMMA LInsertProperties ==
  ASSUME NEW raw \in Seq(Records), NoJobTwice(raw), NEW e \in Records,
         NEW p \in 1 .. Len(raw)
  PROVE  /\ LInsert(raw, raw[p], e) \in Seq(Records)
         /\ Len(LInsert(raw, raw[p], e)) = Len(raw) + 1
         /\ \A i \in 1 .. Len(raw) + 1 :
              LInsert(raw, raw[p], e)[i] = IF i < p THEN raw[i]
                                           ELSE IF i = p THEN e ELSE raw[i - 1]
<1> DEFINE S == {i \in 1 .. Len(raw) : raw[i] = raw[p]}
           ahead == SubSeq(raw, 1, p - 1)
           behind == SubSeq(raw, p, Len(raw))
<1>1. Len(raw) \in Nat /\ p \in Nat
  OBVIOUS
<1>2. Least(S) = p
  <2>1. S = {p}
    BY DEF NoJobTwice
  <2>2. {p} \in SUBSET Nat /\ {p} # {}
    OBVIOUS
  <2> QED
    BY <2>1, <2>2, LeastProperties
<1>3. LInsert(raw, raw[p], e) = (ahead \o <<e>>) \o behind
  BY <1>2 DEF LInsert, InsertAt
<1>4. /\ ahead \in Seq(Records)
      /\ Len(ahead) = p - 1
      /\ \A i \in 1 .. p - 1 : ahead[i] = raw[i]
  BY <1>1, SubSeqProperties
<1>5. /\ behind \in Seq(Records)
      /\ Len(behind) = Len(raw) - p + 1
      /\ \A i \in 1 .. Len(raw) - p + 1 : behind[i] = raw[p + i - 1]
  BY <1>1, SubSeqProperties
<1>6. <<e>> \in Seq(Records) /\ Len(<<e>>) = 1 /\ <<e>>[1] = e
  OBVIOUS
<1> DEFINE front == ahead \o <<e>>
<1> HIDE DEF ahead, behind
<1>7. /\ front \in Seq(Records)
      /\ Len(front) = p
      /\ \A i \in 1 .. p : front[i] = IF i < p THEN raw[i] ELSE e
  BY <1>1, <1>4, <1>6, ConcatProperties
<1> HIDE DEF front
<1>8. /\ front \o behind \in Seq(Records)
      /\ Len(front \o behind) = Len(raw) + 1
      /\ \A i \in 1 .. Len(raw) + 1 :
           (front \o behind)[i] = IF i <= p THEN front[i] ELSE behind[i - p]
  <2>1. /\ front \o behind \in Seq(Records)
        /\ Len(front \o behind) = Len(front) + Len(behind)
        /\ \A i \in 1 .. Len(front) + Len(behind) :
             (front \o behind)[i] = IF i <= Len(front) THEN front[i]
                                     ELSE behind[i - Len(front)]
    BY <1>5, <1>7, ConcatProperties
  <2>2. Len(front) = p /\ Len(front) + Len(behind) = Len(raw) + 1
    BY <1>1, <1>5, <1>7
  <2> QED
    BY <2>1, <2>2
<1>9. ASSUME NEW i \in 1 .. Len(raw) + 1
      PROVE  (front \o behind)[i] = IF i < p THEN raw[i]
                                    ELSE IF i = p THEN e ELSE raw[i - 1]
  <2>1. CASE i <= p
    BY <1>1, <1>7, <1>8, <2>1
  <2>2. CASE i > p
    <3>1. i - p \in 1 .. Len(raw) - p + 1 /\ p + (i - p) - 1 = i - 1
      BY <1>1, <2>2
    <3>2. behind[i - p] = raw[i - 1]
      BY <1>5, <3>1
    <3>3. (front \o behind)[i] = behind[i - p]
      BY <1>1, <1>8, <2>2
    <3>4. ~ (i < p) /\ i # p
      BY <1>1, <2>2
    <3> QED
      BY <3>2, <3>3, <3>4
  <2>3. i <= p \/ i > p
    BY <1>1
  <2> QED
    BY <2>1, <2>2, <2>3
<1> QED
  BY <1>3, <1>8, <1>9 DEF front, ahead, behind

\* Whatever branch it takes, the script puts the new entry at the physical
\* index its service position names, and moves no other past another.
LEMMA PlaceProperties ==
  ASSUME NEW raw \in Seq(Records), NoJobTwice(raw), NEW e \in Records
  PROVE  LET p == Len(raw) - InsertPoint(Service(raw), e.lane) + 2 IN
         /\ p \in 1 .. Len(raw) + 1
         /\ raw # <<>> => p <= Len(raw)
         /\ Place(raw, e) \in Seq(Records)
         /\ Len(Place(raw, e)) = Len(raw) + 1
         /\ \A i \in 1 .. Len(raw) + 1 :
              Place(raw, e)[i] = IF i < p THEN raw[i]
                                 ELSE IF i = p THEN e ELSE raw[i - 1]
<1> DEFINE n == Len(raw)
           ip == InsertPoint(Service(raw), e.lane)
           at == n - ip + 1
<1>1. n \in Nat /\ e.lane \in Lanes
  BY DEF Records
<1>2. ip \in 1 .. n + 1
  BY <1>1, ServiceProperties, InsertPointProperties
<1>3. raw # <<>> => ip >= 2
  <2>1. raw # <<>> => Service(raw) # <<>>
    BY <1>1, ServiceProperties, EmptySeq
  <2> QED
    BY <1>1, <2>1, ServiceProperties, BehindTheFront
<1>4. raw = <<>> => n = 0
  BY EmptySeq
<1> DEFINE p == n - ip + 2
           Spliced(q) ==
             /\ q \in Seq(Records)
             /\ Len(q) = n + 1
             /\ \A i \in 1 .. n + 1 :
                  q[i] = IF i < p THEN raw[i] ELSE IF i = p THEN e ELSE raw[i - 1]
<1>5. p \in 1 .. n + 1 /\ (raw # <<>> => p <= n) /\ p = at + 1
  BY <1>1, <1>2, <1>3
<1>6. ASSUME at <= 0 PROVE Spliced(Place(raw, e))
  <2>1. Place(raw, e) = LPush(raw, e)
    BY <1>6 DEF Place
  <2>2. p = 1
    <3> HIDE DEF ip
    <3> QED
      BY <1>1, <1>2, <1>6
  <2> HIDE DEF p
  <2>3. \A i \in 1 .. n + 1 : ~ (i < p) /\ (i = p <=> i = 1)
    BY <1>1, <2>2
  <2>4. \A i \in 1 .. n + 1 :
          LPush(raw, e)[i] = IF i = 1 THEN e ELSE raw[i - 1]
    BY PushProperties
  <2>5. \A i \in 1 .. n + 1 :
          LPush(raw, e)[i] = IF i < p THEN raw[i]
                             ELSE IF i = p THEN e ELSE raw[i - 1]
    BY <2>3, <2>4
  <2> QED
    BY <2>1, <2>5, PushProperties
<1>7. ASSUME at > 0 PROVE Spliced(Place(raw, e))
  <2>1. p \in 1 .. n /\ at < n
    BY <1>1, <1>2, <1>3, <1>4, <1>5, <1>7
  <2>2. Place(raw, e) = LInsert(raw, raw[p], e)
    BY <1>1, <1>2, <1>5, <1>7, <2>1 DEF Place
  <2> HIDE DEF p
  <2> QED
    BY <2>1, <2>2, LInsertProperties
<1>8. Spliced(Place(raw, e))
  <2>1. at <= 0 \/ at > 0
    BY <1>1, <1>2
  <2> QED
    BY <1>6, <1>7, <2>1
<1> QED
  BY <1>5, <1>8

-----------------------------------------------------------------------------
(* The invariant *)

\* A job is in one place at most, and what the history says of a job it says
\* of one on the queue.
OnePlace ==
  /\ NoJobTwice(list)
  /\ \A e \in held : e.job \notin Queued
  /\ \A e, f \in held : e.job = f.job => e = f
  /\ \A e \in held : e.job <= submitted
  /\ \A j \in Queued : j <= submitted
  /\ first \subseteq Queued
  /\ \A j \in Jobs \ Queued : served[j] = 0

IInv == TypeOK /\ OnePlace /\ OneOfEachAhead /\ PlaceKept

LEMMA ListTypes ==
  ASSUME TypeOK
  PROVE  /\ list \in Seq(Records) /\ Len(list) \in Nat
         /\ \A i \in 1 .. Len(list) : /\ list[i] \in Records
                                      /\ list[i].job \in Jobs
                                      /\ list[i].job \in Queued
         /\ Queued \subseteq Jobs /\ Jobs \subseteq Nat /\ submitted \in Nat
<1>1. list \in Seq(Records) /\ Len(list) \in Nat
  BY DEF TypeOK
<1>2. \A i \in 1 .. Len(list) : list[i] \in Records
  BY <1>1
<1>3. \A e \in Records : e.job \in Jobs
  BY DEF Records
<1>4. Jobs \subseteq Nat /\ submitted \in Nat
  BY DepthAssumption DEF Jobs, TypeOK
<1> QED
  BY <1>1, <1>2, <1>3, <1>4 DEF Queued

\* The list is the old one with e spliced in at index p.
SplicedAt(p, e) ==
  /\ list' \in Seq(Records)
  /\ Len(list') = Len(list) + 1
  /\ \A i \in 1 .. Len(list) + 1 :
       list'[i] = IF i < p THEN list[i] ELSE IF i = p THEN e ELSE list[i - 1]

\* The index an entry of this lane is spliced in at.
SpliceIndex(lane) == Len(list) - InsertPoint(Service(list), lane) + 2

LEMMA EnqueueSplices ==
  ASSUME IInv, NEW e \in Records, Enqueue(e)
  PROVE  /\ SpliceIndex(e.lane) \in 1 .. Len(list) + 1
         /\ list # <<>> => SpliceIndex(e.lane) <= Len(list)
         /\ SplicedAt(SpliceIndex(e.lane), e)
<1>1. list \in Seq(Records) /\ NoJobTwice(list)
  BY DEF IInv, TypeOK, OnePlace
<1>2. list' = Place(list, e)
  BY DEF Enqueue
<1> QED
  BY <1>1, <1>2, PlaceProperties DEF SpliceIndex, SplicedAt

LEMMA SpliceQueued ==
  ASSUME IInv, NEW e \in Records, NEW p \in 1 .. Len(list) + 1,
         SplicedAt(p, e), e.job \notin Queued
  PROVE  Queued' = Queued \cup {e.job} /\ NoJobTwice(list')
<1> DEFINE n == Len(list)
<1>1. n \in Nat /\ p \in Nat /\ Len(list') = n + 1
  BY DEF IInv, TypeOK, SplicedAt
<1>2. \A i \in 1 .. n + 1 : /\ i < p => i \in 1 .. n /\ list'[i] = list[i]
                            /\ i = p => list'[i] = e
                            /\ i > p => i - 1 \in 1 .. n /\ list'[i] = list[i - 1]
  BY <1>1 DEF SplicedAt
<1>3. \A i \in 1 .. n : list[i].job \in Queued
  BY DEF Queued
<1>4. \A i \in 1 .. n + 1 : list'[i].job \in Queued \cup {e.job}
  BY <1>1, <1>2, <1>3
<1>5. e.job = list'[p].job
  BY <1>2
<1>6. ASSUME NEW i \in 1 .. n
      PROVE  \E k \in 1 .. n + 1 : list'[k].job = list[i].job
  <2>1. CASE i < p
    BY <1>1, <1>2, <2>1
  <2>2. CASE i >= p
    <3>1. i + 1 \in 1 .. n + 1 /\ i + 1 > p /\ (i + 1) - 1 = i
      BY <1>1, <2>2
    <3> QED
      BY <1>2, <3>1
  <2> QED
    BY <1>1, <2>1, <2>2
<1>7. Queued' = {list'[i].job : i \in 1 .. n + 1}
  BY <1>1 DEF Queued
<1>8. Queued' = Queued \cup {e.job}
  <2>1. Queued' \subseteq Queued \cup {e.job}
    BY <1>4, <1>7
  <2>2. e.job \in Queued'
    BY <1>5, <1>7
  <2>3. ASSUME NEW j \in Queued PROVE j \in Queued'
    <3>1. PICK i \in 1 .. n : list[i].job = j
      BY DEF Queued
    <3> QED
      BY <1>6, <1>7, <3>1
  <2> QED
    BY <2>1, <2>2, <2>3
<1>9. ASSUME NEW i \in 1 .. n + 1, NEW k \in 1 .. n + 1,
             list'[i].job = list'[k].job
      PROVE  i = k
  <2>1. \A a, b \in 1 .. n : list[a].job = list[b].job => a = b
    BY DEF IInv, OnePlace, NoJobTwice
  <2>2. i = p <=> k = p
    BY <1>1, <1>2, <1>3, <1>9
  <2>3. CASE i = p
    BY <2>2, <2>3
  <2>4. CASE i # p
    <3>1. CASE i < p /\ k < p
      BY <1>2, <1>9, <2>1, <3>1
    <3>2. CASE i < p /\ k > p
      <4>1. i = k - 1
        BY <1>2, <1>9, <2>1, <3>2
      <4> QED
        BY <1>1, <3>2, <4>1
    <3>3. CASE i > p /\ k < p
      <4>1. i - 1 = k
        BY <1>2, <1>9, <2>1, <3>3
      <4> QED
        BY <1>1, <3>3, <4>1
    <3>4. CASE i > p /\ k > p
      <4>1. i - 1 = k - 1
        BY <1>2, <1>9, <2>1, <3>4
      <4> QED
        BY <1>1, <4>1
    <3> QED
      BY <1>1, <2>2, <2>4, <3>1, <3>2, <3>3, <3>4
  <2> QED
    BY <2>3, <2>4
<1> QED
  BY <1>1, <1>8, <1>9 DEF NoJobTwice

\* An entry whose lane was empty is never passed: everything up to it is at
\* round zero.
LEMMA FirstNotPassed ==
  ASSUME IInv, NEW lane \in Lanes, NEW i \in 1 .. Len(list),
         list[i].job \in first
  PROVE  SpliceIndex(lane) <= i
<1> DEFINE n == Len(list)
           front == Service(list)
           ip == InsertPoint(front, lane)
<1>1. list \in Seq(Records) /\ n \in Nat
  BY DEF IInv, TypeOK
<1>2. /\ front \in Seq(Records)
      /\ Len(front) = n
      /\ \A k \in 1 .. n : front[k] = list[n - k + 1]
  BY <1>1, ServiceProperties
<1> HIDE DEF front
<1>3. /\ ip \in 1 .. n + 1
      /\ ip <= n => RoundOf(front, ip) > 0
  BY <1>2, InsertPointProperties
<1> HIDE DEF ip
<1>4. SUFFICES ASSUME n - ip + 2 > i PROVE FALSE
  BY <1>1, <1>3 DEF SpliceIndex, ip, front
<1>5. ip \in 1 .. n /\ n - ip + 1 \in i .. n
  BY <1>1, <1>3, <1>4
<1>6. PICK k \in 1 .. ip - 1 : front[k].lane = front[ip].lane
  <2> DEFINE l == front[ip].lane
  <2>1. LaneCount(front, ip, l) # 0
    BY <1>3, <1>5 DEF RoundOf
  <2>2. ip \in 1 .. Len(front) + 1
    BY <1>2, <1>3
  <2> HIDE DEF l
  <2>3. ~ \A k \in 1 .. ip - 1 : front[k].lane # l
    BY <1>2, <2>1, <2>2, LaneCountZero
  <2> QED
    BY <2>3 DEF l
<1>7. k \in 1 .. n /\ n - k + 1 \in i .. n /\ n - k + 1 # n - ip + 1
  BY <1>1, <1>5, <1>6
<1>8. list[n - k + 1].lane = list[n - ip + 1].lane
  BY <1>2, <1>5, <1>6, <1>7
<1> QED
  BY <1>5, <1>7, <1>8 DEF IInv, OneOfEachAhead

\* An entry whose lane is empty joins behind entries at round zero only.
LEMMA FirstJoinsAlone ==
  ASSUME IInv, NEW lane \in Lanes, NewRound(Service(list), lane) = 0
  PROVE  /\ \A k \in 1 .. Len(list) : list[k].lane # lane
         /\ \A k, m \in 1 .. Len(list) :
              /\ SpliceIndex(lane) <= k
              /\ SpliceIndex(lane) <= m
              /\ list[k].lane = list[m].lane
              => k = m
<1> DEFINE n == Len(list)
           front == Service(list)
           ip == InsertPoint(front, lane)
<1>1. list \in Seq(Records) /\ n \in Nat
  BY DEF IInv, TypeOK
<1>2. /\ front \in Seq(Records)
      /\ Len(front) = n
      /\ \A k \in 1 .. n : front[k] = list[n - k + 1]
  BY <1>1, ServiceProperties
<1>3. LaneCount(front, n + 1, lane) = 0
  BY <1>2 DEF NewRound
<1> HIDE DEF front
<1>4. /\ ip \in 1 .. n + 1
      /\ \A k \in 1 .. n : k < ip => RoundOf(front, k) <= NewRound(front, lane)
  BY <1>2, InsertPointProperties
<1> HIDE DEF ip
<1>5. SpliceIndex(lane) = n - ip + 2
  BY DEF SpliceIndex, ip, front
<1>6. ASSUME NEW k \in 1 .. n PROVE list[k].lane # lane
  <2>1. n - k + 1 \in 1 .. n /\ n - (n - k + 1) + 1 = k
    BY <1>1
  <2>2. front[n - k + 1].lane # lane
    BY <1>1, <1>2, <1>3, <2>1, LaneCountZero
  <2> QED
    BY <1>2, <2>1, <2>2
<1>7. ASSUME NEW k \in 1 .. n, NEW m \in 1 .. n, SpliceIndex(lane) <= k,
             k < m
      PROVE  list[k].lane # list[m].lane
  <2> DEFINE f == n - k + 1
             g == n - m + 1
  <2>1. f \in 1 .. n /\ g \in 1 .. f - 1 /\ f < ip /\ n - f + 1 = k /\ n - g + 1 = m
    BY <1>1, <1>4, <1>5, <1>7
  <2>2. g \in 1 .. n
    BY <1>1, <2>1
  <2> HIDE DEF f, g
  <2> DEFINE l == front[f].lane
  <2>3. NewRound(front, lane) = 0 /\ LaneCount(front, f, l) <= NewRound(front, lane)
    BY <1>2, <1>3, <1>4, <2>1 DEF NewRound, RoundOf
  <2>4. f \in 1 .. Len(front) + 1
    BY <1>2, <2>1
  <2> HIDE DEF l
  <2>5. LaneCount(front, f, l) \in Nat
    BY <1>2, <2>4, LaneCountZero
  <2>6. LaneCount(front, f, l) = 0
    BY <2>3, <2>5
  <2>7. \A q \in 1 .. f - 1 : front[q].lane # l
    BY <1>2, <2>4, <2>6, LaneCountZero
  <2>8. front[g].lane # l
    BY <2>1, <2>7
  <2> QED
    BY <1>2, <2>1, <2>2, <2>8 DEF l
<1>8. ASSUME NEW k \in 1 .. n, NEW m \in 1 .. n, SpliceIndex(lane) <= k,
             SpliceIndex(lane) <= m, list[k].lane = list[m].lane
      PROVE  k = m
  <2>1. ~ (k < m) /\ ~ (m < k)
    BY <1>7, <1>8
  <2> QED
    BY <1>1, <2>1
<1> QED
  BY <1>6, <1>8

-----------------------------------------------------------------------------
(* An insert *)

LEMMA EnqueueTypes ==
  ASSUME IInv, NEW e \in Records, Enqueue(e), submitted' \in 0 .. MaxJobs,
         held' \subseteq Records
  PROVE  TypeOK'
<1>1. /\ told \in [Jobs -> Nat]
      /\ served \in [Jobs -> Nat]
      /\ first \subseteq Jobs
      /\ list \in Seq(Records)
  BY DEF IInv, TypeOK
<1>2. list' \in Seq(Records)
  BY EnqueueSplices DEF SplicedAt
<1>3. e.job \in Jobs /\ e.lane \in Lanes
  BY DEF Records
<1>4. InsertPoint(Service(list), e.lane) - 1 \in Nat
  <2> DEFINE front == Service(list)
  <2>1. front \in Seq(Records) /\ Len(front) \in Nat
    BY <1>1, ServiceProperties
  <2> HIDE DEF front
  <2>2. InsertPoint(front, e.lane) \in 1 .. Len(front) + 1
    BY <1>3, <2>1, InsertPointProperties
  <2> QED
    BY <2>1, <2>2 DEF front
<1>5. told' \in [Jobs -> Nat]
  BY <1>1, <1>4 DEF Enqueue
<1>6. served' \in [Jobs -> Nat] /\ first' \subseteq Jobs
  BY <1>1, <1>3 DEF Enqueue
<1> QED
  BY <1>2, <1>5, <1>6 DEF TypeOK

\* What an insert does to an entry already queued and to the new one.
LEMMA EnqueueMoves ==
  ASSUME IInv, NEW e \in Records, Enqueue(e), e.job \notin Queued
  PROVE  LET n == Len(list)
             p == SpliceIndex(e.lane)
         IN  /\ n \in Nat /\ p \in 1 .. n + 1 /\ Len(list') = n + 1
             /\ list'[p] = e
             /\ told'[e.job] = n - p + 1
             /\ served'[e.job] = 0
             /\ \A i \in 1 .. n + 1 : i < p => i \in 1 .. n /\ list'[i] = list[i]
             /\ \A i \in 1 .. n + 1 :
                  i > p => i - 1 \in 1 .. n /\ list'[i] = list[i - 1]
             /\ \A i \in 1 .. n : /\ list[i].job # e.job
                                  /\ told'[list[i].job] = told[list[i].job]
                                  /\ served'[list[i].job] = served[list[i].job]
                                  /\ list[i].job \in first' <=> list[i].job \in first
             /\ e.job \in first' => NewRound(Service(list), e.lane) = 0
<1> DEFINE n == Len(list)
           p == SpliceIndex(e.lane)
           ip == InsertPoint(Service(list), e.lane)
<1>1. /\ told \in [Jobs -> Nat]
      /\ served \in [Jobs -> Nat]
      /\ list \in Seq(Records)
      /\ n \in Nat
      /\ e.job \in Jobs
      /\ \A i \in 1 .. n : list[i].job \in Jobs
  BY ListTypes DEF IInv, TypeOK, Records
<1>2. p \in 1 .. n + 1 /\ SplicedAt(p, e)
  BY EnqueueSplices
<1>3. p = n - ip + 2
  BY DEF SpliceIndex
<1>4. \A i \in 1 .. n : list[i].job \in Queued
  BY DEF Queued
<1>5. \A i \in 1 .. n : list[i].job # e.job
  BY <1>4
<1>6. told'[e.job] = ip - 1 /\ served' = served /\ served[e.job] = 0
  BY <1>1 DEF Enqueue, IInv, OnePlace
<1>7. ip - 1 = n - p + 1
  <2>1. ip \in Int
    <3> DEFINE front == Service(list)
    <3>1. front \in Seq(Records) /\ Len(front) \in Nat
      BY <1>1, ServiceProperties
    <3>2. e.lane \in Lanes
      BY DEF Records
    <3> HIDE DEF front
    <3>3. InsertPoint(front, e.lane) \in 1 .. Len(front) + 1
      BY <3>1, <3>2, InsertPointProperties
    <3> QED
      BY <3>1, <3>3 DEF front
  <2> HIDE DEF ip, p
  <2> QED
    BY <1>1, <1>3, <2>1
<1>8. \A i \in 1 .. n : told'[list[i].job] = told[list[i].job]
  BY <1>1, <1>5 DEF Enqueue
<1>9. \A i \in 1 .. n : list[i].job \in first' <=> list[i].job \in first
  BY <1>5 DEF Enqueue
<1>10. e.job \in first' => NewRound(Service(list), e.lane) = 0
  BY DEF Enqueue, IInv, OnePlace
<1> HIDE DEF p, ip
<1>11. /\ Len(list') = n + 1
       /\ list'[p] = e
       /\ \A i \in 1 .. n + 1 : i < p => i \in 1 .. n /\ list'[i] = list[i]
       /\ \A i \in 1 .. n + 1 :
            i > p => i - 1 \in 1 .. n /\ list'[i] = list[i - 1]
  BY <1>1, <1>2 DEF SplicedAt
<1> QED
  BY <1>1, <1>2, <1>5, <1>6, <1>7, <1>8, <1>9, <1>10, <1>11 DEF p

LEMMA EnqueueOnePlace ==
  ASSUME IInv, NEW e \in Records, Enqueue(e), e.job \notin Queued,
         held' \subseteq held, e.job \notin {f.job : f \in held'},
         submitted' \in Nat, submitted <= submitted', e.job <= submitted'
  PROVE  OnePlace'
<1>1. Queued' = Queued \cup {e.job} /\ NoJobTwice(list')
  BY EnqueueSplices, SpliceQueued
<1>2. /\ submitted \in Nat
      /\ Queued \subseteq Nat
      /\ held \subseteq Records
      /\ \A f \in Records : f.job \in Nat
  BY ListTypes DEF IInv, TypeOK, Records
<1>3. ASSUME NEW j \in Queued PROVE j <= submitted'
  <2>1. j <= submitted /\ j \in Nat
    BY <1>2 DEF IInv, OnePlace
  <2> QED
    BY <1>2, <2>1
<1>4. ASSUME NEW f \in held' PROVE f.job <= submitted'
  <2>1. f.job <= submitted /\ f.job \in Nat
    BY <1>2 DEF IInv, OnePlace
  <2> QED
    BY <1>2, <2>1
<1>5. \A f \in held' : f.job \notin Queued'
  BY <1>1 DEF IInv, OnePlace
<1>6. first' \subseteq Queued'
  BY <1>1 DEF IInv, OnePlace, Enqueue
<1>7. \A j \in Jobs \ Queued' : served'[j] = 0
  BY <1>1 DEF IInv, OnePlace, Enqueue
<1>8. \A f, g \in held' : f.job = g.job => f = g
  BY DEF IInv, OnePlace
<1> QED
  BY <1>1, <1>3, <1>4, <1>5, <1>6, <1>7, <1>8 DEF OnePlace

\* After an insert an entry that found its lane empty is the new one, or an
\* old one behind which the new one went.
LEMMA EnqueueBehindFirst ==
  ASSUME IInv, NEW e \in Records, Enqueue(e), e.job \notin Queued,
         NEW i \in 1 .. Len(list'), list'[i].job \in first'
  PROVE  \/ /\ i = SpliceIndex(e.lane)
            /\ NewRound(Service(list), e.lane) = 0
         \/ /\ i > SpliceIndex(e.lane)
            /\ list[i - 1].job \in first
<1> DEFINE n == Len(list)
           p == SpliceIndex(e.lane)
<1>1. n \in Nat /\ p \in 1 .. n + 1 /\ i \in 1 .. n + 1
  BY EnqueueMoves
<1>2. CASE i < p
  <2>1. i \in 1 .. n /\ list[i].job \in first
    BY <1>1, <1>2, EnqueueMoves
  <2>2. p <= i
    BY <2>1, FirstNotPassed DEF Records
  <2> QED
    BY <1>1, <1>2, <2>2
<1>3. CASE i = p
  BY <1>3, EnqueueMoves
<1>4. CASE i > p
  BY <1>1, <1>4, EnqueueMoves
<1> QED
  BY <1>1, <1>2, <1>3, <1>4

LEMMA EnqueueAhead ==
  ASSUME IInv, NEW e \in Records, Enqueue(e), e.job \notin Queued
  PROVE  OneOfEachAhead'
<1> DEFINE n == Len(list)
           p == SpliceIndex(e.lane)
<1>1. n \in Nat /\ p \in 1 .. n + 1 /\ Len(list') = n + 1 /\ e.lane \in Lanes
  BY EnqueueMoves DEF Records
<1> SUFFICES ASSUME NEW i \in 1 .. n + 1, list'[i].job \in first',
                    NEW k \in i .. n + 1, NEW m \in i .. n + 1,
                    list'[k].lane = list'[m].lane
             PROVE  k = m
  BY <1>1 DEF OneOfEachAhead
<1>2. list'[p] = e
  BY EnqueueMoves
<1>3. \A a \in 1 .. n + 1 :
        a > p => a - 1 \in 1 .. n /\ list'[a] = list[a - 1]
  BY EnqueueMoves
<1>4. \/ i = p /\ NewRound(Service(list), e.lane) = 0
      \/ i > p /\ list[i - 1].job \in first
  BY <1>1, EnqueueBehindFirst
<1> HIDE DEF p
<1>5. CASE i = p /\ NewRound(Service(list), e.lane) = 0
  <2>1. \A a \in 1 .. n : list[a].lane # e.lane
    BY <1>1, <1>5, FirstJoinsAlone
  <2>2. \A a, b \in 1 .. n :
          p <= a /\ p <= b /\ list[a].lane = list[b].lane => a = b
    BY <1>1, <1>5, FirstJoinsAlone DEF p
  <2>3. k \in 1 .. n + 1 /\ m \in 1 .. n + 1 /\ k >= p /\ m >= p
    BY <1>1, <1>5
  <2>4. CASE k = p \/ m = p
    <3>1. ~ (k > p) /\ ~ (m > p)
      BY <1>1, <1>2, <1>3, <2>1, <2>3, <2>4
    <3> QED
      BY <1>1, <2>3, <3>1
  <2>5. CASE k > p /\ m > p
    <3>1. k - 1 \in 1 .. n /\ m - 1 \in 1 .. n /\ p <= k - 1 /\ p <= m - 1
      BY <1>1, <1>3, <2>3, <2>5
    <3>2. list[k - 1].lane = list[m - 1].lane
      BY <1>3, <2>3, <2>5
    <3>3. k - 1 = m - 1
      BY <2>2, <3>1, <3>2
    <3> QED
      BY <1>1, <2>3, <3>3
  <2> QED
    BY <1>1, <2>3, <2>4, <2>5
<1>6. CASE i > p /\ list[i - 1].job \in first
  <2>1. i - 1 \in 1 .. n /\ k - 1 \in i - 1 .. n /\ m - 1 \in i - 1 .. n
    BY <1>1, <1>6
  <2>2. list[k - 1].lane = list[m - 1].lane
    BY <1>1, <1>3, <1>6
  <2>3. k - 1 = m - 1
    BY <1>6, <2>1, <2>2 DEF IInv, OneOfEachAhead
  <2> QED
    BY <1>1, <2>3
<1> QED
  BY <1>4, <1>5, <1>6

LEMMA EnqueueKeepsPlace ==
  ASSUME IInv, NEW e \in Records, Enqueue(e), e.job \notin Queued
  PROVE  PlaceKept'
<1> DEFINE n == Len(list)
           p == SpliceIndex(e.lane)
<1>1. n \in Nat /\ p \in 1 .. n + 1 /\ Len(list') = n + 1
  BY EnqueueMoves
<1> SUFFICES ASSUME NEW i \in 1 .. n + 1, list'[i].job \in first'
             PROVE  told'[list'[i].job] = served'[list'[i].job] + (n + 1) - i
  BY <1>1 DEF PlaceKept
<1>2. \/ i = p
      \/ i > p /\ list[i - 1].job \in first
  BY <1>1, EnqueueBehindFirst
<1>3. CASE i = p
  <2>1. list'[p] = e /\ told'[e.job] = n - p + 1 /\ served'[e.job] = 0
    BY EnqueueMoves
  <2> HIDE DEF p
  <2> QED
    BY <1>1, <1>3, <2>1
<1>4. CASE i > p /\ list[i - 1].job \in first
  <2> DEFINE j == list[i - 1].job
  <2>1. i - 1 \in 1 .. n /\ list'[i] = list[i - 1]
    BY <1>4, EnqueueMoves
  <2>2. told'[j] = told[j] /\ served'[j] = served[j]
    BY <2>1, EnqueueMoves
  <2>3. told[j] = served[j] + n - (i - 1)
    BY <1>4, <2>1 DEF IInv, PlaceKept
  <2>4. served[j] \in Nat
    BY <2>1, ListTypes DEF IInv, TypeOK
  <2> HIDE DEF p, j
  <2>5. list'[i].job = j
    BY <2>1 DEF j
  <2> QED
    BY <1>1, <2>2, <2>3, <2>4, <2>5
<1> QED
  BY <1>2, <1>3, <1>4

LEMMA EnqueueKeepsIInv ==
  ASSUME IInv, NEW e \in Records, Enqueue(e), e.job \notin Queued,
         held' \subseteq held, e.job \notin {f.job : f \in held'},
         submitted' \in 0 .. MaxJobs, submitted <= submitted',
         e.job <= submitted'
  PROVE  IInv'
<1>1. TypeOK'
  BY EnqueueTypes DEF IInv, TypeOK
<1>2. OnePlace'
  BY EnqueueOnePlace
<1> QED
  BY <1>1, <1>2, EnqueueAhead, EnqueueKeepsPlace DEF IInv

LEMMA SubmitEnqueues ==
  ASSUME IInv, NEW lane \in Lanes, submitted < MaxJobs,
         submitted' = submitted + 1
  PROVE  LET e == [job |-> submitted', lane |-> lane, attempt |-> 0] IN
         /\ e \in Records
         /\ e.job \notin Queued
         /\ e.job \notin {f.job : f \in held}
         /\ submitted' \in 0 .. MaxJobs
         /\ submitted <= submitted'
<1>1. submitted \in Nat /\ MaxJobs \in Nat /\ MaxJobRetries \in Nat
  BY ListTypes, DepthAssumption DEF IInv
<1>2. submitted' \in Jobs /\ 0 \in 0 .. MaxJobRetries
  BY <1>1 DEF Jobs
<1>3. \A j \in Queued : j <= submitted
  BY DEF IInv, OnePlace
<1>4. \A f \in held : f.job <= submitted
  BY DEF IInv, OnePlace
<1> QED
  BY <1>1, <1>2, <1>3, <1>4 DEF Records

LEMMA RequeueEnqueues ==
  ASSUME IInv, NEW f \in held, f.attempt < MaxJobRetries
  PROVE  LET e == [f EXCEPT !.attempt = @ + 1] IN
         /\ e \in Records
         /\ e.job \notin Queued
         /\ e.job \notin {g.job : g \in held \ {f}}
         /\ e.job <= submitted
<1>1. f \in Records /\ MaxJobRetries \in Nat
  BY DepthAssumption DEF IInv, TypeOK
<1>2. f.attempt + 1 \in 0 .. MaxJobRetries
  BY <1>1 DEF Records
<1>3. [f EXCEPT !.attempt = @ + 1] \in Records
  BY <1>1, <1>2 DEF Records
<1>4. [f EXCEPT !.attempt = @ + 1].job = f.job
  BY <1>1 DEF Records
<1> QED
  BY <1>3, <1>4 DEF IInv, OnePlace

-----------------------------------------------------------------------------
(* The other steps *)

LEMMA PopShape ==
  ASSUME TypeOK, Pop
  PROVE  /\ list' \in Seq(Records)
         /\ Len(list) >= 1
         /\ Len(list') = Len(list) - 1
         /\ \A i \in 1 .. Len(list) - 1 : list'[i] = list[i]
<1> DEFINE n == Len(list)
           m == n - 1
<1>1. /\ list \in Seq(Records) /\ n \in Nat
      /\ \A i \in 1 .. n : list[i] \in Records
  BY ListTypes
<1>2. n >= 1
  BY <1>1, EmptySeq DEF Pop
<1>3. m \in Nat /\ \A i \in 1 .. m : list[i] \in Records
  BY <1>1, <1>2
<1>4. list' = SubSeq(list, 1, m)
  BY DEF Pop
<1> HIDE DEF m
<1>5. /\ SubSeq(list, 1, m) \in Seq(Records)
      /\ Len(SubSeq(list, 1, m)) = IF 1 <= m THEN m - 1 + 1 ELSE 0
      /\ \A i \in 1 .. m - 1 + 1 : SubSeq(list, 1, m)[i] = list[1 + i - 1]
  BY <1>3, SubSeqProperties
<1>6. /\ list' \in Seq(Records)
      /\ Len(list') = m
      /\ \A i \in 1 .. m : list'[i] = list[i]
  BY <1>3, <1>4, <1>5
<1> QED
  BY <1>2, <1>6 DEF m

LEMMA PopKeepsIInv ==
  ASSUME IInv, Pop
  PROVE  IInv'
<1> DEFINE n == Len(list)
           next == list[n]
<1>1. /\ list \in Seq(Records) /\ n \in Nat /\ n >= 1
      /\ next \in Records /\ next.job \in Jobs /\ next.job \in Queued
      /\ Queued \subseteq Jobs
      /\ \A i \in 1 .. n : list[i] \in Records /\ list[i].job \in Queued
  <2>1. n >= 1
    BY ListTypes, EmptySeq DEF Pop, IInv
  <2> QED
    BY <2>1, ListTypes DEF IInv
<1>2. /\ list' = SubSeq(list, 1, n - 1)
      /\ held' = held \cup {next}
      /\ told' = [told EXCEPT ![next.job] = 0]
      /\ served' = [j \in Jobs |->
                      IF j \in Queued \ {next.job} THEN served[j] + 1 ELSE 0]
      /\ first' = first \ {next.job}
      /\ submitted' = submitted
  BY DEF Pop
<1>3. /\ list' \in Seq(Records)
      /\ Len(list') = n - 1
      /\ \A i \in 1 .. n - 1 : list'[i] = list[i]
  BY PopShape DEF IInv
<1>4. /\ \A i, k \in 1 .. n : list[i].job = list[k].job => i = k
      /\ \A e \in held : e.job \notin Queued
      /\ \A e, f \in held : e.job = f.job => e = f
      /\ \A e \in held : e.job <= submitted
      /\ \A j \in Queued : j <= submitted
      /\ first \subseteq Queued
      /\ \A j \in Jobs \ Queued : served[j] = 0
  BY DEF IInv, OnePlace, NoJobTwice
<1> HIDE DEF next
<1>5. \A i \in 1 .. n - 1 : list[i].job # next.job
  BY <1>1, <1>4 DEF next
<1>6. Queued' = Queued \ {next.job}
  <2>1. Queued' = {list'[i].job : i \in 1 .. n - 1}
    BY <1>3 DEF Queued
  <2>2. Queued' \subseteq Queued \ {next.job}
    BY <1>1, <1>3, <1>5, <2>1
  <2>3. ASSUME NEW j \in Queued \ {next.job} PROVE j \in Queued'
    <3>1. PICK i \in 1 .. n : list[i].job = j
      BY DEF Queued
    <3>2. i \in 1 .. n - 1
      BY <1>1, <3>1 DEF next
    <3> QED
      BY <1>3, <2>1, <3>1, <3>2
  <2> QED
    BY <2>2, <2>3
<1>7. TypeOK'
  <2>1. told' \in [Jobs -> Nat] /\ served' \in [Jobs -> Nat]
    <3>1. told \in [Jobs -> Nat] /\ \A j \in Jobs : served[j] \in Nat
      BY DEF IInv, TypeOK
    <3>2. told' \in [Jobs -> Nat]
      BY <1>2, <3>1
    <3> QED
      BY <1>2, <3>1, <3>2
  <2>2. held' \subseteq Records /\ first' \subseteq Jobs /\ submitted' \in 0 .. MaxJobs
    BY <1>1, <1>2 DEF IInv, TypeOK
  <2> QED
    BY <1>3, <2>1, <2>2 DEF TypeOK
<1>8. OnePlace'
  <2>1. NoJobTwice(list')
    BY <1>1, <1>3, <1>4 DEF NoJobTwice
  <2>2. \A e \in held' : e.job \notin Queued'
    BY <1>2, <1>4, <1>6
  <2>3. \A e, f \in held' : e.job = f.job => e = f
    BY <1>1, <1>2, <1>4
  <2>4. /\ \A e \in held' : e.job <= submitted'
        /\ \A j \in Queued' : j <= submitted'
    BY <1>1, <1>2, <1>4, <1>6
  <2>5. first' \subseteq Queued'
    BY <1>2, <1>4, <1>6
  <2>6. \A j \in Jobs \ Queued' : served'[j] = 0
    BY <1>2, <1>6
  <2> QED
    BY <2>1, <2>2, <2>3, <2>4, <2>5, <2>6 DEF OnePlace
<1>9. OneOfEachAhead'
  <2> SUFFICES ASSUME NEW i \in 1 .. n - 1, list'[i].job \in first',
                      NEW k \in i .. n - 1, NEW m \in i .. n - 1,
                      list'[k].lane = list'[m].lane
               PROVE  k = m
    BY <1>3 DEF OneOfEachAhead
  <2>1. i \in 1 .. n /\ k \in i .. n /\ m \in i .. n
    BY <1>1
  <2>2. list[i].job \in first /\ list[k].lane = list[m].lane
    BY <1>1, <1>2, <1>3
  <2> QED
    BY <2>1, <2>2 DEF IInv, OneOfEachAhead
<1>10. PlaceKept'
  <2> SUFFICES ASSUME NEW i \in 1 .. n - 1, list'[i].job \in first'
               PROVE  told'[list'[i].job] = served'[list'[i].job] + (n - 1) - i
    BY <1>3 DEF PlaceKept
  <2> DEFINE j == list[i].job
  <2>1. list'[i].job = j /\ i \in 1 .. n /\ j \in first /\ j # next.job
    BY <1>1, <1>2, <1>3, <1>5
  <2>2. j \in Jobs /\ j \in Queued
    BY <1>1, <2>1
  <2>3. told'[j] = told[j] /\ served'[j] = served[j] + 1
    BY <1>2, <2>1, <2>2 DEF IInv, TypeOK
  <2>4. told[j] = served[j] + n - i /\ served[j] \in Nat
    BY <2>1, <2>2 DEF IInv, PlaceKept, TypeOK
  <2> HIDE DEF j
  <2> QED
    BY <1>1, <2>1, <2>3, <2>4
<1> QED
  BY <1>7, <1>8, <1>9, <1>10 DEF IInv

\* A step that touches neither the list nor what is remembered of it.
LEMMA ListLeftAlone ==
  ASSUME IInv, UNCHANGED <<list, told, served, first>>,
         held' \subseteq held, submitted' \in 0 .. MaxJobs,
         submitted <= submitted'
  PROVE  IInv'
<1>1. Queued' = Queued
  BY DEF Queued
<1>2. /\ submitted \in Nat /\ submitted' \in Nat
      /\ Queued \subseteq Nat
      /\ \A f \in held : f.job \in Nat
  BY ListTypes, DepthAssumption DEF IInv, TypeOK, Records
<1>3. TypeOK'
  BY DEF IInv, TypeOK
<1>4. ASSUME NEW f \in held PROVE f.job <= submitted'
  <2>1. f.job <= submitted
    BY DEF IInv, OnePlace
  <2> QED
    BY <1>2, <2>1
<1>5. ASSUME NEW j \in Queued PROVE j <= submitted'
  <2>1. j <= submitted
    BY DEF IInv, OnePlace
  <2> QED
    BY <1>2, <2>1
<1>6. OnePlace'
  BY <1>1, <1>4, <1>5 DEF IInv, OnePlace, NoJobTwice
<1> QED
  BY <1>3, <1>6 DEF IInv, OneOfEachAhead, PlaceKept

-----------------------------------------------------------------------------
(* The invariant holds, and what follows from it *)

LEMMA InitIInv == Init => IInv
<1> SUFFICES ASSUME Init PROVE IInv
  OBVIOUS
<1> USE DEF Init
<1>1. Len(list) = 0 /\ list \in Seq(Records) /\ 1 .. Len(list) = {}
  OBVIOUS
<1>2. Queued = {}
  BY <1>1 DEF Queued
<1>3. TypeOK
  BY <1>1, DepthAssumption DEF TypeOK
<1>4. OnePlace
  BY <1>1, <1>2 DEF OnePlace, NoJobTwice
<1> QED
  BY <1>1, <1>3, <1>4 DEF IInv, OneOfEachAhead, PlaceKept

LEMMA NextIInv == IInv /\ [Next]_vars => IInv'
<1> SUFFICES ASSUME IInv, [Next]_vars PROVE IInv'
  OBVIOUS
<1>0. submitted \in 0 .. MaxJobs /\ submitted \in Nat /\ MaxJobs \in Nat
  BY ListTypes, DepthAssumption DEF IInv, TypeOK
<1>1. ASSUME NEW lane \in Lanes, Submit(lane)
      PROVE  IInv'
  <2>1. submitted < MaxJobs /\ submitted' = submitted + 1 /\ held' = held
    BY <1>1 DEF Submit
  <2> DEFINE e == [job |-> submitted', lane |-> lane, attempt |-> 0]
  <2>2. CASE Enqueue(e)
    <3>1. /\ e \in Records /\ e.job \notin Queued
          /\ e.job \notin {f.job : f \in held}
          /\ submitted' \in 0 .. MaxJobs /\ submitted <= submitted'
      BY <2>1, SubmitEnqueues
    <3>2. e.job = submitted' /\ submitted' \in Nat
      BY <1>0, <2>1
    <3> HIDE DEF e
    <3> QED
      BY <2>1, <2>2, <3>1, <3>2, EnqueueKeepsIInv
  <2>3. CASE Full /\ UNCHANGED <<list, told, served, first>>
    <3>1. submitted' \in 0 .. MaxJobs /\ submitted <= submitted'
      BY <1>0, <2>1
    <3> QED
      BY <2>1, <2>3, <3>1, ListLeftAlone
  <2> QED
    BY <1>1, <2>2, <2>3 DEF Submit
<1>2. CASE Pop
  BY <1>2, PopKeepsIInv
<1>3. ASSUME NEW e \in held, Finish(e)
      PROVE  IInv'
  BY <1>0, <1>3, ListLeftAlone DEF Finish
<1>4. ASSUME NEW f \in held, Requeue(f)
      PROVE  IInv'
  <2> DEFINE e == [f EXCEPT !.attempt = @ + 1]
  <2>1. /\ Enqueue(e) /\ held' = held \ {f} /\ submitted' = submitted
        /\ f.attempt < MaxJobRetries
    BY <1>4 DEF Requeue
  <2>2. /\ e \in Records /\ e.job \notin Queued
        /\ e.job \notin {g.job : g \in held \ {f}} /\ e.job <= submitted
    BY <2>1, RequeueEnqueues
  <2> HIDE DEF e
  <2> QED
    BY <1>0, <2>1, <2>2, EnqueueKeepsIInv
<1>5. CASE UNCHANGED vars
  BY <1>0, <1>5, ListLeftAlone DEF vars
<1> QED
  BY <1>1, <1>2, <1>3, <1>4, <1>5 DEF Next

\* IInv holds throughout.
THEOREM Invariance == Spec => []IInv
  BY InitIInv, NextIInv, PTL DEF Spec

\* The list holds ordering records only, and no retry past MAX_JOB_RETRIES.
THEOREM TypeCorrect == Spec => []TypeOK
<1>1. IInv => TypeOK
  BY DEF IInv
<1> QED
  BY <1>1, Invariance, PTL

\* A job whose lane had nothing queued waits for at most one job of each other
\* lane, for any number of lanes and any batches in the queue.
THEOREM AtMostOneOfEachAhead == Spec => []OneOfEachAhead
<1>1. IInv => OneOfEachAhead
  BY DEF IInv
<1> QED
  BY <1>1, Invariance, PTL

\* Such a job is never overtaken: the "N ahead" its submitter was shown counts
\* down with the jobs served and nothing else.
THEOREM NeverOvertaken == Spec => []PlaceKept
<1>1. IInv => PlaceKept
  BY DEF IInv
<1> QED
  BY <1>1, Invariance, PTL

-----------------------------------------------------------------------------
(* What an insert may never do *)

LEMMA InsertIsEnqueue ==
  ASSUME IInv, [Next]_vars, Inserts
  PROVE  \E e \in Records : Enqueue(e) /\ e.job \notin Queued
<1>1. ASSUME NEW lane \in Lanes, Submit(lane)
      PROVE  \E e \in Records : Enqueue(e) /\ e.job \notin Queued
  <2>1. submitted < MaxJobs /\ submitted' = submitted + 1
    BY <1>1 DEF Submit
  <2>2. ~ UNCHANGED list
    BY DEF Inserts, Queued
  <2>3. Enqueue([job |-> submitted', lane |-> lane, attempt |-> 0])
    BY <1>1, <2>2 DEF Submit
  <2> QED
    BY <2>1, <2>3, SubmitEnqueues
<1>2. ASSUME NEW f \in held, Requeue(f)
      PROVE  \E e \in Records : Enqueue(e) /\ e.job \notin Queued
  BY <1>2, RequeueEnqueues DEF Requeue
<1>3. ASSUME Pop PROVE FALSE
  <2>1. Queued' \subseteq Queued
    <3>1. /\ Len(list) \in Nat
          /\ Len(list') = Len(list) - 1
          /\ \A i \in 1 .. Len(list) - 1 : list'[i] = list[i]
      BY <1>3, ListTypes, PopShape DEF IInv
    <3> QED
      BY <3>1 DEF Queued
  <2> QED
    BY <2>1 DEF Inserts
<1>4. ASSUME UNCHANGED list PROVE FALSE
  BY <1>4 DEF Inserts, Queued
<1> QED
  BY <1>1, <1>2, <1>3, <1>4 DEF Next, Finish, vars

\* No insert changes which job is served next: the branch the script calls
\* unreachable is.
THEOREM FrontNeverChanges == Spec => NextStaysNext
<1>1. ASSUME IInv, [Next]_vars, Inserts, list # <<>>
      PROVE  list'[Len(list')] = list[Len(list)]
  <2>1. PICK e \in Records : Enqueue(e) /\ e.job \notin Queued
    BY <1>1, InsertIsEnqueue
  <2> DEFINE n == Len(list)
             p == SpliceIndex(e.lane)
  <2>2. /\ n \in Nat /\ p \in 1 .. n + 1 /\ p <= n /\ Len(list') = n + 1
        /\ \A i \in 1 .. n + 1 : i > p => list'[i] = list[i - 1]
    BY <1>1, <2>1, EnqueueMoves, EnqueueSplices
  <2> HIDE DEF p
  <2>3. n + 1 > p /\ n + 1 \in 1 .. n + 1 /\ (n + 1) - 1 = n
    BY <2>2
  <2>4. list'[n + 1] = list[(n + 1) - 1]
    BY <2>2, <2>3
  <2> QED
    BY <2>2, <2>3, <2>4
<1>2. IInv /\ [Next]_vars
        => [Inserts /\ list # <<>> => list'[Len(list')] = list[Len(list)]]_vars
  BY <1>1
<1> QED
  BY <1>2, Invariance, PTL DEF Spec, NextStaysNext

\* The position an insert reports is the number of jobs ahead of the new one.
THEOREM PositionIsTruthful == Spec => PositionTruthful
<1>1. ASSUME IInv, [Next]_vars, Inserts
      PROVE  told'[Service(list')[NewPlace].job] = NewPlace - 1
  <2>1. PICK e \in Records : Enqueue(e) /\ e.job \notin Queued
    BY <1>1, InsertIsEnqueue
  <2> DEFINE n == Len(list)
             p == SpliceIndex(e.lane)
             s == n - p + 2
  <2>2. /\ n \in Nat /\ p \in 1 .. n + 1 /\ Len(list') = n + 1
        /\ list'[p] = e
        /\ told'[e.job] = n - p + 1
        /\ list' \in Seq(Records)
    BY <1>1, <2>1, EnqueueMoves, EnqueueSplices DEF SplicedAt
  <2>3. /\ Queued' = Queued \cup {e.job}
        /\ NoJobTwice(list')
    BY <1>1, <2>1, <2>2, EnqueueSplices, SpliceQueued
  <2>4. \A i \in 1 .. n + 1 : Service(list')[i] = list'[n + 1 - i + 1]
    BY <2>2, ServiceProperties
  <2> HIDE DEF p
  <2>5. s \in 1 .. n + 1 /\ n + 1 - s + 1 = p
    BY <2>2
  <2>6. ASSUME NEW i \in 1 .. n + 1
        PROVE  Service(list')[i].job \notin Queued <=> i = s
    <3> DEFINE k == n + 1 - i + 1
    <3>1. k \in 1 .. n + 1 /\ (k = p <=> i = s)
      BY <2>2
    <3>2. list'[k].job \in Queued'
      BY <2>2, <3>1 DEF Queued
    <3>3. list'[k].job = e.job <=> k = p
      BY <2>2, <2>3, <3>1 DEF NoJobTwice
    <3> HIDE DEF k
    <3>4. Service(list')[i] = list'[k]
      BY <2>4 DEF k
    <3> QED
      BY <2>1, <2>3, <3>1, <3>2, <3>3, <3>4
  <2> HIDE DEF s
  <2>7. NewPlace = s
    BY <2>2, <2>5, <2>6 DEF NewPlace
  <2>8. Service(list')[s] = e
    BY <2>2, <2>4, <2>5
  <2> QED
    BY <2>2, <2>7, <2>8 DEF s
<1>2. IInv /\ [Next]_vars
        => [Inserts => told'[Service(list')[NewPlace].job] = NewPlace - 1]_vars
  BY <1>1
<1> QED
  BY <1>2, Invariance, PTL DEF Spec, PositionTruthful

\* An insert leaves every entry in the order it was in, and adds one.
THEOREM InsertsOnlySplice == Spec => OnlySplices
<1>1. ASSUME IInv, [Next]_vars, Inserts
      PROVE  Splices
  <2>1. PICK e \in Records : Enqueue(e) /\ e.job \notin Queued
    BY <1>1, InsertIsEnqueue
  <2> DEFINE n == Len(list)
             p == SpliceIndex(e.lane)
             ahead == SubSeq(list', 1, p - 1)
             behind == SubSeq(list', p + 1, n + 1)
  <2>2. /\ n \in Nat /\ p \in 1 .. n + 1 /\ Len(list') = n + 1
        /\ list'[p] = e
        /\ list \in Seq(Records) /\ list' \in Seq(Records)
        /\ \A i \in 1 .. n + 1 :
             list'[i] = IF i < p THEN list[i] ELSE IF i = p THEN e ELSE list[i - 1]
    BY <1>1, <2>1, EnqueueMoves, EnqueueSplices, ListTypes DEF SplicedAt, IInv
  <2> HIDE DEF p
  <2>3. /\ ahead \in Seq(Records)
        /\ Len(ahead) = p - 1
        /\ \A i \in 1 .. p - 1 : ahead[i] = list'[i]
    <3>1. \A i \in 1 .. p - 1 : list'[i] \in Records
      BY <2>2
    <3> QED
      BY <2>2, <3>1, SubSeqProperties
  <2>4. /\ behind \in Seq(Records)
        /\ Len(behind) = n + 1 - p
        /\ \A i \in 1 .. n + 1 - p : behind[i] = list'[p + i]
    <3>1. \A i \in p + 1 .. n + 1 : list'[i] \in Records
      BY <2>2
    <3> QED
      BY <2>2, <3>1, SubSeqProperties
  <2> HIDE DEF ahead, behind
  <2>5. /\ ahead \o behind \in Seq(Records)
        /\ Len(ahead \o behind) = n
        /\ \A i \in 1 .. n :
             (ahead \o behind)[i] = IF i <= p - 1 THEN ahead[i]
                                    ELSE behind[i - (p - 1)]
    <3>1. /\ ahead \o behind \in Seq(Records)
          /\ Len(ahead \o behind) = Len(ahead) + Len(behind)
          /\ \A i \in 1 .. Len(ahead) + Len(behind) :
               (ahead \o behind)[i] = IF i <= Len(ahead) THEN ahead[i]
                                      ELSE behind[i - Len(ahead)]
      BY <2>3, <2>4, ConcatProperties
    <3>2. Len(ahead) + Len(behind) = n /\ Len(ahead) = p - 1
      BY <2>2, <2>3, <2>4
    <3> QED
      BY <3>1, <3>2
  <2>6. ASSUME NEW i \in 1 .. n PROVE (ahead \o behind)[i] = list[i]
    <3>1. CASE i <= p - 1
      BY <2>2, <2>3, <2>5, <3>1
    <3>2. CASE i > p - 1
      <4>1. i - (p - 1) \in 1 .. n + 1 - p /\ p + (i - (p - 1)) = i + 1
        BY <2>2, <3>2
      <4>2. behind[i - (p - 1)] = list'[i + 1]
        BY <2>4, <4>1
      <4>3. i + 1 \in 1 .. n + 1 /\ i + 1 > p /\ (i + 1) - 1 = i
        BY <2>2, <3>2
      <4>4. list'[i + 1] = list[i]
        BY <2>2, <4>3
      <4>5. ~ (i <= p - 1)
        BY <2>2, <3>2
      <4> QED
        BY <2>5, <4>2, <4>4, <4>5
    <3>3. i <= p - 1 \/ i > p - 1
      BY <2>2
    <3> QED
      BY <3>1, <3>2, <3>3
  <2>7. list = ahead \o behind
    BY <2>2, <2>5, <2>6, SeqEqual
  <2>8. RemoveAt(list', p) = ahead \o behind
    BY <2>2 DEF RemoveAt, ahead, behind
  <2>9. p \in DOMAIN list' /\ list'[p].job \notin Queued
    BY <2>1, <2>2
  <2> QED
    BY <2>7, <2>8, <2>9 DEF Splices
<1>2. IInv /\ [Next]_vars => [Inserts => Splices]_vars
  BY <1>1
<1> QED
  BY <1>2, Invariance, PTL DEF Spec, OnlySplices

-----------------------------------------------------------------------------
(* The rounds after an insert, in service order.  An entry keeps its round  *)
(* unless one of its lane goes ahead of it, and when rounds are in order    *)
(* nobody of the new entry's lane is behind the place it takes.             *)

\* back is front with e joining at position s.
Joined(front, back, s, e) ==
  /\ back \in Seq(Records)
  /\ Len(back) = Len(front) + 1
  /\ \A i \in 1 .. Len(front) + 1 :
       back[i] = IF i < s THEN front[i] ELSE IF i = s THEN e ELSE front[i - 1]

InOrder(front) ==
  \A i, k \in 1 .. Len(front) : i < k => RoundOf(front, i) <= RoundOf(front, k)

\* Up to the new entry the counts are what they were.
LEMMA CountAhead ==
  ASSUME NEW front \in Seq(Records), NEW back, NEW e \in Records,
         NEW s \in 1 .. Len(front) + 1, Joined(front, back, s, e),
         NEW i \in 1 .. s, NEW lane
  PROVE  LaneCount(back, i, lane) = LaneCount(front, i, lane)
<1>1. Len(front) \in Nat
  OBVIOUS
<1>2. \A k \in 1 .. i - 1 : back[k] = front[k]
  BY <1>1 DEF Joined
<1>3. {k \in 1 .. i - 1 : back[k].lane = lane}
        = {k \in 1 .. i - 1 : front[k].lane = lane}
  BY <1>2
<1> QED
  BY <1>3 DEF LaneCount

\* Behind it, those of the other lanes are.
LEMMA CountBehind ==
  ASSUME NEW front \in Seq(Records), NEW back, NEW e \in Records,
         NEW s \in 1 .. Len(front) + 1, Joined(front, back, s, e),
         NEW i \in s + 1 .. Len(front) + 2, NEW lane, lane # e.lane
  PROVE  LaneCount(back, i, lane) = LaneCount(front, i - 1, lane)
<1> DEFINE A == {k \in 1 .. (i - 1) - 1 : front[k].lane = lane}
           B == {k \in 1 .. i - 1 : back[k].lane = lane}
           moved == [k \in A |-> IF k < s THEN k ELSE k + 1]
<1>1. Len(front) \in Nat /\ i \in Nat /\ s \in Nat
  OBVIOUS
<1>2. ASSUME NEW k \in A PROVE moved[k] \in B /\ k \in Nat
  <2>1. k \in 1 .. (i - 1) - 1 /\ k \in 1 .. Len(front) + 1
        /\ k + 1 \in 1 .. Len(front) + 1 /\ (k + 1) - 1 = k
    BY <1>1
  <2>2. CASE k < s
    <3>1. back[k] = front[k]
      BY <2>1, <2>2 DEF Joined
    <3> QED
      BY <1>1, <2>1, <2>2, <3>1
  <2>3. CASE ~ (k < s)
    <3>1. ~ (k + 1 < s) /\ k + 1 # s
      BY <1>1, <2>1, <2>3
    <3>2. back[k + 1] = front[k]
      BY <2>1, <3>1 DEF Joined
    <3> QED
      BY <1>1, <2>1, <2>3, <3>2
  <2> QED
    BY <2>1, <2>2, <2>3
<1>3. ASSUME NEW m \in B PROVE \E k \in A : moved[k] = m
  <2>1. m \in 1 .. i - 1 /\ m \in 1 .. Len(front) + 1
    BY <1>1
  <2>2. m # s
    BY <2>1 DEF Joined
  <2>3. CASE m < s
    <3>1. back[m] = front[m]
      BY <2>1, <2>3 DEF Joined
    <3>2. m \in A
      BY <1>1, <2>1, <2>3, <3>1
    <3> QED
      BY <2>3, <3>2
  <2>4. CASE m > s
    <3>1. ~ (m < s) /\ ~ (m - 1 < s) /\ m - 1 \in 1 .. (i - 1) - 1
          /\ (m - 1) + 1 = m
      BY <1>1, <2>1, <2>4
    <3>2. back[m] = front[m - 1]
      BY <2>1, <2>2, <3>1 DEF Joined
    <3>3. m - 1 \in A
      BY <3>1, <3>2
    <3> QED
      BY <3>1, <3>3
  <2>5. m < s \/ m > s
    BY <1>1, <2>1, <2>2
  <2> HIDE DEF A, moved
  <2> QED
    BY <2>3, <2>4, <2>5
<1>4. \A k, m \in A : moved[k] = moved[m] => k = m
  <2> SUFFICES ASSUME NEW k \in A, NEW m \in A, moved[k] = moved[m]
               PROVE  k = m
    OBVIOUS
  <2>1. k \in Nat /\ m \in Nat
    BY <1>2
  <2>2. (IF k < s THEN k ELSE k + 1) = (IF m < s THEN m ELSE m + 1)
    OBVIOUS
  <2> QED
    BY <1>1, <2>1, <2>2
<1>5. IsFiniteSet(A)
  <2>1. IsFiniteSet(1 .. (i - 1) - 1)
    BY <1>1, FS_Interval
  <2> QED
    BY <2>1, FS_Subset
<1>6. moved \in [A -> B]
  BY <1>2
<1> HIDE DEF A, B, moved
<1>7. moved \in Bijection(A, B)
  BY <1>3, <1>4, <1>6 DEF Bijection, Injection, IsInjective, Surjection
<1>8. Cardinality(B) = Cardinality(A)
  BY <1>5, <1>7, FS_Bijection DEF ExistsBijection
<1> QED
  BY <1>8 DEF LaneCount, A, B

\* An entry is counted by every count of its lane behind it.
LEMMA CountGrows ==
  ASSUME NEW front \in Seq(Records), NEW i \in 1 .. Len(front),
         NEW k \in i + 1 .. Len(front) + 1
  PROVE  RoundOf(front, i) < LaneCount(front, k, front[i].lane)
<1> DEFINE lane == front[i].lane
           A == {m \in 1 .. i - 1 : front[m].lane = lane}
           B == {m \in 1 .. k - 1 : front[m].lane = lane}
<1>1. Len(front) \in Nat /\ i \in Nat /\ k \in Nat
  OBVIOUS
<1>2. A \subseteq B \ {i} /\ i \in B
  BY <1>1
<1>3. IsFiniteSet(B)
  <2>1. IsFiniteSet(1 .. k - 1)
    BY <1>1, FS_Interval
  <2> QED
    BY <2>1, FS_Subset
<1> HIDE DEF A, B
<1>4. /\ IsFiniteSet(B \ {i})
      /\ Cardinality(B \ {i}) = Cardinality(B) - 1
      /\ Cardinality(B) \in Nat
  BY <1>2, <1>3, FS_RemoveElement, FS_CardinalityType
<1>5. Cardinality(A) <= Cardinality(B \ {i}) /\ IsFiniteSet(A)
  BY <1>2, <1>4, FS_Subset
<1>6. Cardinality(A) \in Nat
  BY <1>5, FS_CardinalityType
<1>7. Cardinality(A) < Cardinality(B)
  BY <1>4, <1>5, <1>6
<1> QED
  BY <1>7 DEF RoundOf, LaneCount, A, B

LEMMA JoinKeepsOrder ==
  ASSUME NEW front \in Seq(Records), NEW back, NEW e \in Records,
         Joined(front, back, InsertPoint(front, e.lane), e), InOrder(front)
  PROVE  InOrder(back)
<1> DEFINE n == Len(front)
           s == InsertPoint(front, e.lane)
           N == NewRound(front, e.lane)
<1>1. n \in Nat /\ e.lane \in Lanes /\ s \in 1 .. n + 1
  <2>1. e.lane \in Lanes
    BY DEF Records
  <2> QED
    BY <2>1, InsertPointProperties
<1>2. N \in Nat /\ \A i \in 1 .. n : RoundOf(front, i) \in Nat
  <2>1. LaneCount(front, n + 1, e.lane) \in Nat
    BY <1>1, LaneCountZero
  <2>2. ASSUME NEW i \in 1 .. n PROVE LaneCount(front, i, front[i].lane) \in Nat
    <3>1. i \in 1 .. Len(front) + 1
      BY <1>1
    <3> QED
      BY <3>1, LaneCountZero
  <2> QED
    BY <2>1, <2>2 DEF NewRound, RoundOf
<1>3. \A i \in 1 .. n : i < s => RoundOf(front, i) <= N
  BY <1>1, InsertPointProperties
<1>4. s <= n => RoundOf(front, s) > N
  BY <1>1, InsertPointProperties
<1>j. Joined(front, back, s, e)
  OBVIOUS
<1> HIDE DEF s, N
<1>5. ASSUME NEW k \in s .. n PROVE RoundOf(front, k) > N
  <2>1. s \in 1 .. n /\ k \in 1 .. n /\ (s < k \/ s = k)
    BY <1>1
  <2>2. RoundOf(front, s) <= RoundOf(front, k)
    BY <1>2, <2>1 DEF InOrder
  <2> QED
    BY <1>2, <1>4, <2>1, <2>2
<1>6. ASSUME NEW k \in s .. n PROVE front[k].lane # e.lane
  <2>1. k \in 1 .. n /\ n + 1 \in k + 1 .. n + 1
    BY <1>1
  <2>2. RoundOf(front, k) < LaneCount(front, n + 1, front[k].lane)
    BY <2>1, CountGrows
  <2>3. front[k].lane = e.lane => RoundOf(front, k) < N
    BY <2>2 DEF N, NewRound
  <2> QED
    BY <1>2, <1>5, <2>1, <2>3
<1>7. ASSUME NEW i \in 1 .. n + 1, i < s
      PROVE  i \in 1 .. n /\ RoundOf(back, i) = RoundOf(front, i)
  <2>1. i \in 1 .. s /\ i \in 1 .. n /\ back[i] = front[i]
    BY <1>1, <1>7, <1>j DEF Joined
  <2> QED
    BY <1>1, <1>j, <2>1, CountAhead DEF RoundOf
<1>8. RoundOf(back, s) = N
  <2>1. back[s] = e /\ s \in 1 .. s
    BY <1>1, <1>j DEF Joined
  <2>2. RoundOf(back, s) = LaneCount(front, s, e.lane)
    BY <1>1, <1>j, <2>1, CountAhead DEF RoundOf
  <2>3. {k \in 1 .. s - 1 : front[k].lane = e.lane}
          = {k \in 1 .. (n + 1) - 1 : front[k].lane = e.lane}
    <3>1. \A k \in 1 .. (n + 1) - 1 : k \in 1 .. s - 1 \/ k \in s .. n
      BY <1>1
    <3>2. \A k \in 1 .. s - 1 : k \in 1 .. (n + 1) - 1
      BY <1>1
    <3> QED
      BY <1>6, <3>1, <3>2
  <2> QED
    BY <2>2, <2>3 DEF N, NewRound, LaneCount
<1>9. ASSUME NEW i \in 1 .. n + 1, i > s
      PROVE  i - 1 \in s .. n /\ i - 1 \in 1 .. n
             /\ RoundOf(back, i) = RoundOf(front, i - 1)
  <2>1. /\ i - 1 \in s .. n /\ i - 1 \in 1 .. n
        /\ i \in s + 1 .. Len(front) + 2 /\ ~ (i < s) /\ i # s
    BY <1>1, <1>9
  <2>2. back[i] = front[i - 1]
    BY <1>j, <2>1 DEF Joined
  <2>3. front[i - 1].lane # e.lane
    BY <1>6, <2>1
  <2>4. LaneCount(back, i, front[i - 1].lane)
          = LaneCount(front, i - 1, front[i - 1].lane)
    BY <1>1, <1>j, <2>1, <2>3, CountBehind
  <2> QED
    BY <2>1, <2>2, <2>4 DEF RoundOf
<1> SUFFICES ASSUME NEW i \in 1 .. n + 1, NEW k \in 1 .. n + 1, i < k
             PROVE  RoundOf(back, i) <= RoundOf(back, k)
  BY <1>j DEF InOrder, Joined
<1>10. CASE k < s
  <2>1. i < s
    BY <1>1, <1>10
  <2> QED
    BY <1>7, <1>10, <2>1 DEF InOrder
<1>11. CASE k = s
  <2>1. i < s
    BY <1>11
  <2> QED
    BY <1>3, <1>7, <1>8, <1>11, <2>1
<1>12. CASE k > s /\ i < s
  <2>1. RoundOf(back, k) > N /\ RoundOf(back, i) <= N
    BY <1>3, <1>5, <1>7, <1>9, <1>12
  <2> QED
    BY <1>2, <1>7, <1>9, <1>12, <2>1
<1>13. CASE k > s /\ i = s
  <2>1. RoundOf(back, k) > N /\ RoundOf(back, i) = N
    BY <1>5, <1>8, <1>9, <1>13
  <2> QED
    BY <1>2, <1>9, <1>13, <2>1
<1>14. CASE i > s
  <2>1. k > s /\ i - 1 < k - 1
    BY <1>1, <1>14
  <2> QED
    BY <1>9, <1>14, <2>1 DEF InOrder
<1> QED
  BY <1>1, <1>10, <1>11, <1>12, <1>13, <1>14

\* What an insert does in service order.
LEMMA EnqueueJoins ==
  ASSUME IInv, NEW e \in Records, Enqueue(e)
  PROVE  Joined(Service(list), Service(list)',
                InsertPoint(Service(list), e.lane), e)
<1> DEFINE n == Len(list)
           p == SpliceIndex(e.lane)
           s == InsertPoint(Service(list), e.lane)
<1>1. /\ list \in Seq(Records) /\ n \in Nat /\ p \in 1 .. n + 1
      /\ list' \in Seq(Records) /\ Len(list') = n + 1
      /\ \A i \in 1 .. n + 1 :
           list'[i] = IF i < p THEN list[i] ELSE IF i = p THEN e ELSE list[i - 1]
  BY EnqueueSplices, ListTypes DEF SplicedAt, IInv
<1>2. /\ Len(Service(list)) = n /\ Service(list) \in Seq(Records)
      /\ \A i \in 1 .. n : Service(list)[i] = list[n - i + 1]
  BY <1>1, ServiceProperties
<1>3. /\ Service(list)' \in Seq(Records) /\ Len(Service(list)') = n + 1
      /\ \A i \in 1 .. n + 1 : Service(list)'[i] = list'[(n + 1) - i + 1]
  <2>1. Service(list)' = Service(list')
    BY DEF Service, Reverse
  <2> QED
    BY <1>1, <2>1, ServiceProperties
<1>4. p = n - s + 2 /\ s \in 1 .. n + 1
  <2>1. e.lane \in Lanes
    BY DEF Records
  <2> QED
    BY <1>2, <2>1, InsertPointProperties DEF SpliceIndex
<1> HIDE DEF p, s
<1>5. ASSUME NEW i \in 1 .. n + 1
      PROVE  Service(list)'[i] = IF i < s THEN Service(list)[i]
                                 ELSE IF i = s THEN e ELSE Service(list)[i - 1]
  <2> DEFINE k == (n + 1) - i + 1
  <2>1. k \in 1 .. n + 1 /\ Service(list)'[i] = list'[k]
    BY <1>1, <1>3
  <2>2. CASE i < s
    <3>1. k > p /\ k - 1 = n - i + 1 /\ i \in 1 .. n
      BY <1>1, <1>4, <2>2
    <3>2. list'[k] = list[k - 1]
      BY <1>1, <2>1, <3>1
    <3> QED
      BY <1>2, <2>1, <2>2, <3>1, <3>2
  <2>3. CASE i = s
    <3>1. k = p /\ ~ (i < s)
      BY <1>1, <1>4, <2>3
    <3>2. list'[k] = e
      BY <1>1, <2>1, <3>1
    <3> QED
      BY <2>1, <2>3, <3>1, <3>2
  <2>4. CASE i > s
    <3>1. k < p /\ k = n - (i - 1) + 1 /\ i - 1 \in 1 .. n
          /\ ~ (i < s) /\ i # s
      BY <1>1, <1>4, <2>4
    <3>2. list'[k] = list[k]
      BY <1>1, <2>1, <3>1
    <3> QED
      BY <1>2, <2>1, <2>4, <3>1, <3>2
  <2> QED
    BY <1>4, <2>2, <2>3, <2>4
<1> QED
  BY <1>2, <1>3, <1>5 DEF Joined, s

\* An insert into a queue whose rounds are in order leaves them in order: only
\* pops put a later round ahead of an earlier one.
THEOREM InsertsKeepRounds == Spec => InsertKeepsRounds
<1>0. TypeOK => (RoundsOrdered <=> InOrder(Service(list)))
  BY ServiceProperties DEF TypeOK, RoundsOrdered, InOrder
<1>1. ASSUME IInv, [Next]_vars, Inserts, RoundsOrdered
      PROVE  RoundsOrdered'
  <2>1. PICK e \in Records : Enqueue(e) /\ e.job \notin Queued
    BY <1>1, InsertIsEnqueue
  <2> DEFINE front == Service(list)
             back == Service(list)'
  <2>2. /\ front \in Seq(Records) /\ InOrder(front)
        /\ Joined(front, back, InsertPoint(front, e.lane), e)
    BY <1>0, <1>1, <2>1, EnqueueJoins, ServiceProperties DEF IInv, TypeOK
  <2> HIDE DEF front
  <2>3. InOrder(back)
    <3> HIDE DEF back
    <3> QED
      BY <2>2, JoinKeepsOrder
  <2>4. list' \in Seq(Records)
    BY <1>1, <2>1, EnqueueSplices DEF SplicedAt
  <2>5. back = Service(list')
    BY DEF Service, Reverse
  <2>6. Len(back) = Len(list')
    BY <2>4, <2>5, ServiceProperties
  <2> QED
    BY <2>3, <2>5, <2>6 DEF RoundsOrdered, InOrder, RoundOf, LaneCount
<1>2. IInv /\ [Next]_vars => [Inserts /\ RoundsOrdered => RoundsOrdered']_vars
  BY <1>1
<1> QED
  BY <1>2, Invariance, PTL DEF Spec, InsertKeepsRounds
=============================================================================
