----------------------------- MODULE FairQueue -----------------------------
(***************************************************************************)
(* One tier's queue: the Redis list FAIR_ENQUEUE_LUA inserts into and the  *)
(* workers' BLMOVE takes from.  The list is kept as Redis keeps it, newest *)
(* at the head; the script reads it in service order, gives every entry    *)
(* the round it is in, and splices the new one into the list.              *)
(***************************************************************************)
EXTENDS Integers, FiniteSets, Sequences, SequencesExt

CONSTANTS
  Lanes,          \* queue_key values, one per submitter
  MaxJobs,        \* bound: how many jobs are ever submitted
  MaxHeld,        \* bound: entries in workers' hands, the dead ones' included
  MaxQueueDepth,  \* MAX_QUEUE_DEPTH
  MaxJobRetries   \* MAX_JOB_RETRIES

ASSUME LanesAssumption == IsFiniteSet(Lanes)
ASSUME DepthAssumption == /\ MaxJobs \in Nat
                          /\ MaxHeld \in Nat
                          /\ MaxQueueDepth \in Nat
                          /\ MaxJobRetries \in Nat

\* A job id is a fresh uuid: which one does not matter, only that it is new.
Jobs == 1 .. MaxJobs

\* The ordering record the list holds.
Records == [job : Jobs, lane : Lanes, attempt : 0 .. MaxJobRetries]

VARIABLES
  list,       \* comfy:queue, head first
  held,       \* the entries a worker has taken and not finished
  submitted,  \* how many jobs have been submitted
  told,       \* per queued job, the position its insert reported
  served,     \* history: per queued job, the jobs served since its insert
  first       \* history: the queued jobs whose insert found their lane empty

vars == <<list, held, submitted, told, served, first>>

TypeOK ==
  /\ list \in Seq(Records)
  /\ held \subseteq Records
  /\ submitted \in 0 .. MaxJobs
  /\ told \in [Jobs -> Nat]
  /\ served \in [Jobs -> Nat]
  /\ first \subseteq Jobs

Queued == {list[i].job : i \in 1 .. Len(list)}

Init ==
  /\ list = <<>>
  /\ held = {}
  /\ submitted = 0
  /\ told = [j \in Jobs |-> 0]
  /\ served = [j \in Jobs |-> 0]
  /\ first = {}

-----------------------------------------------------------------------------
(* FAIR_ENQUEUE_LUA *)

\* front[1] is served next: the physical tail.
Service(raw) == Reverse(raw)

\* The jobs of a lane among the first i - 1 to be served.
LaneCount(front, i, lane) ==
  Cardinality({k \in 1 .. i - 1 : front[k].lane = lane})

RoundOf(front, i) == LaneCount(front, i, front[i].lane)

NewRound(front, lane) == LaneCount(front, Len(front) + 1, lane)

\* The existing jobs whose round is strictly later than a new job's.
LaterRounds(front, lane) ==
  {i \in 1 .. Len(front) : RoundOf(front, i) > NewRound(front, lane)}

Least(S) == CHOOSE i \in S : \A k \in S : i <= k

\* Fault: ahead of its own round as well.
InsertAhead(front, lane) ==
  Least({i \in 1 .. Len(front) : RoundOf(front, i) >= NewRound(front, lane)}
          \cup {Len(front) + 1})

\* Fault: the plain LPUSH, first come first served.
InsertAtBack(front, lane) == Len(front) + 1

\* The service position a new job of this lane takes.
InsertPoint(front, lane) ==
  Least(LaterRounds(front, lane) \cup {Len(front) + 1})

LPush(raw, e) == <<e>> \o raw
RPush(raw, e) == Append(raw, e)

\* Fault: the new entry replaces its pivot.
Overwrite(raw, pivot, e) ==
  [raw EXCEPT ![Least({i \in 1 .. Len(raw) : raw[i] = pivot})] = e]

\* LINSERT BEFORE, against the first element that equals the pivot.
LInsert(raw, pivot, e) ==
  InsertAt(raw, Least({i \in 1 .. Len(raw) : raw[i] = pivot}), e)

\* Fault: the pivot is one place off.
PlaceOffByOne(raw, e) ==
  LET n == Len(raw)
      at == n - InsertPoint(Service(raw), e.lane) + 1
  IN  IF at <= 0 THEN LPush(raw, e) ELSE LInsert(raw, raw[at], e)

\* at is the physical index, counted from the head, the new entry takes; the
\* script's arrays start at 1 and the list at 0.
Place(raw, e) ==
  LET n == Len(raw)
      at == n - InsertPoint(Service(raw), e.lane) + 1
  IN  IF at <= 0 THEN LPush(raw, e)
      ELSE IF at >= n THEN RPush(raw, e)
      ELSE LInsert(raw, raw[at + 1], e)

Full == MaxQueueDepth > 0 /\ Len(list) >= MaxQueueDepth

Enqueue(e) ==
  /\ ~ Full
  /\ list' = Place(list, e)
  /\ told' = [told EXCEPT ![e.job] = InsertPoint(Service(list), e.lane) - 1]
  /\ first' = IF NewRound(Service(list), e.lane) = 0
                THEN first \cup {e.job} ELSE first
  /\ UNCHANGED served

-----------------------------------------------------------------------------
(* Who calls it, and who takes from the list *)

Submit(lane) ==
  /\ submitted < MaxJobs
  /\ submitted' = submitted + 1
  /\ \/ Enqueue([job |-> submitted', lane |-> lane, attempt |-> 0])
     \/ Full /\ UNCHANGED <<list, told, served, first>>
  /\ UNCHANGED held

\* BLMOVE RIGHT LEFT.
Pop ==
  /\ list # <<>>
  /\ Cardinality(held) < MaxHeld
  /\ LET next == list[Len(list)] IN
       /\ list' = SubSeq(list, 1, Len(list) - 1)
       /\ held' = held \cup {next}
       /\ told' = [told EXCEPT ![next.job] = 0]
       /\ served' = [j \in Jobs |->
                       IF j \in Queued \ {next.job} THEN served[j] + 1 ELSE 0]
       /\ first' = first \ {next.job}
  /\ UNCHANGED submitted

\* The worker finished the job, or the reaper failed it.
Finish(e) ==
  /\ held' = held \ {e}
  /\ UNCHANGED <<list, submitted, told, served, first>>

\* Fault: the retry is not bounded.
RequeueForever(e) ==
  /\ Enqueue([e EXCEPT !.attempt = @ + 1])
  /\ held' = held \ {e}
  /\ UNCHANGED submitted

\* The worker died before ComfyUI had the job: the reaper puts it back, at most
\* MAX_JOB_RETRIES times (reap_stranded_job).
Requeue(e) ==
  /\ e.attempt < MaxJobRetries
  /\ Enqueue([e EXCEPT !.attempt = @ + 1])
  /\ held' = held \ {e}
  /\ UNCHANGED submitted

Next ==
  \/ \E lane \in Lanes : Submit(lane)
  \/ Pop
  \/ \E e \in held : Finish(e) \/ Requeue(e)

Spec == Init /\ [][Next]_vars

-----------------------------------------------------------------------------
(* What fair queueing promises, and keeps *)

Inserts == Queued' \ Queued # {}

\* The place of the entry an insert has just made, in service order.
NewPlace == CHOOSE i \in 1 .. Len(list') : Service(list')[i].job \notin Queued

\* Without one entry, of a job not queued before, the list is what it was.
Splices == \E i \in DOMAIN list' : /\ list'[i].job \notin Queued
                                  /\ list = RemoveAt(list', i)

\* PositionTruthful: the position an insert reports is the number of entries
\* ahead of the new one, though the one is counted in service order and the
\* other in the list's own indices (FAIR_ENQUEUE_LUA, queue_position_at_submit).
PositionTruthful ==
  [][Inserts => told'[Service(list')[NewPlace].job] = NewPlace - 1]_vars

\* OnlySplices: an insert adds one entry, loses none and reorders none
\* (FAIR_ENQUEUE_LUA, "It NEVER unmakes the queue to remake it").
OnlySplices == [][Inserts => Splices]_vars

\* NextStaysNext: no insert changes which job is served next
\* (FAIR_ENQUEUE_LUA, the branch it calls unreachable).
NextStaysNext ==
  [][Inserts /\ list # <<>> => list'[Len(list')] = list[Len(list)]]_vars

\* OneOfEachAhead: ahead of a job whose lane had nothing queued when it came
\* there is at most one job of each other lane and none of its own, whatever
\* batches stand in the queue (FAIR_ENQUEUE_LUA's rounds).
OneOfEachAhead ==
  \A i \in 1 .. Len(list) : list[i].job \in first =>
    \A k, m \in i .. Len(list) : list[k].lane = list[m].lane => k = m

\* PlaceKept: such a job is never overtaken: what it was told is what has been
\* served since plus what is still ahead of it (FAIR_ENQUEUE_LUA, the
\* position index.html shows as "N ahead").
PlaceKept ==
  \A i \in 1 .. Len(list) : list[i].job \in first =>
    told[list[i].job] = served[list[i].job] + Len(list) - i

\* RoundsOrdered: rounds do not decrease from the front of the queue to its
\* back (FAIR_ENQUEUE_LUA's round_of).
RoundsOrdered ==
  LET front == Service(list) IN
    \A i, k \in 1 .. Len(list) : i < k => RoundOf(front, i) <= RoundOf(front, k)

\* InsertKeepsRounds: an insert into a queue whose rounds are in order leaves
\* them in order (FAIR_ENQUEUE_LUA: every insert places things the same way).
InsertKeepsRounds == [][Inserts /\ RoundsOrdered => RoundsOrdered']_vars

-----------------------------------------------------------------------------
(* What its comments say and pops contradict *)

\* LaneInOrder: a lane's jobs are served in the order in which they joined the
\* queue (FAIR_ENQUEUE_LUA: a lane's Nth queued job is served in round N - 1).
LaneInOrder ==
  [][Inserts =>
       \A i \in NewPlace + 1 .. Len(list') :
         Service(list')[i].lane # Service(list')[NewPlace].lane]_vars
=============================================================================
