------------------------------ MODULE Showback ------------------------------
(***************************************************************************)
(* GPU-second accounting and the quota that reads it: generate() looks up  *)
(* the submitter's seconds, queues the job and writes who submitted it on  *)
(* the job's hash; the worker starts the job's clock; whichever terminal   *)
(* path claims the clock first runs SHOWBACK_ACCRUE_LUA on the hash of the *)
(* current period.                                                         *)
(***************************************************************************)
EXTENDS Integers, FiniteSets, FiniteSetsExt, Functions

CONSTANTS
  Jobs,
  Headers,       \* what X-Forwarded-User may be
  Long,          \* those longer than MAX_ENVELOPE_FIELD_CHARS
  Clipped,       \* what envelope_text() makes of a long one
  Tiers,         \* GPU_TIERS
  NoName,        \* no header; a field that is absent
  Quota,         \* QUOTA_GPU_SECONDS
  MaxUsers,      \* SHOWBACK_MAX_USERS
  PeriodLength,  \* the month, in ticks
  MaxNow,        \* bound: the last tick
  MaxUnchecked   \* bound: quota reads that fail

ASSUME NamesAssumption ==
  /\ Long \subseteq Headers
  /\ {NoName, Clipped} \cap Headers = {}
  /\ NoName # Clipped
\* GPU_TIERS is a list in the gateway's environment.
ASSUME TiersAssumption == IsFiniteSet(Tiers)
ASSUME NumbersAssumption ==
  /\ {Quota, MaxUsers, PeriodLength} \subseteq Nat \ {0}
  /\ {MaxNow, MaxUnchecked} \subseteq Nat

\* envelope_text().
Clamp(header) == IF header \in Long THEN Clipped ELSE header

Names == Headers \cup {Clipped}

\* The fields of a period's hash.
Field(kind, name) == [kind |-> kind, name |-> name]
UserField(name) == Field("user", name)
TierField(tier) == Field("tier", tier)
ANONYMOUS_FIELD == Field("anonymous", NoName)
EXCLUDED_FIELD == Field("excluded", NoName)
OTHER_FIELD == Field("other", NoName)
JOBS_FIELD == Field("jobs", NoName)
Fields == {UserField(n) : n \in Names} \cup {TierField(t) : t \in Tiers}
            \cup {ANONYMOUS_FIELD, EXCLUDED_FIELD, OTHER_FIELD, JOBS_FIELD}

VARIABLES
  now,        \* the time
  bucket,     \* per period, its hash: the fields it has and their totals
  place,      \* per job, where it is
  by,         \* per job, the header it was submitted with
  tier_asked, \* per job, the tier generate() routed it to
  user,       \* per job, the state hash's user
  tier,       \* per job, the state hash's tier
  started_at, \* per job, the state hash's started_at
  unseeded,   \* the jobs whose generate() has not written user and tier yet
  unchecked,  \* history: how many quota reads failed
  bills       \* history: what each accrual did

hash == <<user, tier, started_at>>
vars == <<now, bucket, place, by, tier_asked, hash, unseeded, unchecked, bills>>

Periods == 0 .. MaxNow \div PeriodLength
Period(t) == t \div PeriodLength

\* What one accrual booked.
Bill == [job : Jobs, period : Periods, seconds : 0 .. MaxNow, to : Fields]

TypeOK ==
  /\ now \in 0 .. MaxNow
  /\ \A p \in Periods :
       /\ DOMAIN bucket[p] \subseteq Fields
       /\ \A f \in DOMAIN bucket[p] : bucket[p][f] \in Nat
  /\ place \in [Jobs -> {"none", "refused", "admitted", "queued", "running",
                         "over"}]
  /\ by \in [Jobs -> Headers \cup {NoName}]
  /\ tier_asked \in [Jobs -> Tiers \cup {NoName}]
  /\ user \in [Jobs -> Names \cup {NoName}]
  /\ tier \in [Jobs -> Tiers \cup {NoName}]
  /\ started_at \in [Jobs -> 0 .. MaxNow \cup {NoName}]
  /\ unseeded \subseteq Jobs
  /\ unchecked \in 0 .. MaxUnchecked
  /\ bills \subseteq Bill

Init ==
  /\ now = 0
  /\ bucket = [p \in Periods |-> [f \in {} |-> 0]]
  /\ place = [j \in Jobs |-> "none"]
  /\ by = [j \in Jobs |-> NoName]
  /\ tier_asked = [j \in Jobs |-> NoName]
  /\ user = [j \in Jobs |-> NoName]
  /\ tier = [j \in Jobs |-> NoName]
  /\ started_at = [j \in Jobs |-> NoName]
  /\ unseeded = {}
  /\ unchecked = 0
  /\ bills = {}

Tick ==
  /\ now < MaxNow
  /\ now' = now + 1
  /\ UNCHANGED <<bucket, place, by, tier_asked, hash, unseeded, unchecked, bills>>

-----------------------------------------------------------------------------
(* generate(): the quota, the queue, the state hash *)

Total(p, f) == IF f \in DOMAIN bucket[p] THEN bucket[p][f] ELSE 0

\* quota_field() names the field by the header as it came.
QuotaField(header) == IF header = NoName THEN ANONYMOUS_FIELD ELSE UserField(header)

\* Fault: one more job than the quota.
UpToQuota(header) == Total(Period(now), QuotaField(header)) <= Quota

WithinQuota(header) == Total(Period(now), QuotaField(header)) < Quota

\* The quota is read before anything is written; a read that fails lets the
\* submission through.
Submit(j, header, t) ==
  /\ place[j] = "none"
  /\ by' = [by EXCEPT ![j] = header]
  /\ tier_asked' = [tier_asked EXCEPT ![j] = t]
  /\ \/ /\ place' = [place EXCEPT ![j] =
                       IF WithinQuota(header) THEN "admitted" ELSE "refused"]
        /\ UNCHANGED unchecked
     \/ /\ unchecked < MaxUnchecked
        /\ unchecked' = unchecked + 1
        /\ place' = [place EXCEPT ![j] = "admitted"]
  /\ UNCHANGED <<now, bucket, hash, unseeded, bills>>

\* Queued or, the queue full, refused.
Enqueue(j) ==
  /\ place[j] = "admitted"
  /\ \/ /\ place' = [place EXCEPT ![j] = "queued"]
        /\ unseeded' = unseeded \cup {j}
     \/ place' = [place EXCEPT ![j] = "refused"] /\ UNCHANGED unseeded
  /\ UNCHANGED <<now, bucket, by, tier_asked, hash, unchecked, bills>>

\* The HSET that follows the enqueue; the worker may have been faster.
Seed(j) ==
  /\ j \in unseeded
  /\ user' = [user EXCEPT ![j] = Clamp(by[j])]
  /\ tier' = [tier EXCEPT ![j] = tier_asked[j]]
  /\ unseeded' = unseeded \ {j}
  /\ UNCHANGED <<now, bucket, place, by, tier_asked, started_at, unchecked, bills>>

\* The job waited on the queue for longer than EVENT_STREAM_TTL.
HashExpires(j) ==
  /\ place[j] = "queued"
  /\ j \notin unseeded
  /\ user[j] # NoName \/ tier[j] # NoName
  /\ user' = [user EXCEPT ![j] = NoName]
  /\ tier' = [tier EXCEPT ![j] = NoName]
  /\ started_at' = [started_at EXCEPT ![j] = NoName]
  /\ UNCHANGED <<now, bucket, place, by, tier_asked, unseeded, unchecked, bills>>

-----------------------------------------------------------------------------
(* The clock and its accrual *)

\* run_job()'s first HSET starts the clock over.
Start(j) ==
  /\ place[j] = "queued"
  /\ place' = [place EXCEPT ![j] = "running"]
  /\ started_at' = [started_at EXCEPT ![j] = now]
  /\ UNCHANGED <<now, bucket, by, tier_asked, user, tier, unseeded, unchecked,
                 bills>>

\* The reaper requeues a job that did not get to ComfyUI: nothing is accrued.
Requeue(j) ==
  /\ place[j] = "running"
  /\ place' = [place EXCEPT ![j] = "queued"]
  /\ UNCHANGED <<now, bucket, by, tier_asked, hash, unseeded, unchecked, bills>>

\* HINCRBYFLOAT, which adds the field if it is not there.
Incr(b, field, amount) ==
  [f \in DOMAIN b \cup {field} |->
     (IF f \in DOMAIN b THEN b[f] ELSE 0) + (IF f = field THEN amount ELSE 0)]

\* Fault: no cap.
RoomForAll(b, field) == FALSE

\* The cap: a name the hash does not have yet, and no room for it.
NoRoom(b, field) ==
  /\ field.kind = "user"
  /\ field \notin DOMAIN b
  /\ Cardinality(DOMAIN b) >= MaxUsers

Line(j, destination, b) ==
  LET field == IF destination = "excluded" THEN EXCLUDED_FIELD
               ELSE IF user[j] = NoName THEN ANONYMOUS_FIELD ELSE UserField(user[j])
  IN  IF NoRoom(b, field) THEN OTHER_FIELD ELSE field

\* Fault: a negative interval is booked as it is.
Difference(j, at) == at - started_at[j]

\* Another pod's clock may be behind the one that started the job's.
Elapsed(j, at) == IF at >= started_at[j] THEN at - started_at[j] ELSE 0

\* The clock is claimed with what it measured.
Claim(j, at, field) ==
  /\ started_at' = [started_at EXCEPT ![j] = NoName]
  /\ bills' = bills \cup {[job |-> j, period |-> Period(at),
                           seconds |-> Elapsed(j, at), to |-> field]}

\* Fault: the excluded time is sliced by tier only.
BookUnlessExcluded(b, j, destination, seconds) ==
  LET field == Line(j, destination, b)
      booked == IF field = EXCLUDED_FIELD THEN b ELSE Incr(b, field, seconds)
      counted == IF destination = "submitter" THEN Incr(booked, JOBS_FIELD, 1) ELSE booked
  IN  IF tier[j] # NoName THEN Incr(counted, TierField(tier[j]), seconds)
      ELSE counted

\* The seconds on one line, the job in the count of billed jobs, and the
\* seconds once more under its tier, which the cap does not apply to.
Book(b, j, destination, seconds) ==
  LET booked == Incr(b, Line(j, destination, b), seconds)
      counted == IF destination = "submitter" THEN Incr(booked, JOBS_FIELD, 1) ELSE booked
  IN  IF tier[j] # NoName THEN Incr(counted, TierField(tier[j]), seconds)
      ELSE counted

\* SHOWBACK_ACCRUE_LUA, in the period of the caller's clock.
Accrue(j, destination, at) ==
  IF started_at[j] = NoName THEN UNCHANGED <<bucket, started_at, bills>>
  ELSE LET p == Period(at)
       IN  /\ bucket' = [bucket EXCEPT ![p] =
                           Book(@, j, destination, Elapsed(j, at))]
           /\ Claim(j, at, Line(j, destination, bucket[p]))

\* The worker's finish().
Finish(j) ==
  /\ place[j] = "running"
  /\ place' = [place EXCEPT ![j] = "over"]
  /\ Accrue(j, "submitter", now)
  /\ UNCHANGED <<now, by, tier_asked, user, tier, unseeded, unchecked>>

\* The reaper ends the job of a dead worker.
ReapEnd(j) ==
  /\ place[j] = "running"
  /\ place' = [place EXCEPT ![j] = "over"]
  /\ \E at \in {now, now - 1} \cap Nat : Accrue(j, "excluded", at)
  /\ UNCHANGED <<now, by, tier_asked, user, tier, unseeded, unchecked>>

Next ==
  \/ Tick
  \/ \E j \in Jobs :
       \/ \E h \in Headers \cup {NoName}, t \in Tiers \cup {NoName} :
            Submit(j, h, t)
       \/ Enqueue(j) \/ Seed(j) \/ HashExpires(j) \/ Start(j) \/ Requeue(j)
       \/ Finish(j) \/ ReapEnd(j)

Spec == Init /\ [][Next]_vars

-----------------------------------------------------------------------------
(* showback_report() *)

SumOf(S) == MapThenSumSet(LAMBDA b : b.seconds, S)

UserSeconds(p) ==
  MapThenSumSet(LAMBDA f : bucket[p][f], {f \in DOMAIN bucket[p] : f.kind = "user"})

TierSeconds(p) ==
  MapThenSumSet(LAMBDA f : bucket[p][f], {f \in DOMAIN bucket[p] : f.kind = "tier"})

BilledJobs(p) == Total(p, JOBS_FIELD)

Billed(p) == {b \in bills : b.period = p}

\* What the report of a month shows adds up to the GPU seconds that ended in
\* it: nothing is lost to the cap, to a missing name, to skewed clocks or to
\* the reaper's path, nothing is on two lines, and the tiers slice the same
\* seconds once more.
ReportAddsUp ==
  \A p \in Periods :
    /\ UserSeconds(p) + Total(p, ANONYMOUS_FIELD) + Total(p, EXCLUDED_FIELD)
         + Total(p, OTHER_FIELD) = SumOf(Billed(p))
    /\ TierSeconds(p) <= SumOf(Billed(p))
    /\ BilledJobs(p) = Cardinality({b \in Billed(p) : b.to # EXCLUDED_FIELD})

\* A month's hash stays within the names the cap allows and the fixed fields,
\* though it is the length of the whole hash the cap is compared with.
HashBounded ==
  \A p \in Periods :
    /\ Cardinality({f \in DOMAIN bucket[p] : f.kind = "user"}) <= MaxUsers
    /\ Cardinality(DOMAIN bucket[p]) <= MaxUsers + Cardinality(Tiers) + 4

\* The seconds of a submitter's jobs that workers finished in a period.
Spent(header, p) ==
  SumOf({b \in Billed(p) : b.to # EXCLUDED_FIELD /\ by[b.job] = header})

\* A bill that is not on the line the quota of its submitter reads: the hash
\* did not name the submitter yet, or any more, or had no room for the name.
Astray(b) == by[b.job] # NoName /\ b.to \in {ANONYMOUS_FIELD, OTHER_FIELD}

Admitted(j) == place[j] = "none" /\ place'[j] = "admitted"

\* A submitter who has spent the quota of the period gets no further job in,
\* except in the ways the breaker is built to fail open: a read that failed, a
\* name too long to be kept whole, seconds that went astray.
QuotaHolds ==
  [][\A j \in Jobs :
       Admitted(j) /\ Spent(by'[j], Period(now)) >= Quota =>
         \/ unchecked' # unchecked
         \/ by'[j] \in Long
         \/ \E b \in Billed(Period(now)) : by[b.job] = by'[j] /\ Astray(b)]_vars
=============================================================================
