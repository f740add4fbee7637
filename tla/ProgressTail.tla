---------------------------- MODULE ProgressTail ----------------------------
(***************************************************************************)
(* progress(): the WebSockets of one job's page, tailing the job's Redis   *)
(* stream.  Each socket looks the job up, then reads a batch of entries    *)
(* after the last one it handled, sends them one by one and closes at the  *)
(* first that ends the job, while events are appended, keys expire, Redis  *)
(* fails and pages come and go.                                            *)
(***************************************************************************)
EXTENDS Naturals, Sequences, FiniteSets

CONSTANTS
  Sockets,     \* the browser connections
  Callers,     \* who may be behind a connection
  Submitter,   \* the one who queued the job
  MaxEvents,   \* bound: events of the job
  BatchSize,   \* XREAD's count
  MaxErrors,   \* how many XREADs in a row may fail (20 in the code)
  TTL          \* EVENT_STREAM_TTL, in ticks

ASSUME BoundsAssumption ==
  /\ MaxEvents \in Nat
  /\ BatchSize \in Nat \ {0}
  /\ MaxErrors \in Nat
  /\ TTL \in Nat \ {0}
ASSUME SubmitterAssumption == Submitter \in Callers

\* "bare" is an event of a custom node whose data is null, which run_job()
\* forwards and rewrite_image_urls() does not survive; "end" stands for
\* completed, failed and cancelled.
Kinds == {"news", "retry", "bare", "end"}

\* Fault: a retry ends the stream too.
EndAtRetry == {"end", "retry"}

TERMINAL_TYPES == {"end"}

VARIABLES
  log,          \* every event emitted, in order; an entry's id is its position
  dropped,      \* the oldest entries, gone when the stream expired
  quiet,        \* ticks since the stream's TTL was armed
  known,        \* the state hash exists
  named,        \* it names the submitter
  untouched,    \* ticks since the state hash's TTL was armed
  place,        \* per socket, where progress() is
  last_id,      \* per socket, the last entry handled
  batch,        \* per socket, the entries XREAD returned and not handled
  redis_errors, \* per socket, XREADs that failed in a row
  held,         \* per socket, ticks since its deadline was set
  shown,        \* per socket, the entries it sent since it was opened
  close         \* per socket, why it ended

stream == <<log, dropped, quiet>>
state == <<known, named, untouched>>
tail == <<last_id, batch, redis_errors, held>>
vars == <<stream, state, place, tail, shown, close>>

\* Why a socket is closed: the event that ended the job was sent, one of the
\* application's codes, an error limit, the generic handler's "failed", or the
\* browser went away.
Closes == {"open", "ended", "unknown", "forbidden", "try later", "lifetime",
           "errors", "failed", "left"}

TypeOK ==
  /\ log \in Seq(Kinds)
  /\ dropped \in 0 .. Len(log)
  /\ quiet \in 0 .. TTL
  /\ known \in BOOLEAN
  /\ named \in BOOLEAN
  /\ untouched \in 0 .. TTL
  /\ place \in [Sockets -> {"closed", "lookup", "read", "send"}]
  /\ last_id \in [Sockets -> 0 .. Len(log)]
  /\ batch \in [Sockets -> SUBSET (1 .. Len(log))]
  /\ redis_errors \in [Sockets -> 0 .. MaxErrors]
  /\ held \in [Sockets -> 0 .. TTL]
  /\ shown \in [Sockets -> SUBSET (1 .. Len(log))]
  /\ close \in [Sockets -> Closes]

\* generate() has seeded the hash and appended `queued`.
Init ==
  /\ log = <<>>
  /\ dropped = 0
  /\ quiet = 0
  /\ known = TRUE
  /\ named = TRUE
  /\ untouched = 0
  /\ place = [s \in Sockets |-> "closed"]
  /\ last_id = [s \in Sockets |-> 0]
  /\ batch = [s \in Sockets |-> {}]
  /\ redis_errors = [s \in Sockets |-> 0]
  /\ held = [s \in Sockets |-> 0]
  /\ shown = [s \in Sockets |-> {}]
  /\ close = [s \in Sockets |-> "left"]

-----------------------------------------------------------------------------
(* The job's two keys *)

\* XADD, and the stream's TTL armed again; the reaper's retry only arms one
\* that has none (EXPIRE NX), which is when the stream had expired.
Emit(kind) ==
  /\ Len(log) < MaxEvents
  /\ log' = Append(log, kind)
  /\ quiet' = IF kind = "retry" /\ quiet < TTL THEN quiet ELSE 0
  /\ UNCHANGED <<dropped, state, place, tail, shown, close>>

\* Any HSET on the state hash with its EXPIRE: a start, a claim, an outcome, a
\* requeue, a cancel.  One that had expired exists again, without its user.
Touch ==
  /\ untouched # 0
  /\ known' = TRUE
  /\ named' = (known /\ named)
  /\ untouched' = 0
  /\ UNCHANGED <<stream, place, tail, shown, close>>

\* Time passes; what was left alone for a whole TTL is gone.
Tick ==
  /\ quiet' = IF quiet < TTL THEN quiet + 1 ELSE TTL
  /\ dropped' = IF quiet' = TTL THEN Len(log) ELSE dropped
  /\ untouched' = IF untouched < TTL THEN untouched + 1 ELSE TTL
  /\ known' = (known /\ untouched' < TTL)
  /\ named' = (named /\ known')
  /\ held' = [s \in Sockets |->
                IF place[s] \in {"read", "send"} /\ held[s] < TTL
                  THEN held[s] + 1 ELSE held[s]]
  /\ UNCHANGED <<log, place, last_id, batch, redis_errors, shown, close>>

-----------------------------------------------------------------------------
(* One socket *)

\* The coroutine ends, and what it kept with it.
Closed(s, why) ==
  /\ place' = [place EXCEPT ![s] = "closed"]
  /\ close' = [close EXCEPT ![s] = why]
  /\ last_id' = [last_id EXCEPT ![s] = 0]
  /\ batch' = [batch EXCEPT ![s] = {}]
  /\ redis_errors' = [redis_errors EXCEPT ![s] = 0]
  /\ held' = [held EXCEPT ![s] = 0]

\* The page connects: a new coroutine, from the beginning of the stream.
Open(s) ==
  /\ place[s] = "closed"
  /\ place' = [place EXCEPT ![s] = "lookup"]
  /\ close' = [close EXCEPT ![s] = "open"]
  /\ shown' = [shown EXCEPT ![s] = {}]
  /\ UNCHANGED <<stream, state, tail>>

\* require_job_access(): a job that names nobody is everybody's.
MayWatch(caller) == named => caller = Submitter

\* HGETALL: Redis may fail, the hash may be gone, or be somebody else's.
TurnAway(s) ==
  /\ place[s] = "lookup"
  /\ \/ Closed(s, "try later")
     \/ ~ known /\ Closed(s, "unknown")
     \/ /\ known
        /\ \E caller \in Callers : ~ MayWatch(caller)
        /\ Closed(s, "forbidden")
  /\ UNCHANGED <<stream, state, shown>>

\* The deadline is set, and the tail begins.
Admit(s) ==
  /\ place[s] = "lookup"
  /\ known
  /\ \E caller \in Callers : MayWatch(caller)
  /\ place' = [place EXCEPT ![s] = "read"]
  /\ UNCHANGED <<stream, state, tail, shown, close>>

\* Fault: a socket lives as long as its job.
NoLifetime(s) == FALSE

\* xread_block_ms() has nothing left.
LifetimeOver(s) == held[s] = TTL

CloseAtLifetime(s) ==
  /\ place[s] = "read"
  /\ LifetimeOver(s)
  /\ Closed(s, "lifetime")
  /\ UNCHANGED <<stream, state, shown>>

\* The entries after last_id the stream still holds, at most BatchSize.
Available(s) ==
  {i \in 1 .. Len(log) :
     /\ i > last_id[s]
     /\ i > dropped
     /\ i <= last_id[s] + BatchSize \/ i <= dropped + BatchSize}

\* Fault: from the newest entry on, as $ would read.
FromTheNewest(s) ==
  /\ place[s] = "read"
  /\ ~ LifetimeOver(s)
  /\ batch' = [batch EXCEPT ![s] = {i \in Available(s) : i = Len(log)}]
  /\ place' = [place EXCEPT ![s] = IF batch'[s] = {} THEN "read" ELSE "send"]
  /\ redis_errors' = [redis_errors EXCEPT ![s] = 0]
  /\ UNCHANGED <<stream, state, last_id, held, shown, close>>

\* XREAD answers; nothing new is a ping.
Read(s) ==
  /\ place[s] = "read"
  /\ ~ LifetimeOver(s)
  /\ batch' = [batch EXCEPT ![s] = Available(s)]
  /\ place' = [place EXCEPT ![s] = IF Available(s) = {} THEN "read" ELSE "send"]
  /\ redis_errors' = [redis_errors EXCEPT ![s] = 0]
  /\ UNCHANGED <<stream, state, last_id, held, shown, close>>

\* Fault: no limit.
RetryForEver(s) ==
  /\ place[s] = "read"
  /\ ~ LifetimeOver(s)
  /\ redis_errors' = [redis_errors EXCEPT ![s] = @ + 1]
  /\ UNCHANGED <<stream, state, place, last_id, batch, held, shown, close>>

\* XREAD fails: last_id is kept for the next, until there were too many.
ReadFails(s) ==
  /\ place[s] = "read"
  /\ ~ LifetimeOver(s)
  /\ IF redis_errors[s] < MaxErrors
       THEN /\ redis_errors' = [redis_errors EXCEPT ![s] = @ + 1]
            /\ UNCHANGED <<place, close, last_id, batch, held>>
       ELSE Closed(s, "errors")
  /\ UNCHANGED <<stream, state, shown>>

IsNext(s, i) == i \in batch[s] /\ \A k \in batch[s] : i <= k

\* The event is sent, and the socket with its last one closed.
SendEntry(s) ==
  /\ place[s] = "send"
  /\ \E i \in batch[s] :
       /\ IsNext(s, i)
       /\ log[i] # "bare"
       /\ shown' = [shown EXCEPT ![s] = @ \cup {i}]
       /\ IF log[i] \in TERMINAL_TYPES
            THEN Closed(s, "ended")
            ELSE /\ last_id' = [last_id EXCEPT ![s] = i]
                 /\ batch' = [batch EXCEPT ![s] = @ \ {i}]
                 /\ place' = [place EXCEPT ![s] =
                                IF batch'[s] = {} THEN "read" ELSE "send"]
                 /\ UNCHANGED <<redis_errors, held, close>>
  /\ UNCHANGED <<stream, state>>

\* rewrite_image_urls() raises, and the generic handler sends "failed".
SendFailed(s) ==
  /\ place[s] = "send"
  /\ \E i \in batch[s] : IsNext(s, i) /\ log[i] = "bare"
  /\ Closed(s, "failed")
  /\ UNCHANGED <<stream, state, shown>>

\* The browser is gone: noticed by a ping or a send.
Disconnect(s) ==
  /\ place[s] \in {"read", "send"}
  /\ Closed(s, "left")
  /\ UNCHANGED <<stream, state, shown>>

Serve(s) ==
  \/ TurnAway(s) \/ Admit(s) \/ CloseAtLifetime(s) \/ Read(s)
  \/ ReadFails(s) \/ SendEntry(s) \/ SendFailed(s)

Next ==
  \/ \E kind \in Kinds : Emit(kind)
  \/ Touch
  \/ Tick
  \/ \E s \in Sockets : Open(s) \/ Serve(s) \/ Disconnect(s)

Spec == Init /\ [][Next]_vars

\* The gateway's loop runs, and time passes: a socket's deadline comes whether
\* or not anything is ever appended.
Fairness ==
  /\ WF_vars(Tick)
  /\ \A s \in Sockets : WF_vars(Serve(s))

FairSpec == Spec /\ Fairness

-----------------------------------------------------------------------------

\* A connection is a faithful replay: every event in order, none skipped that
\* the stream still held when it was reached, and nothing after the end,
\* whatever batches, Redis errors, expiries and reloads came between.
Feed == INSTANCE EventFeed WITH Ends <- TERMINAL_TYPES

FollowsFeed == Feed!Spec

\* A retried job's page stays connected for the second attempt, and a socket
\* that is still open has not yet shown its page an end: the coroutine's
\* return and the browser's done() agree on which event was the last.
EndedMeansOver ==
  \A s \in Sockets :
    close[s] = "ended" <=> \E i \in shown[s] : log[i] = "end"

\* No socket, and so no Redis connection of the pool, is held for ever: not by
\* a job that emits nothing, not by a job id whose keys expired under it.
SocketEnds ==
  \A s \in Sockets : place[s] # "closed" ~> place[s] = "closed"

\* A page is told "failed" only about a job that ended.
FailedMeansFailed ==
  \A s \in Sockets :
    close[s] = "failed" => \E i \in 1 .. Len(log) : log[i] \in TERMINAL_TYPES
=============================================================================
