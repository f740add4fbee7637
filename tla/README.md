# ComfyUI on OpenShift: a TLA+ verification project

This directory models the multi-user ("enterprise") half of the repository:
a gateway (`src/enterprise/gateway/hub.py`, FastAPI, two replicas), a pool of
GPU workers (`src/enterprise/worker/worker_agent.py`, one agent beside one
ComfyUI per pod) and the Redis both talk to. Everything two processes share is
in that Redis; every command, and every Lua script, is atomic. What can go
wrong is what happens *between* two commands.

`PROJECT.json` lists components, runs, mutants, hazards, theorems, and for each
definition the source lines it stands for.

## 1. Inventory

| Component | State | Operations | Talks to |
|---|---|---|---|
| Gateway: submission, cancel (`generate`, `cancel`) | none of its own | quota check, fair enqueue, HSET of the state, first event; cancel flag | queue, payload, job state, stream |
| Gateway: fair queueing (`FAIR_ENQUEUE_LUA`) | `comfy:queue[:tier]`, a list, newest at the head | insert at the back of a lane's round, refuse on a full queue | called by submission and by the reaper's requeue |
| Gateway: reaper (`reap_orphaned_jobs` ... `defer_stranded_entry`) | claim per entry, failure count per entry, undeliverable list | find a dead worker's list, claim its tail, fence, decide, requeue / fail / cancel, remove; set aside after repeated errors | processing lists, heartbeats, job state, queue |
| Worker agent: job life cycle (`main`, `run_job`, `finish`) | its processing list, its heartbeat key | BLMOVE, fetch payload, start, claim-and-mark `executing`, POST to ComfyUI, report, clean up | everything above, ComfyUI |
| Worker agent: ComfyUI supervision (`run_job`'s socket loop, `interrupt`, `await_comfy_idle`) | one ComfyUI with one running prompt, `comfy_wedged` | follow events, stop on cancel or timeout, exit when ComfyUI will not stop | ComfyUI |
| Showback (`SHOWBACK_ACCRUE_LUA`, report) | a clock per job, per-period totals | start, bill once, report | job state |
| Quota breaker | reads the totals | refuse a submission over quota | showback |
| Progress WebSocket (`progress`) | a cursor per socket | replay, tail, ping, end at a terminal event, end at a lifetime | event stream |
| Tier routing | one list per GPU tier | route by the envelope's tier | queue |
| Stats, metrics | a cache behind a lock | gather, serve cached | queue, heartbeats |
| Model install | status hash, `.part` file | check, start a thread, download, rename | volume |
| Outputs, workspaces, identity | none | pure path and name computations | volume |

Outside the model for good: manifests, KEDA, shell scripts, the page, the
single-user image, tests and documents (tests and documents are read as
evidence of what the code promises).

**What is hard here.** Two reapers on one entry; a worker that is declared dead
and is not (heartbeat lapse) racing the reap of its own entry; a death between
any two commands of either program; a claim that expires under a stalled
reaper; a Redis error in the middle of a reap, of a report or of a clean-up; a
write made from knowledge one round trip old; and a queue whose order is
recomputed from what pops have left in it.

**What makes each part correct.** No job is lost; a workflow is handed to
ComfyUI once; retries are bounded and counted; a clock is billed once; a
withdrawn job does not start; every job reaches a terminal event; the queue
keeps its ceiling; a submitter's position is what it was told and no batch
starves anyone. No job is submitted to a ComfyUI still running the last one; a
page sees every event of its job in order and nothing after the last; a torn
model file is never published by a failure the code can see; a month's report
adds up, and a spent quota is refused.

## 2. Modules

```
PoolState ── WorkerAgent ─┐
         ├── ReaperTask ──┼── JobPool ── MCJobPool
         └── SubmitPath ──┘         ├── (implements) JobLedger
                                    └── JobPoolProofs ── PoolHandoverProofs
                                                              └── PoolRecordProofs
FairQueue ── MCFairQueue
         └── FairQueueProofs
ComfyRunner ── ComfyRunnerProofs
ProgressTail ── (implements) EventFeed
         └── ProgressTailProofs
ModelInstall ── ModelInstallProofs
Showback ── ShowbackProofs
```

**PoolState** declares what is shared: the Redis keys (`queue`, `payload`,
`state`, `stream`, `proc`, `alive`, `claim`, `failures`, and `undeliverable`, a
list kept to `ReapUndeliverableMax` entries), each process's program counter and
locals (`wk`, `rp`, `sub`) and history variables that only properties read;
`trimmed` is what the LTRIM pushed off that list. It also has the scripts both
sides run.

**WorkerAgent** has one action per Redis command, or request to ComfyUI, of one
worker *incarnation* (a restarted container is another element of `Workers`,
as `worker_agent.py` names its list and heartbeat by incarnation). A program
counter names the next command: `popped`, `start`, `prologue`, `claim`,
`submit`, `running`, `report`, `bill`, `status`, `emit`, `remove`, `drop`.
Faults: `Die` (anywhere), `Retire` then `Deregister` (a clean exit),
`HeartbeatLapses` (alive but taken for dead), `WorkerBlip` (a Redis command
raises: each place has the handler the code has there).

**ReaperTask** has one action per command of one replica's reaper: `list`,
`claim`, then under the claim `check`, `fence`, `decide`, `fetch`, `depth`,
`count`, `requeue` or `handback`, `mark`, `announce`, or the terminal branch
`bill`, `status`, `drop`, `emit`, then `remove`, `release`; and `defer`,
`setaside` for a reap that failed. Faults: `GatewayDies`, `ReapBlip`,
`ClaimExpires` on a reaper that is still working.

**SubmitPath** is `generate()` from the enqueue on, and `cancel()`.

**JobPool** composes them (`Progress` and `Misfortune`), states fairness and the
properties. **MCJobPool** gives fault budgets and symmetry.

**JobLedger** is what the pool promises about one job's work, without queues,
lists, fences or claims: clocks started, workflows handed to ComfyUI, clocks
billed and retries, each allowed only against the others. `KeepsLedger` in
JobPool says that JobPool implements it; the history variables `late` and
`stale` are its `doubtful`, the jobs whose breadcrumb was overwritten.

**FairQueue** is one tier's list, as a sequence, with the insert computed as the
script computes it (service order, rounds, insert point, physical index, then
LPUSH, RPUSH or LINSERT against a pivot), called by `Submit` and `Requeue`, and
popped from the tail.

**ComfyRunner** is one agent and the ComfyUI beside it, below the level of
WorkerAgent: what that module calls `SubmitPrompt` and `PromptEnds` is here the
POST, the socket, the deadline, `interrupt()`, the drain and the wedged exit.
`pc` goes `poll`, `connect`, `check`, `claim`, `post`, `posted`, `listen`,
`collect`, `leave`, `drain`, `report`, and `gone` for a process that exited. The
except and finally clauses of `run_job()` are `Raise` and `Leave`. `connect` and
`collect` call the shared volume (`ensure_workspace()`, `collect_outputs()`),
which nothing bounds. ComfyUI is what `test/fake_comfy.py` shows of it and what
the agent is written to accept: a queue, one running prompt, an interrupt that
reaches the running prompt or is lost, frames of every prompt on one socket. The
last frame of a prompt is sent before the prompt leaves the queue, after, or
never, and may lack a `prompt_id`, which the filter lets through; a prompt that
ended, however it did, may be in `/history`, where `prompt_finished()` looks for
no more than an entry. ComfyUI promises nothing: a prompt may never end, an
interrupt may never be obeyed, the socket may close, the process may die.
Ownership in Redis is one flag that a reap may clear at any time; what the reap
does is JobPool's subject.

**EventFeed** says what one connection to a job's progress promises: events in
order, none skipped that the stream still held, nothing after the one that ended
the job. **ProgressTail** is `progress()`, one action per place where the
coroutine waits: the look-up of the job (`TurnAway`, `Admit`), the XREAD (`Read`,
`ReadFails`, `CloseAtLifetime`), each event sent (`SendEntry`, `SendFailed`), and
the browser going away. The job's events, its state hash and the TTLs of both
keys are its environment, as `emit()`, `arm_state_ttl()` and the reaper's
EXPIRE NX leave them. The refinement is by name: `log`, `dropped` and `shown`
are the abstract variables, and `TERMINAL_TYPES` its `Ends`.

**ModelInstall** is several requests for one file, on any replicas, as the
volume sees them: the names `.part` and the real one point at inodes, a thread
goes on writing the inode it opened whatever the name points at since, and an
inode's content is the set of chunks it holds. The status hash is two facts: the
status, and whether it was updated lately.

**Showback** is time in ticks, a hash per period, and per job the three fields
of the state hash that the accrual reads. Submission reads the quota's field
under the raw header; the hash is seeded, after the enqueue, with the clamped
one; the job's end runs the script. Which of a worker and a reaper claims a
clock first, and the accruals of fenced attempts, are the pool's.

Definitions marked "Fault" are plausible bugs of the code beside them (an RPOP
for the LINDEX, a dropped guard, an index off by one). No specification uses
them; each is the form a property is checked to refute.

### Abstractions

- In the pool the queue and the processing lists are sets, so any entry may be
  served next and any may be a list's tail. `FairQueue` has the order.
- An entry is a job and an attempt number. The reaper names an entry by a hash
  of its bytes, which differ between attempts of one job; `RequeueSameBytes`
  shows what follows if they did not.
- Keys with a TTL of an hour or more (state, payload, stream, the operator's
  list) do not expire. The keys with short TTLs, heartbeats and claims, do.
- A Redis error means the command was not executed. The POST to ComfyUI is the
  exception: it may raise having been sent or not.
- What goes on inside a process between two commands is only time.
- The reaper's removal of entries it cannot parse, and the formatting of events,
  are left out.
- `defer_stranded_entry()`'s LMOVE, LTRIM and DEL are one step, `SetAside`. The
  list is a set, so an LTRIM of a full one drops any other entry, the oldest
  among them.
- `cancel()` is a check and a write of one flag; it is one step.
- In ComfyRunner a job's prompt has its job's number, and only the frames that
  end a prompt are sent; the manifest of files an outcome carries is left out:
  `collect_outputs()` returns (`Collect`) or raises (`CollectRaises`). An error
  anywhere in the loop is `GiveUp`.
- In ProgressTail the three terminal types are one kind, `end`; `bare` is an event
  with null data, which `forwardable()` passes on and `rewrite_image_urls()` does
  not survive. A ping is only time. An entry that is not JSON is left out: no
  writer makes one.
- In ModelInstall an install that fails for any reason does so in
  `DownloadFails`; which limit or header it was is not told apart.
- In Showback seconds are ticks, so rounding and binary fractions are left out.

## 3. Runs

Each run of the pool fixes a fault budget: at most that many faults of the kinds
named and none of any other. One job is enough for everything that is about
one job's record: its entries, attempts, claims and clock are per job, and the
things jobs compete for are room on the queue, which `pool_backpressure` covers
with two jobs and one place, and room on the operator's list, of which below. `MaxJobRetries = 1` is the code's default.
With one retry, two workers are enough because a third could only repeat the
second's part (the worker that takes the retry), and the same goes for replicas,
of which the deployment has two; what two retries add is described below.
`ReapMaxAttempts = 2` makes both branches of the deferral happen.
`ReapUndeliverableMax = 1` is a list of one place, and no run fills it: an entry
pushes out one of another job only where reaps of two jobs fail repeatedly, which
is beyond a run's size. The case is `NoJobIsLost`'s, which holds for every cap.

| Run | Faults | Checks |
|---|---|---|
| `pool_deaths` | two deaths, a Redis error in a worker | `PayloadForQueued`, `PhaseTruthful`, `ReapExclusive`, `ClocksAccounted`, `WithdrawnNeverStarts`, with two workers, two replicas and a cancel at any moment |
| `pool_reap_faults` | a death, a gateway death, two Redis errors in reaps | `NoLostJob`, `RequeueBound`, `EntryInOnePlace` |
| `pool_lapse` | a heartbeat lapse | `KeepsLedger` (the refinement), `SingleHandover` |
| `pool_backpressure` | a death, a stalled reaper | `TypeOK`, `QueueBound`, `RetriesCounted`: two jobs, one place, and two reaps of one entry at once |
| `pool_live` | a death, a gateway death | `EventuallyReported` under `FairSpec` |
| `fair_queue` | retries | `OneOfEachAhead`, `PlaceKept`, `PositionTruthful`, `OnlySplices`, `NextStaysNext`, `InsertKeepsRounds` |
| `comfy_runner` | ComfyUI's death or silence, a closed socket, frames that are lost, late or name no prompt, errors, a reap, a restart | `OutcomeTruthful`, `ExitJustified`, `TakesOnlyWhenFree`; `JobEnds` and `AbandonedIsCleared` under fairness |
| `progress_tail` | Redis errors, disconnects, expiry of both keys | `FollowsFeed` (the refinement), `EndedMeansOver`; `SocketEnds` under fairness |
| `model_install` | errors at every step, cut connections, deaths, Redis outages | `TornOnlyUnseen`, `DoneMeansPresent`, `PartCleanedUp` |
| `showback` | failed quota reads, expiring hashes, skewed clocks, a full hash | `ReportAddsUp`, `HashBounded`, `QuotaHolds` |

`fair_queue` runs every history of six submissions in three lanes with a ceiling
of five and one entry in a worker's hands: enough for a lane with a batch, a
lane whose later job comes back after a pop, and a third whose lane is empty,
with a refusal and a retry.

`comfy_runner` takes two jobs, so that what the first leaves behind (a prompt, a
flag, a frame) meets the second, and one restart, so that a later incarnation
meets what an earlier one reported; a third job would meet only what the second
left. `progress_tail` has one socket, which may be opened any number of times
(sockets share nothing but the keys, which they only read), four events, so that
a batch of two can hold an event, the end of the job and one past it, and a TTL
of two ticks. `model_install` needs three installs for the case of a failed one
that unlinks the `.part` of a second, whose rename then publishes the file of
the third; two chunks tell a part of a file from the whole. `showback` has one
name more than the cap leaves room for, one that is clamped, and two periods.

Runs stop on purpose (`CHECK_DEADLOCK FALSE`): all jobs may be finished, every
worker may be dead.

**Fairness** (`FairSpec`). Weak fairness of each worker's own steps, each
reaper's and each request handler's: they are threads and coroutines that run
to their return. Weak fairness of the heartbeat thread, and of the expiry of a
dead process's heartbeat and claim, which are Redis TTLs. Strong fairness of
`FindDeadList(g, w)`, because a tick scans every `comfy:processing:*` key and
visits each in turn, so that a list it finds again and again is not passed over
for ever. Nothing is assumed of deaths or errors. `PrologueRaises`,
`PromptEnds` and the rest are alternatives within `WorkerStep`: no outcome of
a job is assumed.

`WorkerStep` covers the prologue and the end of a job whole, so in the pool
weak fairness also assumes that the calls to the shared volume return;
`worker_agent.py` says of the first, the mkdir of `ensure_workspace()`, that
nothing bounds it. `EventuallyReported` is therefore under a volume that answers.

ComfyRunner does not assume that. Fair there are only the agent's steps that
wait for Redis or ComfyUI (`TimedStep`) and, each by itself, the deadline of the
job (`GiveUp`), that of the drain (`DrainTimesOut`), the report of a failure and
the exit: each request has a timeout, and each loop is `time.time()` against a
constant. `UseVolume` is not fair, so an agent may stay at `connect` or `collect`
for ever, and `JobEnds` promises nothing from there. The agent is not obliged to
take a job. Nothing is assumed of ComfyUI, of cancels, of reaps or of restarts. In
ProgressTail time passes and the coroutine runs (`Tick`, `Serve`); nothing is
assumed of the job, of Redis or of the browser.

### What the pool keeps, and what it does not

The passing runs show the main claims of the code to hold under the faults it
is written for. Some of its comments are contradicted by an interleaving. Two
have a run (`expect: violation`):

- `payload_deleted_under_retry`. The reaped worker's LREM still finds the entry,
  as it stays parked until the reap is over; the worker then deletes the
  workflow the retry needs, and the worker that pops the retry cannot report it
  either, being fenced out by the reaper's mark.
- `half_written_model`. A connection closed early reads as the end of the file,
  and the bytes received are never compared with the Content-Length.
  `TornOnlyUnseen` says what is left: besides such a connection only downloads
  that overlap publish a torn file.

The others are stated beside the properties of their modules, where a cfg with
that property alone shows the trace:

- `HandedOnce` (as `pool_lapse`, with a death in place of the lapse).
  `generate()` writes `phase=queued` after the job is on the queue. A fast
  worker has by then written `executing` and handed the workflow to ComfyUI; if
  it dies, the reaper reads `queued` and retries. `requeue_orphaned_job()` has
  the same late write. A job that this can happen to is in the history variable
  `late`.
- `ReapedMeansAbandon` (as `pool_lapse`). `run_job()`'s opening HSET writes its
  own incarnation as the owner without looking, so a reap between the BLMOVE and
  that HSET is erased and `claim_executing()` passes. Such a job is in `stale`.
- `ReapedOnce` (one death, two replicas). The tail is read before the claim is
  taken, and a finished reap deletes its claim.
- `RetryCanStillRun` (one death, and a gateway's death or a Redis error in its
  reap). `requeue_orphaned_job()` has put the retry on the queue and does not get
  to mark the entry. The entry is reaped again, `attempt_count` is one too many
  by then, and `fail_orphaned_job()` ends the job and deletes the workflow of the
  retry that waits. The comment at `hub.py:1916` expects a duplicate terminal
  event and at-least-once execution. `OnlyUnmarkedRetriesLose` proves that this
  window is the only way to such an entry, as long as claims and heartbeats hold.
- `LaneInOrder` of FairQueue (two lanes, eight jobs, no retries). Rounds are
  recomputed after pops. With `a a b` ... served down to b's only job behind
  three of a's, a new job of b at round 1 is inserted ahead of a's third job at
  round 2 and so ahead of b's first.
- `NeverTakesWhileBusy` (as `comfy_runner`). The POST times out after ComfyUI
  has the prompt: without an id there is nothing to interrupt and nothing is
  awaited, and the next job is submitted behind it. `TakesOnlyWhenFree` is the
  same of the prompts the agent was given an id for, and holds.
- `OutcomeAlwaysTruthful` (as `comfy_runner`), in two ways. `run_job()` passes
  a frame whose `prompt_id` is missing (`worker_agent.py:1958`), so one that is
  about a prompt abandoned earlier ends the next job, as completed where it is an
  `executing` with no node. And a prompt that failed, whose last frame has not
  come when the socket times out or closes, is reported completed where
  `/history` has an entry of it, whatever its status (`worker_agent.py:2047`).
  `OutcomeTruthful` names these two doors and holds of everything else;
  `TakesOnlyWhenFree` and `AbandonedIsCleared` name the first, as a job that it
  ended was not interrupted.
- `FailedMeansFailed` (as `progress_tail`). An event whose data is null, which
  `run_job()` forwards, makes `rewrite_image_urls()` raise, and the generic
  handler tells the page that the job failed while it runs.

- `SingleHandover` and `KeepsLedger` with `MaxJobRetries = 2` (three workers, one
  replica, a worker's death and a gateway's). The gateway dies after
  `requeue_orphaned_job()` has enqueued the retry and before it has marked the
  entry, so the entry is reaped again. That second reap reads `queued`, the
  worker with the retry then starts, claims and submits, and the reap requeues
  the job all the same: two live workers run it at once. With the default of one
  retry `attempt_count` stops the second requeue, and what is left of this is
  what `RetryCanStillRun` says.

With the default of one retry `PhaseTruthful`, `SingleHandover` and
`KeepsLedger` name `late` and `stale` as the only two doors: whatever else dies
or lapses, a workflow is handed over once.

`QuotaHolds` names what the breaker lets through: a read that failed (on
purpose), a header longer than an envelope field, which is read raw and billed
clamped, and seconds that went to another line: to `other` for want of room, or
to `anonymous` because the job ended before its hash was seeded or after it had
expired on the queue.

Four more behaviours are known from modelling and have no property: an error out
of the last `finish()`, followed by a clean-up that succeeds, leaves a job with
no record (`worker_agent.py:2393`); a failure reported at phase `dispatched` and
followed by a death before the LREM is retried after its terminal event
(`hub.py:1995`); a reaped worker that removes its entry in the middle of a
failing reap leaves nothing parked for the next tick (`hub.py:2197`); and the
LMOVE of `defer_stranded_entry()` moves whatever is at the tail by then
(`hub.py:2138`), which `EntryInOnePlace` bounds.

## 4. Proofs

**JobPoolProofs**, for any finite sets of jobs, workers and replicas and any
budget of faults, from the assumptions in `PoolState` (finite sets, natural
bounds, `None` distinct from the names and from every entry):

- `IInv == TypeOK /\ RetriesOK /\ ClocksAccounted` is inductive. The three
  need one another: `attempt_count` stays a natural number only because
  `RetriesOK` says a hand-back has a counted attempt to return, and the type of
  an entry (attempt at most `MaxJobRetries`) only because a reap at `requeue`
  was told a permitted attempt (`ReaperShape`). `RetriesOK` sums the retries
  spent and those that reaps hold, so two reaps of one job need no exclusion.
- From it: `TypeCorrect`, `CountCoversRetries`, `GrantsBounded`,
  `RequeueBounded`, `ClocksBalance`. `QueueBounded` has an
  invariant of its own (the queue is finite and within its ceiling): only two
  actions make the queue longer, and both test it in the same step.

**FairQueueProofs**, for any number of lanes, submissions, retries and any
ceiling:

- `IInv == TypeOK /\ OnePlace /\ OneOfEachAhead /\ PlaceKept`. `OnePlace` (no
  job is twice on the list or also in a worker's hands) is needed because
  LINSERT finds its pivot by value. Two lemmas carry the argument:
  `FirstNotPassed`, that entries up to one whose lane was empty are all at round
  zero and a new entry goes ahead of a later round only; and `FirstJoinsAlone`,
  that an entry joining an empty lane has only round-zero entries ahead.
  Rounds are cardinalities, but that argument only ever asks whether one is
  zero, so no induction over the list is needed.
- From it: `TypeCorrect`, `AtMostOneOfEachAhead`, `NeverOvertaken`,
  `FrontNeverChanges`, `PositionIsTruthful` and `InsertsOnlySplice`, the second
  of these through the two index systems of the script.
- `InsertsKeepRounds`. Behind the place an entry takes, everybody's round is
  later than its own, so nobody there is of its lane and its round is what the
  script says; the others keep theirs, by a bijection between the entries
  counted before and after (`CountBehind`).

**ProgressTailProofs**, for any number of sockets, callers and events, any batch
size, error limit and TTL:

- `Refinement`: ProgressTail implements EventFeed. `TailInv` adds to the types
  what a socket's cursor and batch stand for: what it has shown is the log up to
  `last_id` but for what had been dropped, and holds no end; its batch goes on
  from there without a gap, but for what is dropped (`Replayed`); a socket that
  has not begun has cursor zero and has shown nothing. `OthersKeep` carries this
  over every append and expiry, `NextInOrder` gives `Deliver`'s guard.
- `EndAgreed` (`EndedMeansOver`), from the same invariant: a socket still served
  has shown no end, so whatever else closes it is not mistaken for one.

**ModelInstallProofs**, for any number of requests and any size of the file:

- `TornIsUnseen`. `TornInv` says that `.part` is never the published inode
  (`Apart`), that an install which has opened nothing has its inode still
  unused (`Unused`) and, as long as no two threads overlapped and no source
  stopped early, that there is one thread at most and the inode it writes holds
  what it has read (`AllWhole`).
- `DoneIsTrue` and `PartIsCleanedUp`, each from a one-line invariant: a thread
  about to report has published, and a `.part` has a thread that will move or
  unlink it.

**PoolHandoverProofs**: who has an entry and who may hand its workflow to
ComfyUI, for any number of jobs, workers and replicas and any faults.

- `EntryInOnePlaceAlways`, `PhaseTruthfulAlways`, `HandedOverOnce` and
  `PoolKeepsLedger` (the refinement of JobLedger, step by step) assume
  `MaxJobRetries <= 1`, the code's default. The limit is the code's: with two
  retries the last two are false, as section 3 says, and a retry handed back on
  a full queue can leave its attempt number to be issued again.
- They share one invariant, `IInv /\ HRest /\ Placed`. `Issued` says that what
  an attempt number stands for was submitted or retried, so a new one is new;
  `Placed`, that one worker holds an entry and it lies in one place; `Owed`
  counts: clocks started and entries still to be opened within submission and
  retries, hand-overs and workers about to hand over within clocks. `Truthful`
  is the part about breadcrumbs: for a job not in `late` or `stale`, a worker
  about to submit is alone and the phase is `executing`; once it is, every other
  way to ComfyUI is shut; and no worker claims what a reap has fenced. The parts
  need one another: the counts bound the hand-overs only because no retry is
  given once the phase is `executing`, and that phase stays only as nobody else
  has the entry.
- `LedgerBalances`: whatever implements JobLedger hands over and bills no more
  than it starts, and starts no more than one clock for the submission and one
  for each of at most `MaxJobRetries` retries. This is of JobLedger alone and
  needs no bound.
- `WithdrawnStaysAway`, without a hypothesis, from a cancel flag that no
  command clears and a worker that is past its check only with a job in hand.
- `ReapsExclude` assumes that no reaper outlives its claim; with a stall two do
  meet in one entry, which the code accepts.

**PoolRecordProofs**: what a job needs stays in Redis as long as it is needed.

| Theorem | Faults allowed, in any number | Faults excluded |
|---|---|---|
| `OnlyUnmarkedRetriesLose` | deaths of workers and gateways, Redis errors anywhere | heartbeat lapses, stalled reapers |
| `QueuedHavePayload` | deaths of workers, Redis errors in workers | also gateway deaths, errors in reaps |
| `NoJobIsLost` | deaths of workers and gateways, errors in reaps | also Redis errors in workers |

All three have `MaxJobRetries <= 1`: the argument tells a job's first entry from
its retry. Each exclusion of the last two is needed: allowing one fault of an
excluded kind, beside one death, TLC finds the property false with two workers
and two replicas.

- *A lapse* is `payload_deleted_under_retry`. For `NoLostJob` it is the worker
  taken for dead that removes its entry in the middle of the reap.
- *A stalled reaper* decides by what it read before another replica's reap of
  the same entry, and deletes the workflow, or the owner, of the other's retry.
- *A gateway's death or a Redis error in a reap* is what `RetryCanStillRun` shows.
- *A Redis error in a worker*, raised as it fetches the workflow or reports the
  end, is followed by the clean-up that removes the entry (`CrashOut`, and
  `worker_agent.py:2393`).

`FetchInv` is what the three share. Only lists of the dead are reaped and a live
worker's entry is on its own list (`DeadLists`, `HeldParked`); an entry a reap
has looked at is therefore in no worker's hands nor on the queue (`Apart`); the
mark names the first entry, and only of a job that was retried (`Marks`); and
whoever will fetch a workflow finds it, unless the job is `Fallback`: retried,
with nobody left to write the mark (`PayloadKept`). That state is final, so it is
an exception a job enters once, and `Unbroken` shows that nothing but the
two kinds of failure inside a reap lead into it. `RecordInv` adds that what a
reap has looked at stays parked until the job has ended or the mark is written
(`StillParked`, `RemovalDue`), that a live worker which finds another owner has
a job that ended or is `Fallback` (`Disowned`), and that the last entry of a job
without an end is kept (`Kept`): a `Fallback` job is not lost either, because
its first entry is still parked. The exception of `Kept` and of the theorem is a
record that the LTRIM of a full operator's list pushed out; that such a list
stays full, as only its TTL takes entries off it, is `AsideCapped`.

**ComfyRunnerProofs**, for any number of jobs and restarts and without a
hypothesis: `AgentTypeOK`, `OutcomesAreTruthful`, `ExitsAreJustified`,
`TakesWhenFree`. `RInv` says which prompt the agent awaits at each step
(`InHandOK`), that an interrupt that reached the job in hand was asked for or
comes after it (`InterruptsOK`), that ComfyUI knows no prompt not yet posted
(`PostedOK`), that a frame which names a prompt tells how it ended, and an entry
of the history only that it did (`ServerOK`), what the agent has taken for the
end of a job while it collects and afterwards (`EndsOK`), and where the agent is
while ComfyUI still has a prompt it knows by its id (`LeftOver`), which is what
`TakesOnlyWhenFree` needs at the step that takes.

**ShowbackProofs**, for any number of jobs, names and periods and a finite set
of tiers (`TiersAssumption`; `GPU_TIERS` is a list): `TypeCorrect`,
`ReportIsComplete`, `HashStaysBounded`, `SpentIsRefused`. The sums of the report
are folds, whose value for every set needs an induction that the provers cannot
instantiate. The proofs state a sum as the cardinality of a heap with `f[x]`
pieces for each `x`, show that this satisfies the fold's equation, and that on a
finite set nothing else does (a smallest set where they differ cannot exist).
`SInv` says line by line what a period's hash holds of the bills in it
(`BooksOK`, `BilledOver`, `BillLinesOK`) and which names it has (`NamedOK`),
which bounds it.

Only model-checked:

- `EventuallyReported`, `JobEnds`, `AbandonedIsCleared`, `SocketEnds`: liveness
  is beyond the prover.
- What the two `violation` runs refute, and the variants of section 3.

## 5. Plan

1. *Done*: the modules of section 2; every invariant and every action property
   the passing runs check is a theorem, and both refinements are.
2. Next: which theorems of PoolHandoverProofs and PoolRecordProofs hold for more
   than one retry when gateways neither die nor err inside a reap. For
   `PayloadForQueued` and `NoLostJob` TLC finds no counterexample with two
   retries, three workers and two deaths.

### Not modelled

- *Stats, metrics, estimated wait*: figures nobody acts on, computed under an
  `asyncio` lock and at most a cache lifetime old.
- *Tiers*: a tier is one more list of the same kind. A job and its retry go to
  the list the envelope names, and lists share nothing but the workers' choice
  of one at start-up.
- *Outputs, workspaces, identity, validation of requests and of install
  sources*: pure functions of their input, tested as such in `test/unit`.
- *The page*: rendering. That it may connect, leave and come back at any moment
  is in ProgressTail.
- *Malformed queue entries and other versions' envelopes*: read tolerantly or
  dropped at one place each.
- *KEDA, manifests, shell scripts, the single-user image, reports and documents*:
  configuration of other systems, and offline programs.
- A *keepalive that outlives its bounded join* (`worker_agent.py:2429`).
