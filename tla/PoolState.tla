------------------------------ MODULE PoolState ------------------------------
(***************************************************************************)
(* What the gateway replicas and the worker pods share, and nothing else:  *)
(* one Redis, each of whose commands (and Lua scripts) is atomic, and the  *)
(* place every process has reached between two of its commands.            *)
(*                                                                         *)
(* The modules WorkerAgent, ReaperTask and SubmitPath give one action per  *)
(* Redis command of the three programs, and JobPool composes them with the *)
(* faults the code is written for.                                         *)
(*                                                                         *)
(* Two abstractions hold throughout.  The queue and the processing lists   *)
(* are sets: the order in which a list is served is the subject of         *)
(* FairQueue, and here every order is possible.  Nothing expires that has  *)
(* a TTL of an hour or more (job state, payload, event stream, the list of *)
(* entries set aside).                                                     *)
(***************************************************************************)
EXTENDS Integers, FiniteSets, Sequences

CONSTANTS
  Jobs,                  \* job ids, one per POST /api/generate
  Workers,               \* worker INCARNATIONS: a restart is another one
  Gateways,              \* gateway replicas, one reaper task each
  MaxJobRetries,         \* MAX_JOB_RETRIES
  MaxQueueDepth,         \* MAX_QUEUE_DEPTH
  ReapMaxAttempts,       \* REAP_MAX_ATTEMPTS
  ReapUndeliverableMax,  \* REAP_UNDELIVERABLE_MAX
  MaxFaults,             \* bound: how many faults of each kind there are
  Cancellable,           \* bound: the jobs somebody may cancel
  None                   \* an absent field or key

FaultKinds == {"death", "lapse", "gateway", "stall", "reapblip", "workerblip"}

ASSUME SetsAssumption == /\ IsFiniteSet(Jobs)
                         /\ IsFiniteSet(Workers)
                         /\ IsFiniteSet(Gateways)
ASSUME BoundsAssumption == /\ MaxJobRetries \in Nat
                           /\ MaxQueueDepth \in Nat \ {0}
                           /\ ReapMaxAttempts \in Nat \ {0}
                           /\ ReapUndeliverableMax \in Nat \ {0}
ASSUME FaultsAssumption == /\ MaxFaults \in [FaultKinds -> Nat]
                           /\ Cancellable \subseteq Jobs
ASSUME ReapedAssumption == "reaped" \notin Workers

(***************************************************************************)
(* A queue entry is the ordering record of one attempt: the reaper names   *)
(* an entry by the hash of its bytes, and the bytes of two entries of one  *)
(* job differ in the attempt they carry.                                   *)
(***************************************************************************)
Entries == [job : Jobs, attempt : 0 .. MaxJobRetries]

Entry(j, n) == [job |-> j, attempt |-> n]

Phases == {"queued", "dispatched", "executing"}

ASSUME NoneAssumption ==
         None \notin Workers \cup Gateways \cup Entries \cup Phases \cup {"reaped"}

\* Fault: a job ComfyUI has is retried too.
EveryPhase == Phases

RetryablePhases == {"queued", "dispatched"}

Reaped == "reaped"
TerminalTypes == {"completed", "failed", "cancelled"}
Statuses == {"queued", "running"} \cup TerminalTypes

WorkerPCs == {"idle", "popped", "start", "prologue", "claim", "submit",
              "running", "report", "bill", "status", "emit", "remove", "drop",
              "crash", "exit", "gone", "dead"}

\* The worker has no job in hand.
FreePCs == {"idle", "exit", "gone", "dead"}

\* The steps of a reap that run under the claim on its entry.
ReapPCs == {"check", "fence", "decide", "fetch", "depth", "count", "handback",
            "requeue", "mark", "announce", "bill", "status", "drop", "emit",
            "remove", "release", "defer", "setaside"}
ReaperPCs == {"idle", "list", "claim"} \cup ReapPCs

VARIABLES
  queue,          \* comfy:queue, a set of entries
  payload,        \* the jobs whose comfy:job:<id>:payload exists
  state,          \* comfy:job:<id>:state, a hash per job
  stream,         \* the retry and terminal events of comfy:job:<id>:events
  proc,           \* comfy:processing:<incarnation>, a set of entries each
  alive,          \* the incarnations whose comfy:worker:<incarnation> exists
  claim,          \* comfy:reap:claim:<entry>, and who set it
  failures,       \* comfy:reap:failures:<entry>
  undeliverable,  \* comfy:reap:undeliverable
  wk,             \* each worker's program counter and locals
  rp,             \* each reaper's program counter and locals
  sub,            \* how far generate() got with each job
  faults,         \* how many faults of each kind have happened
  handed,         \* history: per job, POSTs ComfyUI may have received
  starts,         \* history: per job, GPU clocks started
  bills,          \* history: per job, GPU clocks billed
  requeues,       \* history: per job, retries put on the queue
  fenced,         \* history: the entries some reaper has fenced
  late,           \* history: jobs marked queued while already executing
  stale,          \* history: jobs started from an entry already fenced
  withdrawn,      \* history: jobs cancelled on the queue, in nobody's hands
  trimmed         \* history: the entries set aside and since pushed out

redisVars == <<queue, payload, state, stream, proc, alive, claim, failures,
               undeliverable>>
history == <<handed, starts, bills, requeues, fenced, late, stale, withdrawn,
             trimmed>>
vars == <<redisVars, wk, rp, sub, faults, history>>

JobStates == [status : Statuses \cup {None}, phase : Phases \cup {None},
              owner : Workers \cup {None, Reaped}, cancel : BOOLEAN,
              count : Nat, requeuedFrom : Entries \cup {None},
              clock : BOOLEAN]

WorkerLocals == [pc : WorkerPCs, entry : Entries \cup {None},
                 out : TerminalTypes \cup {None}, final : BOOLEAN,
                 known : BOOLEAN]

ReaperLocals == [pc : ReaperPCs, list : Workers \cup {None},
                 entry : Entries \cup {None}, attempt : Nat,
                 out : TerminalTypes \cup {None}]

RedisTypeOK ==
  /\ queue \subseteq Entries
  /\ payload \subseteq Jobs
  /\ state \in [Jobs -> JobStates]
  /\ stream \in [Jobs -> Seq(TerminalTypes \cup {"retry"})]
  /\ proc \in [Workers -> SUBSET Entries]
  /\ alive \subseteq Workers
  /\ claim \in [Entries -> Gateways \cup {None}]
  /\ failures \in [Entries -> Nat]
  /\ undeliverable \subseteq Entries

\* A worker at a step that acts on a job holds one, and one that reports an
\* outcome has one.
WorkerShape(l) ==
  /\ l.pc \notin FreePCs => l.entry \in Entries
  /\ l.pc \in {"report", "bill", "status", "emit"} => l.out \in TerminalTypes

WorkerTypeOK ==
  /\ wk \in [Workers -> WorkerLocals]
  /\ \A w \in Workers : WorkerShape(wk[w])

\* Likewise a reaper; and one about to requeue was told a permitted attempt.
ReaperShape(l) ==
  /\ l.pc # "idle" => l.list \in Workers
  /\ l.pc \notin {"idle", "list"} => l.entry \in Entries
  /\ l.pc = "requeue" => l.attempt \in 0 .. MaxJobRetries
  /\ l.pc \in {"bill", "status", "drop", "emit"} => l.out \in TerminalTypes

ReaperTypeOK ==
  /\ rp \in [Gateways -> ReaperLocals]
  /\ \A g \in Gateways : ReaperShape(rp[g])

HistoryTypeOK ==
  /\ sub \in [Jobs -> {"new", "enqueued", "accepted", "refused", "lost"}]
  /\ faults \in [FaultKinds -> Nat]
  /\ handed \in [Jobs -> Nat]
  /\ starts \in [Jobs -> Nat]
  /\ bills \in [Jobs -> Nat]
  /\ requeues \in [Jobs -> Nat]
  /\ fenced \subseteq Entries
  /\ late \subseteq Jobs
  /\ stale \subseteq Jobs
  /\ withdrawn \subseteq Jobs
  /\ trimmed \subseteq Entries

TypeOK == RedisTypeOK /\ WorkerTypeOK /\ ReaperTypeOK /\ HistoryTypeOK

(***************************************************************************)
(* Shared commands.                                                        *)
(***************************************************************************)

IdleWorker == [pc |-> "idle", entry |-> None, out |-> None, final |-> FALSE,
               known |-> FALSE]
IdleReaper == [pc |-> "idle", list |-> None, entry |-> None, attempt |-> 0,
               out |-> None]
NewJob == [status |-> None, phase |-> None, owner |-> None, cancel |-> FALSE,
           count |-> 0, requeuedFrom |-> None, clock |-> FALSE]
Zero == [j \in Jobs |-> 0]

Init ==
  /\ queue = {}
  /\ payload = {}
  /\ state = [j \in Jobs |-> NewJob]
  /\ stream = [j \in Jobs |-> <<>>]
  /\ proc = [w \in Workers |-> {}]
  /\ alive = Workers
  /\ claim = [e \in Entries |-> None]
  /\ failures = [e \in Entries |-> 0]
  /\ undeliverable = {}
  /\ wk = [w \in Workers |-> IdleWorker]
  /\ rp = [g \in Gateways |-> IdleReaper]
  /\ sub = [j \in Jobs |-> "new"]
  /\ faults = [k \in FaultKinds |-> 0]
  /\ handed = Zero /\ starts = Zero /\ bills = Zero /\ requeues = Zero
  /\ fenced = {} /\ late = {} /\ stale = {} /\ withdrawn = {} /\ trimmed = {}

\* Fault: an off-by-one in the depth test.
QueueOverfull == Cardinality(queue) > MaxQueueDepth

\* The depth test is inside the enqueue script, atomic with the insert.
QueueFull == Cardinality(queue) >= MaxQueueDepth

\* FAIR_ENQUEUE_LUA once it has passed the depth test: payload, then pointer.
FairEnqueue(e) ==
  /\ queue' = queue \cup {e}
  /\ payload' = payload \cup {e.job}

\* HSET on the state hash of a job.
HSet(j, fields) == state' = [state EXCEPT ![j] = fields]

\* Fault: the clock is read and left running.
AccrueKeepingClock(j) ==
  /\ bills' = IF state[j].clock THEN [bills EXCEPT ![j] = @ + 1] ELSE bills
  /\ UNCHANGED state

\* SHOWBACK_ACCRUE_LUA: HGET started_at and HDEL it in one script.  An absent
\* clock accrues nothing.
Accrue(j) ==
  /\ state' = [state EXCEPT ![j].clock = FALSE]
  /\ bills' = IF state[j].clock THEN [bills EXCEPT ![j] = @ + 1] ELSE bills

\* A gateway writes status=queued, phase=queued without looking first: the
\* history remembers a job that ComfyUI may have had by then.
NoteLateSeed(j) ==
  late' = IF state[j].phase = "executing" THEN late \cup {j} ELSE late

Fault(k) ==
  /\ faults[k] < MaxFaults[k]
  /\ faults' = [faults EXCEPT ![k] = @ + 1]
==============================================================================
