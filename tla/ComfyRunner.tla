---------------------------- MODULE ComfyRunner ----------------------------
(***************************************************************************)
(* One worker agent and the ComfyUI beside it: run_job() from the POST to  *)
(* the drain.  The agent submits a prompt, listens to a socket that        *)
(* carries every prompt of the instance, gives up on a deadline, an error  *)
(* or a cancel, asks ComfyUI to stop, and takes no other job before its    *)
(* queue is empty, or exits when it will not empty.  Who owns the job in   *)
(* Redis is JobPool's subject: here a reap may end that at any time.       *)
(***************************************************************************)
EXTENDS Naturals, Sequences, FiniteSets, SequencesExt

CONSTANTS
  MaxJobs,      \* bound: how many jobs the worker takes
  MaxRestarts,  \* bound: how many times the container is restarted, and how
                \* many of its incarnations may lose their ComfyUI
  None          \* no prompt, and the id of a frame that names none

ASSUME BoundsAssumption == MaxJobs \in Nat /\ MaxRestarts \in Nat
ASSUME NoneAssumption == None \notin 1 .. MaxJobs

\* Jobs are numbered as they are taken; a job's prompt has its job's number.
Jobs == 1 .. MaxJobs

VARIABLES
  pc,              \* where the agent is
  job,             \* the job in hand, or the last one
  prompt_id,       \* what submit_prompt() returned for it, None before
  raised,          \* an exception is on its way out of run_job()
  interrupt_sent,  \* the module's flag of that name
  after_interrupt, \* await_comfy_idle()'s copy of it
  readable,        \* /queue answered during this drain
  comfy_wedged,    \* the flag main() stops on
  ours,            \* OWNER_FIELD still names this incarnation
  cancelled,       \* the jobs whose cancel was requested
  outcome,         \* per job, the terminal status finish() reported
  queue,           \* ComfyUI's queue, the oldest first
  running,         \* the prompt ComfyUI executes
  interrupted,     \* the prompts an interrupt reached
  verdict,         \* how the execution of each prompt ended
  untold,          \* the prompts that ended and whose last frame is to come
  history,         \* the prompts /history knows
  up,              \* the ComfyUI process lives
  ws,              \* the agent's socket: "none", "open" or "closed"
  frames,          \* the terminal frames sent on it that are still to be read
  answered,        \* history: the prompts whose id the agent was given
  basis,           \* history: per job, what the agent took for its end
  restarts         \* how many times the container was restarted

agent == <<pc, job, prompt_id, raised, interrupt_sent, after_interrupt,
           readable, comfy_wedged>>
redis == <<ours, cancelled, outcome>>
comfy == <<queue, running, interrupted, verdict, untold, history, up>>
socket == <<ws, frames>>
observed == <<answered, basis>>
vars == <<agent, redis, comfy, socket, observed, restarts>>

Terminal == {"success", "error", "interrupted"}
Frames == [kind : Terminal, prompt : Jobs \cup {None}]
Outcomes == {"none", "completed", "failed", "cancelled"}
Bases == {"none", "frame", "nameless", "history"}
Places == {"poll", "connect", "check", "claim", "post", "posted", "listen",
           "collect", "leave", "drain", "report", "gone"}
InRunJob == Places \ {"poll", "report", "gone"}

TypeOK ==
  /\ pc \in Places
  /\ job \in 0 .. MaxJobs
  /\ prompt_id \in Jobs \cup {None}
  /\ {raised, interrupt_sent, after_interrupt, readable, comfy_wedged,
      ours, up} \subseteq BOOLEAN
  /\ cancelled \subseteq Jobs
  /\ outcome \in [Jobs -> Outcomes]
  /\ queue \in Seq(Jobs)
  /\ running \in Jobs \cup {None}
  /\ interrupted \subseteq Jobs
  /\ verdict \in [Jobs -> Terminal \cup {"none"}]
  /\ untold \subseteq Jobs
  /\ history \subseteq Jobs
  /\ ws \in {"none", "open", "closed"}
  /\ frames \in Seq(Frames)
  /\ answered \subseteq Jobs
  /\ basis \in [Jobs -> Bases]
  /\ restarts \in 0 .. MaxRestarts

Init ==
  /\ pc = "poll"
  /\ job = 0
  /\ prompt_id = None
  /\ raised = FALSE
  /\ interrupt_sent = FALSE
  /\ after_interrupt = FALSE
  /\ readable = FALSE
  /\ comfy_wedged = FALSE
  /\ ours = FALSE
  /\ cancelled = {}
  /\ outcome = [j \in Jobs |-> "none"]
  /\ queue = <<>>
  /\ running = None
  /\ interrupted = {}
  /\ verdict = [p \in Jobs |-> "none"]
  /\ untold = {}
  /\ history = {}
  /\ up = TRUE
  /\ ws = "none"
  /\ frames = <<>>
  /\ answered = {}
  /\ basis = [j \in Jobs |-> "none"]
  /\ restarts = 0

-----------------------------------------------------------------------------
(* ComfyUI, as the agent's calls and the test stub show it *)

Concluded == {p \in Jobs : verdict[p] # "none"}

\* One prompt at a time, in the order they came.
StartPrompt ==
  /\ running = None
  /\ queue # <<>>
  /\ running' = Head(queue)
  /\ UNCHANGED <<agent, redis, queue, interrupted, verdict, untold, history,
                 up, socket, observed, restarts>>

\* However a prompt ended /history may know it from then on.  That it may know
\* only those that made outputs is the case of an answer that does not come.
Conclude(kind) ==
  /\ running \notin Concluded \cup {None}
  /\ verdict' = [verdict EXCEPT ![running] = kind]
  /\ history' = history \cup {running}
  /\ untold' = untold \cup {running}
  /\ UNCHANGED <<agent, redis, queue, running, interrupted, up, socket,
                 observed, restarts>>

Succeed == Conclude("success")

Fail == Conclude("error")

\* An interrupt is acted on between steps, or never by a node that does not
\* yield.
Stop == running \in interrupted /\ Conclude("interrupted")

\* What the socket says of a prompt's end: how it ended and of which prompt.
\* A build that leaves the id out may not even say how: executing/node=None
\* reads as a success.
LastFrames(p) ==
  [kind : {verdict[p]}, prompt : {p, None}]
    \cup [kind : {"success"}, prompt : {None}]

\* Somebody will receive what is sent.
Heard == ws = "open" /\ pc \notin {"collect", "leave"}

\* The last frame of a prompt, before it leaves the queue, after, or never.
Announce(p) ==
  /\ p \in untold
  /\ Heard
  /\ untold' = untold \ {p}
  /\ \E f \in LastFrames(p) : frames' = Append(frames, f)
  /\ UNCHANGED <<agent, redis, queue, running, interrupted, verdict, history,
                 up, ws, observed, restarts>>

LeaveQueue ==
  /\ running \in Concluded
  /\ queue' = Tail(queue)
  /\ running' = None
  /\ interrupted' = interrupted \ {running}
  /\ UNCHANGED <<agent, redis, verdict, untold, history, up, socket, observed,
                 restarts>>

\* The socket closes while ComfyUI goes on; what was not received is lost.
CloseSocket ==
  /\ Heard
  /\ ws' = "closed"
  /\ frames' = <<>>
  /\ UNCHANGED <<agent, redis, comfy, observed, restarts>>

\* The process dies, with its queue and its history.
Die ==
  /\ up
  /\ restarts < MaxRestarts
  /\ up' = FALSE
  /\ queue' = <<>>
  /\ running' = None
  /\ interrupted' = {}
  /\ untold' = {}
  /\ history' = {}
  /\ ws' = IF ws = "open" THEN "closed" ELSE ws
  /\ frames' = <<>>
  /\ UNCHANGED <<agent, redis, verdict, observed, restarts>>

Comfy ==
  \/ StartPrompt \/ Succeed \/ Fail \/ Stop \/ LeaveQueue \/ CloseSocket \/ Die
  \/ \E p \in Jobs : Announce(p)

-----------------------------------------------------------------------------
(* run_job(), to the POST *)

\* BLMOVE, and the HSET that makes this incarnation the owner.
Take ==
  /\ pc = "poll"
  /\ ~ comfy_wedged
  /\ job < MaxJobs
  /\ job' = job + 1
  /\ ours' = TRUE
  /\ prompt_id' = None
  /\ raised' = FALSE
  /\ readable' = FALSE
  /\ pc' = "connect"
  /\ UNCHANGED <<interrupt_sent, after_interrupt, comfy_wedged, cancelled,
                 outcome, comfy, socket, observed, restarts>>

\* Connect first, submit second; scoping the workflow or connecting may raise,
\* and that is outside the try.
Connect ==
  /\ pc = "connect"
  /\ \/ up /\ ws' = "open" /\ pc' = "check" /\ UNCHANGED raised
     \/ raised' = TRUE /\ pc' = "report" /\ UNCHANGED ws
  /\ frames' = <<>>
  /\ UNCHANGED <<job, prompt_id, interrupt_sent, after_interrupt, readable,
                 comfy_wedged, redis, comfy, observed, restarts>>

\* finish() reports an outcome only for a job that is still ours.
Finish(status) ==
  /\ outcome' = IF ours THEN [outcome EXCEPT ![job] = status] ELSE outcome
  /\ UNCHANGED <<ours, cancelled>>

\* Every way out of the try goes through its finally, and reads no more of the
\* socket.
Leaving == pc' = "leave" /\ frames' = <<>>

Return == Leaving /\ UNCHANGED raised

CheckCancelled ==
  /\ pc = "check"
  /\ IF job \in cancelled
       THEN Finish("cancelled") /\ Return
       ELSE pc' = "claim" /\ UNCHANGED <<raised, redis, frames>>
  /\ UNCHANGED <<job, prompt_id, interrupt_sent, after_interrupt, readable,
                 comfy_wedged, comfy, ws, observed, restarts>>

\* claim_executing(): a job reaped in the meantime is abandoned unreported.
Claim ==
  /\ pc = "claim"
  /\ IF ours THEN pc' = "post" /\ UNCHANGED <<raised, frames>> ELSE Return
  /\ UNCHANGED <<job, prompt_id, interrupt_sent, after_interrupt, readable,
                 comfy_wedged, redis, comfy, ws, observed, restarts>>

\* The request reaches ComfyUI, which has the prompt from here on.
PostArrives ==
  /\ pc = "post"
  /\ up
  /\ queue' = Append(queue, job)
  /\ pc' = "posted"
  /\ UNCHANGED <<job, prompt_id, raised, interrupt_sent, after_interrupt,
                 readable, comfy_wedged, redis, running, interrupted, verdict,
                 untold, history, up, socket, observed, restarts>>

PostAnswered ==
  /\ pc = "posted"
  /\ up
  /\ prompt_id' = job
  /\ answered' = answered \cup {job}
  /\ pc' = "listen"
  /\ UNCHANGED <<job, raised, interrupt_sent, after_interrupt, readable,
                 comfy_wedged, redis, comfy, socket, basis, restarts>>

\* Fault: whether anything runs is not looked at.
InterruptWhatever ==
  /\ interrupt_sent' = TRUE
  /\ interrupted' = interrupted \cup {running}
  /\ UNCHANGED <<queue, running, verdict, untold, history, up>>

\* interrupt() is a request about whatever runs, and swallows its own errors.
Interrupt ==
  /\ interrupt_sent' = TRUE
  /\ \/ running # None /\ interrupted' = interrupted \cup {running}
     \/ UNCHANGED interrupted
  /\ UNCHANGED <<queue, running, verdict, untold, history, up>>

\* The except clause: a prompt nobody listens to any more is told to stop.
Raise ==
  /\ raised' = TRUE
  /\ Leaving
  /\ IF prompt_id # None THEN Interrupt
                          ELSE UNCHANGED <<interrupt_sent, comfy>>

\* Refused, rejected, or not answered within the request's timeout.
PostRaises ==
  /\ pc \in {"post", "posted"}
  /\ Raise
  /\ UNCHANGED <<job, prompt_id, after_interrupt, readable, comfy_wedged,
                 redis, ws, observed, restarts>>

-----------------------------------------------------------------------------
(* run_job(), listening *)

Listening == pc = "listen"

\* Past the deadline, or an error out of Redis or of a call below.
GiveUp ==
  /\ Listening
  /\ Raise
  /\ UNCHANGED <<job, prompt_id, after_interrupt, readable, comfy_wedged,
                 redis, ws, observed, restarts>>

SeeCancel ==
  /\ Listening
  /\ job \in cancelled
  /\ Interrupt
  /\ Finish("cancelled")
  /\ Return
  /\ UNCHANGED <<job, prompt_id, after_interrupt, readable, comfy_wedged,
                 ws, observed, restarts>>

\* Fault: no prompt_id filter.
AnyPrompt(frame) == TRUE

\* One socket carries every prompt of this instance; a frame that names none is
\* taken for this one's.
OurPrompt(frame) == frame.prompt \in {None, prompt_id}

\* What the agent takes for the end of the job.
TakeFrom(b) == basis' = [basis EXCEPT ![job] = b] /\ UNCHANGED answered

\* A failure or an interruption is reported at once; the outputs of a success
\* are collected first.
EndOn(kind) ==
  \/ kind = "error" /\ Finish("failed") /\ Return
  \/ kind = "interrupted" /\ Finish("cancelled") /\ Return
  \/ kind = "success" /\ pc' = "collect" /\ frames' = <<>>
                       /\ UNCHANGED <<raised, redis>>

Receive ==
  /\ Listening
  /\ frames # <<>>
  /\ \/ /\ OurPrompt(Head(frames))
        /\ EndOn(Head(frames).kind)
        /\ TakeFrom(IF Head(frames).prompt = None THEN "nameless" ELSE "frame")
     \/ /\ ~ OurPrompt(Head(frames))
        /\ frames' = Tail(frames)
        /\ UNCHANGED <<pc, raised, redis, observed>>
  /\ UNCHANGED <<job, prompt_id, interrupt_sent, after_interrupt, readable,
                 comfy_wedged, comfy, ws, restarts>>

\* prompt_finished(), when the call is answered and /history has an entry,
\* whatever that says of the prompt.
PromptFinished == up /\ prompt_id \in history

\* The socket timed out: ask /history, and listen on if it does not know.
ReceiveNothing ==
  /\ Listening
  /\ ws = "open"
  /\ frames = <<>>
  /\ PromptFinished
  /\ EndOn("success")
  /\ TakeFrom("history")
  /\ UNCHANGED <<job, prompt_id, interrupt_sent, after_interrupt, readable,
                 comfy_wedged, comfy, ws, restarts>>

\* The socket is gone: ask /history once, and fail if it does not know or does
\* not answer.
ReceiveClosed ==
  /\ Listening
  /\ ws = "closed"
  /\ \/ /\ PromptFinished
        /\ EndOn("success")
        /\ TakeFrom("history")
        /\ UNCHANGED <<interrupt_sent, comfy>>
     \/ Raise /\ UNCHANGED <<redis, observed>>
  /\ UNCHANGED <<job, prompt_id, after_interrupt, readable, comfy_wedged,
                 ws, restarts>>

\* collect_outputs() moves and resolves files on the shared volume.
Collect ==
  /\ pc = "collect"
  /\ Finish("completed")
  /\ Return
  /\ UNCHANGED <<job, prompt_id, interrupt_sent, after_interrupt, readable,
                 comfy_wedged, comfy, ws, observed, restarts>>

CollectRaises ==
  /\ pc = "collect"
  /\ Raise
  /\ UNCHANGED <<job, prompt_id, after_interrupt, readable, comfy_wedged,
                 redis, ws, observed, restarts>>

-----------------------------------------------------------------------------
(* run_job()'s finally, await_comfy_idle() and main() *)

\* Where the agent goes when run_job() is over.
AfterRun == IF raised THEN "report" ELSE "poll"

\* Fault: the flag of an earlier interrupt is kept.
EnterDrainKeepingFlag ==
  /\ after_interrupt' = interrupt_sent
  /\ readable' = FALSE
  /\ UNCHANGED interrupt_sent

EnterDrain ==
  /\ after_interrupt' = interrupt_sent
  /\ interrupt_sent' = FALSE
  /\ readable' = FALSE

\* The socket is closed, and a prompt ComfyUI was handed is awaited.
Leave ==
  /\ pc = "leave"
  /\ ws' = "none"
  /\ IF prompt_id # None
       THEN pc' = "drain" /\ EnterDrain
       ELSE /\ pc' = AfterRun
            /\ UNCHANGED <<interrupt_sent, after_interrupt, readable>>
  /\ UNCHANGED <<job, prompt_id, raised, comfy_wedged, redis, comfy, frames,
                 observed, restarts>>

\* Fault: only what runs counts, not what waits.
NothingRunning == running = None

\* comfy_idle(): nothing running, nothing pending.
ComfyIdle == queue = <<>>

LeaveDrain == pc' = AfterRun /\ after_interrupt' = FALSE

\* One GET of /queue; one that fails changes nothing.
PollQueue ==
  /\ pc = "drain"
  /\ up
  /\ readable' = TRUE
  /\ \/ ComfyIdle /\ LeaveDrain
     \/ ~ ComfyIdle /\ UNCHANGED <<pc, after_interrupt>>
  /\ UNCHANGED <<job, prompt_id, raised, interrupt_sent, comfy_wedged, redis,
                 comfy, socket, observed, restarts>>

\* Fault: an unreadable queue is always a pause.
PauseWheneverUnreadable == ~ readable

\* Nothing was interrupted and /queue never answered.
OnlyAPause == ~ after_interrupt /\ ~ readable

\* Fault: the deadline only counts once /queue has answered.
DrainUntilReadable ==
  /\ pc = "drain"
  /\ readable
  /\ LeaveDrain
  /\ comfy_wedged' = TRUE
  /\ UNCHANGED <<job, prompt_id, raised, interrupt_sent, readable, redis, comfy,
                 socket, observed, restarts>>

\* INTERRUPT_DRAIN_TIMEOUT ran out.
DrainTimesOut ==
  /\ pc = "drain"
  /\ LeaveDrain
  /\ comfy_wedged' = ~ OnlyAPause
  /\ UNCHANGED <<job, prompt_id, raised, interrupt_sent, readable, redis, comfy,
                 socket, observed, restarts>>

\* main()'s handler: every failure must reach the user.
ReportFailure ==
  /\ pc = "report"
  /\ Finish("failed")
  /\ pc' = "poll"
  /\ UNCHANGED <<job, prompt_id, raised, interrupt_sent, after_interrupt,
                 readable, comfy_wedged, comfy, socket, observed, restarts>>

ExitWedged ==
  /\ pc = "poll"
  /\ comfy_wedged
  /\ pc' = "gone"
  /\ UNCHANGED <<job, prompt_id, raised, interrupt_sent, after_interrupt,
                 readable, comfy_wedged, redis, comfy, socket, observed,
                 restarts>>

\* Where run_job() is in a call to the shared volume, which has no timeout.
OnVolume == {"connect", "collect"}

UseVolume == Connect \/ Collect \/ CollectRaises

\* The steps that only wait for Redis and ComfyUI.
TimedStep ==
  \/ CheckCancelled \/ Claim \/ PostArrives \/ PostAnswered \/ PostRaises
  \/ GiveUp \/ SeeCancel \/ Receive \/ ReceiveNothing \/ ReceiveClosed
  \/ Leave \/ PollQueue \/ DrainTimesOut

RunJob == UseVolume \/ TimedStep

Agent == Take \/ RunJob \/ ReportFailure \/ ExitWedged

-----------------------------------------------------------------------------
(* The rest of the world *)

\* Only while the agent still looks.
RequestCancel ==
  /\ job \in Jobs \ cancelled
  /\ pc \in InRunJob \ {"leave", "drain"}
  /\ cancelled' = cancelled \cup {job}
  /\ UNCHANGED <<agent, ours, outcome, comfy, socket, observed, restarts>>

\* The heartbeat lapsed and the gateway reaped the entry, with a report to come.
Reap ==
  /\ ours
  /\ pc \in (InRunJob \ {"leave", "drain"}) \cup {"report"}
  /\ ours' = FALSE
  /\ UNCHANGED <<agent, cancelled, outcome, comfy, socket, observed, restarts>>

\* start.sh ends the container when either child exits; the kubelet starts
\* another, with an empty ComfyUI and a new incarnation of the agent.
PodRestarts ==
  /\ pc = "gone" \/ ~ up
  /\ restarts < MaxRestarts
  /\ restarts' = restarts + 1
  /\ pc' = "poll"
  /\ prompt_id' = None
  /\ raised' = FALSE
  /\ interrupt_sent' = FALSE
  /\ after_interrupt' = FALSE
  /\ readable' = FALSE
  /\ comfy_wedged' = FALSE
  /\ ours' = FALSE
  /\ queue' = <<>>
  /\ running' = None
  /\ interrupted' = {}
  /\ untold' = {}
  /\ history' = {}
  /\ up' = TRUE
  /\ ws' = "none"
  /\ frames' = <<>>
  /\ UNCHANGED <<job, cancelled, outcome, verdict, observed>>

Next == Agent \/ Comfy \/ RequestCancel \/ Reap \/ PodRestarts

Spec == Init /\ [][Next]_vars

\* Each request to Redis or ComfyUI has a timeout and each wait a deadline, so
\* the agent goes on from them whatever ComfyUI does.  A call to the volume
\* may never return, and ComfyUI promises nothing.
Fairness ==
  /\ WF_vars(TimedStep)
  /\ WF_vars(GiveUp)
  /\ WF_vars(DrainTimesOut)
  /\ WF_vars(ReportFailure)
  /\ WF_vars(ExitWedged)

FairSpec == Spec /\ Fairness

-----------------------------------------------------------------------------

\* The prompts ComfyUI still has to execute, or is executing.
Unfinished == Range(queue) \ Concluded

\* The jobs that ended on a frame naming no prompt.
Misnamed == {j \in Jobs : basis[j] = "nameless"}

\* A user who did not withdraw a job is never told that it was cancelled, and
\* one who is told that it completed had its outputs made: run_job() picks the
\* frames of one prompt among all those on the socket, after every kind of
\* interrupt, time-out and restart before it.  Two doors: a frame without an id,
\* of whatever prompt, is believed, and so is an entry in /history, which
\* proves no more than that the prompt is over.
OutcomeTruthful ==
  \A j \in Jobs \ Misnamed :
    /\ outcome[j] = "cancelled" => j \in cancelled
    /\ outcome[j] = "completed"
         => verdict[j] = "success" \/ (basis[j] = "history" /\ j \in Concluded)

\* The same without the doors.
OutcomeAlwaysTruthful ==
  \A j \in Jobs :
    /\ outcome[j] = "cancelled" => j \in cancelled
    /\ outcome[j] = "completed" => verdict[j] = "success"

\* An agent only exits, and costs the pool a warm card, over a prompt it
\* abandoned or a queue it saw busy: never over a pause of ComfyUI's HTTP
\* server after an interrupt of some earlier job.
ExitJustified ==
  comfy_wedged => readable \/ raised \/ job \in cancelled

\* The next BLMOVE does not happen while ComfyUI still has a prompt this agent
\* submitted and was given the id of, however the job it was for ended, unless
\* a frame without an id ended it.
TakesOnlyWhenFree ==
  [][pc = "poll" /\ pc' = "connect"
       => answered \cap Unfinished \subseteq Misnamed]_vars

\* The same as run_job()'s finally says it: of any prompt.
NeverTakesWhileBusy ==
  [][pc = "poll" /\ pc' = "connect" => Unfinished = {}]_vars

\* No wait for Redis or ComfyUI holds the agent for ever, whatever ComfyUI does:
\* it takes the next job, exits, or has gone on to the shared volume.
JobEnds == pc \in InRunJob \ OnVolume ~> pc \in {"collect", "poll", "gone"}

\* A prompt the agent leaves behind is over, or the agent exits so that the
\* container takes it along: it never goes on holding the card.
AbandonedIsCleared ==
  \A j \in Jobs :
    job = j /\ pc = "leave" /\ prompt_id = j /\ j \in Unfinished \ Misnamed
      ~> j \notin Unfinished \/ pc = "gone"
=============================================================================
