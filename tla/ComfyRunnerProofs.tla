-------------------------- MODULE ComfyRunnerProofs --------------------------
(***************************************************************************)
(* What run_job() promises about ComfyUI, for every number of jobs and of  *)
(* container restarts: its types, what an outcome says of the job's own    *)
(* prompt, that the agent only exits over a prompt it abandoned or a queue *)
(* it saw busy, and that it takes no job while ComfyUI still has a prompt  *)
(* it was given the id of, unless a frame without an id misled it.         *)
(***************************************************************************)
EXTENDS ComfyRunner, TLAPS, SequenceTheorems

-----------------------------------------------------------------------------
(* The inductive invariant *)

\* The steps before ComfyUI has the prompt of the job in hand, and those after
\* the agent has stopped listening for it.
Before == {"connect", "check", "claim", "post"}
Over == {"leave", "drain", "report", "poll", "gone"}

\* The agent listens and drains under its own job's prompt, or none.
InHandOK ==
  /\ pc \notin {"poll", "gone"} => job \in Jobs
  /\ prompt_id \in {job, None}
  /\ pc \in Before \cup {"posted"} => prompt_id = None
  /\ pc \in {"listen", "collect", "drain"} => prompt_id = job
  /\ raised => pc \in Over
  /\ comfy_wedged => pc \in {"report", "poll", "gone"}

\* An interrupt is only ever sent on the way out of a job that failed or was
\* cancelled, so one that reached the job in hand before it is over was asked
\* for by its user.
InterruptsOK ==
  /\ interrupt_sent => /\ pc = "leave" /\ prompt_id = job
                       /\ raised \/ job \in cancelled
  /\ pc = "drain" /\ after_interrupt => raised \/ job \in cancelled
  /\ \A p \in Jobs : p \in interrupted \/ verdict[p] = "interrupted"
        => p \in cancelled \/ p < job \/ pc \in Over

\* ComfyUI knows of no prompt the agent has not posted.
PostedOK ==
  /\ \A p \in Jobs : p \in Range(queue) \cup interrupted \cup Concluded
        => p < job \/ (p = job /\ pc \notin Before)
  /\ \A p \in answered : p < job \/ (p = job /\ pc \notin Before \cup {"posted"})

\* What ComfyUI says of a prompt by its id is how it ended.
ServerOK ==
  /\ running # None => queue # <<>> /\ running = Head(queue)
  /\ untold \subseteq Concluded /\ history \subseteq Concluded
  /\ \A i \in 1 .. Len(frames) :
       frames[i].prompt # None => frames[i].kind = verdict[frames[i].prompt]

\* Nothing is reported of a job before it is over, and the outputs collected are
\* those of a prompt that succeeded, or that /history knew, or of nobody knows
\* which.
EndsOK ==
  /\ \A p \in Jobs : outcome[p] # "none" => p < job \/ (p = job /\ pc \in Over)
  /\ pc = "collect" => \/ basis[job] = "frame" /\ verdict[job] = "success"
                       \/ basis[job] = "history" /\ job \in Concluded
                       \/ basis[job] = "nameless"

\* A prompt ComfyUI still has, and the agent knows by its id, is the last
\* job's, and the agent is listening for it, draining it or about to exit.
LeftOver ==
  \A p \in (answered \cap Unfinished) \ Misnamed :
    /\ p = job /\ prompt_id = job
    /\ \/ pc = "listen"
       \/ pc = "leave" /\ interrupt_sent
       \/ pc = "drain" /\ after_interrupt
       \/ comfy_wedged

RInv == /\ TypeOK /\ InHandOK /\ InterruptsOK /\ PostedOK /\ ServerOK
        /\ EndsOK /\ LeftOver /\ OutcomeTruthful /\ ExitJustified

-----------------------------------------------------------------------------
(* Sequences *)

LEMMA AppendRange ==
  ASSUME NEW S, NEW q \in Seq(S), NEW x \in S
  PROVE  Append(q, x) \in Seq(S) /\ Range(Append(q, x)) = Range(q) \cup {x}
<1>1. /\ Append(q, x) \in Seq(S) /\ Len(Append(q, x)) = Len(q) + 1
      /\ \A i \in 1 .. Len(q) : Append(q, x)[i] = q[i]
      /\ Append(q, x)[Len(q) + 1] = x /\ Len(q) \in Nat
  OBVIOUS
<1>2. /\ Range(q) = {q[i] : i \in 1 .. Len(q)}
      /\ Range(Append(q, x)) = {Append(q, x)[i] : i \in 1 .. Len(q) + 1}
  BY <1>1 DEF Range
<1>3. ASSUME NEW i \in 1 .. Len(q) + 1 PROVE Append(q, x)[i] \in Range(q) \cup {x}
  BY <1>1, <1>2
<1>4. ASSUME NEW i \in 1 .. Len(q) PROVE q[i] \in Range(Append(q, x))
  <2>1. i \in 1 .. Len(q) + 1 /\ q[i] = Append(q, x)[i]
    BY <1>1
  <2> QED
    BY <1>2, <2>1
<1>5. x \in Range(Append(q, x))
  <2>1. Len(q) + 1 \in 1 .. Len(q) + 1 /\ x = Append(q, x)[Len(q) + 1]
    BY <1>1
  <2> QED
    BY <1>2, <2>1
<1> QED
  BY <1>1, <1>2, <1>3, <1>4, <1>5

LEMMA TailParts ==
  ASSUME NEW S, NEW q \in Seq(S), q # <<>>
  PROVE  /\ Head(q) \in S /\ Head(q) = q[1] /\ 1 \in 1 .. Len(q)
         /\ Tail(q) \in Seq(S) /\ Len(Tail(q)) = Len(q) - 1
         /\ \A i \in 1 .. Len(Tail(q)) : /\ i + 1 \in 1 .. Len(q)
                                         /\ Tail(q)[i] = q[i + 1]
         /\ Range(Tail(q)) \subseteq Range(q)
<1>1. /\ Head(q) \in S /\ Head(q) = q[1] /\ 1 \in 1 .. Len(q)
      /\ Tail(q) \in Seq(S) /\ Len(Tail(q)) = Len(q) - 1
      /\ \A i \in 1 .. Len(Tail(q)) : /\ i + 1 \in 1 .. Len(q)
                                      /\ Tail(q)[i] = q[i + 1]
  OBVIOUS
<1>d. DOMAIN q = 1 .. Len(q) /\ DOMAIN Tail(q) = 1 .. Len(Tail(q))
  BY <1>1
<1>2. /\ Range(q) = {q[i] : i \in 1 .. Len(q)}
      /\ Range(Tail(q)) = {Tail(q)[i] : i \in 1 .. Len(Tail(q))}
  BY <1>d DEF Range
<1> QED
  BY <1>1, <1>2

LEMMA HeadInRange ==
  ASSUME NEW S, NEW q \in Seq(S), q # <<>>
  PROVE  Head(q) \in Range(q)
BY TailParts DEF Range

LEMMA EmptyRange == Range(<<>>) = {}
BY DEF Range

-----------------------------------------------------------------------------

LEMMA InitRInv == Init => RInv
<1> SUFFICES ASSUME Init PROVE RInv
  OBVIOUS
<1> USE DEF Init
<1>0. /\ Concluded = {} /\ Unfinished = {}
  BY EmptyRange DEF Concluded, Unfinished
<1>1. TypeOK
  <2>1. /\ outcome \in [Jobs -> Outcomes] /\ basis \in [Jobs -> Bases]
        /\ verdict \in [Jobs -> Terminal \cup {"none"}]
    BY DEF Outcomes, Bases
  <2>2. queue \in Seq(Jobs) /\ frames \in Seq(Frames)
    OBVIOUS
  <2>3. job \in 0 .. MaxJobs /\ restarts \in 0 .. MaxRestarts
    BY BoundsAssumption
  <2> QED
    BY <2>1, <2>2, <2>3 DEF TypeOK, Places
<1>2. InHandOK /\ InterruptsOK /\ ServerOK /\ EndsOK
  BY <1>0 DEF InHandOK, InterruptsOK, ServerOK, EndsOK, Over, Before
<1>3. PostedOK /\ LeftOver
  BY <1>0, EmptyRange DEF PostedOK, LeftOver
<1>4. OutcomeTruthful /\ ExitJustified
  BY DEF OutcomeTruthful, ExitJustified
<1> QED
  BY <1>1, <1>2, <1>3, <1>4 DEF RInv

-----------------------------------------------------------------------------
(* What a step leaves alone stays as it is *)

LEMMA AgentTypes ==
  ASSUME TypeOK, pc' \in Places, job' \in 0 .. MaxJobs,
         prompt_id' \in Jobs \cup {None},
         raised' \in BOOLEAN, interrupt_sent' \in BOOLEAN,
         after_interrupt' \in BOOLEAN, readable' \in BOOLEAN,
         comfy_wedged' \in BOOLEAN, ours' \in BOOLEAN,
         cancelled' \subseteq Jobs, interrupted' \subseteq Jobs,
         outcome' \in [Jobs -> Outcomes],
         answered' \subseteq Jobs, basis' \in [Jobs -> Bases],
         UNCHANGED <<queue, running, verdict, untold, history, up, restarts>>,
         ws' \in {"none", "open", "closed"}, frames' \in Seq(Frames)
  PROVE  TypeOK'
BY DEF TypeOK

LEMMA FlagTypes ==
  ASSUME TypeOK
  PROVE  /\ raised \in BOOLEAN /\ interrupt_sent \in BOOLEAN
         /\ after_interrupt \in BOOLEAN /\ readable \in BOOLEAN
         /\ comfy_wedged \in BOOLEAN /\ ours \in BOOLEAN
         /\ up \in BOOLEAN
BY DEF TypeOK

LEMMA FinishTypes ==
  ASSUME TypeOK, NEW status \in Outcomes, Finish(status)
  PROVE  /\ outcome' \in [Jobs -> Outcomes]
         /\ UNCHANGED <<ours, cancelled>>
         /\ \A j \in Jobs : \/ outcome'[j] = outcome[j]
                            \/ j = job /\ outcome'[j] = status
BY DEF TypeOK, Finish

\* An interrupt reaches what runs, if it reaches anything.
LEMMA InterruptTypes ==
  ASSUME TypeOK, Interrupt
  PROVE  /\ interrupt_sent' = TRUE /\ interrupted' \subseteq Jobs
         /\ interrupted' \subseteq interrupted \cup {running}
         /\ running = None => interrupted' = interrupted
         /\ UNCHANGED <<queue, running, verdict, untold, history, up>>
BY DEF TypeOK, Interrupt

LEMMA RaiseTypes ==
  ASSUME TypeOK, Raise
  PROVE  /\ raised' = TRUE /\ pc' = "leave" /\ frames' = <<>>
         /\ prompt_id = None => UNCHANGED <<interrupt_sent, interrupted>>
         /\ prompt_id # None => interrupt_sent' = TRUE
         /\ interrupt_sent' \in BOOLEAN /\ interrupted' \subseteq Jobs
         /\ interrupted' \subseteq interrupted \cup {running}
         /\ running = None => interrupted' = interrupted
         /\ UNCHANGED <<queue, running, verdict, untold, history, up>>
BY FlagTypes, InterruptTypes DEF TypeOK, Raise, Leaving, comfy

LEMMA VerdictsStill ==
  ASSUME UNCHANGED <<verdict, queue>>
  PROVE  Concluded' = Concluded /\ Unfinished' = Unfinished
BY DEF Concluded, Unfinished

LEMMA FramesStill ==
  ASSUME TypeOK, frames' \in {frames, <<>>}
  PROVE  frames' \in Seq(Frames)
<1>1. frames \in Seq(Frames) /\ <<>> \in Seq(Frames)
  BY DEF TypeOK
<1> QED
  BY <1>1

LEMMA ObservedStill ==
  ASSUME TypeOK, UNCHANGED observed
  PROVE  /\ answered' = answered /\ basis' = basis /\ Misnamed' = Misnamed
         /\ answered' \subseteq Jobs /\ basis' \in [Jobs -> Bases]
BY DEF TypeOK, observed, Misnamed

\* As long as the agent is not about to collect, and nothing new is reported.
LEMMA EndsStill ==
  ASSUME EndsOK, UNCHANGED <<job, outcome>>,
         pc' # "collect", pc \in Over => pc' \in Over
  PROVE  EndsOK'
BY DEF EndsOK

LEMMA ServerStill ==
  ASSUME ServerOK, frames' \in {frames, <<>>},
         UNCHANGED <<queue, running, verdict, untold, history>>
  PROVE  ServerOK'
BY VerdictsStill DEF ServerOK

-----------------------------------------------------------------------------
(* The agent, to the POST *)

LEMMA TakeKeeps ==
  ASSUME RInv, Take
  PROVE  RInv'
<1> USE DEF RInv, Take, agent, redis, comfy, socket, observed
<1>1. job' \in Jobs /\ job' = job + 1 /\ job \in 0 .. MaxJobs
  BY BoundsAssumption DEF TypeOK, Jobs
<1>2. TypeOK'
  <2>1. job' \in 0 .. MaxJobs /\ pc' \in Places /\ prompt_id' \in Jobs \cup {None}
    BY <1>1, BoundsAssumption DEF Places, Jobs
  <2>2. TypeOK
    OBVIOUS
  <2> QED
    BY <2>1, <2>2, FlagTypes, AgentTypes DEF TypeOK
<1>3. Concluded' = Concluded /\ Unfinished' = Unfinished
  BY VerdictsStill
<1>4. InHandOK' /\ ServerOK'
  BY <1>1, FlagTypes, ServerStill DEF InHandOK, Before, Over
<1>5. PostedOK'
  BY <1>1, <1>3 DEF PostedOK, TypeOK, Jobs
<1>6. InterruptsOK'
  <2>1. \A p \in Jobs : p \in interrupted \/ verdict[p] = "interrupted" => p < job'
    BY <1>1 DEF PostedOK, Concluded, Jobs
  <2> QED
    BY <2>1 DEF InterruptsOK
<1>e. EndsOK'
  BY <1>1 DEF EndsOK, Jobs
<1>7. LeftOver'
  BY <1>3 DEF LeftOver, Misnamed
<1>8. OutcomeTruthful' /\ ExitJustified'
  BY <1>3 DEF OutcomeTruthful, ExitJustified, Misnamed, InHandOK
<1> QED
  BY <1>2, <1>4, <1>5, <1>6, <1>e, <1>7, <1>8

LEMMA ConnectKeeps ==
  ASSUME RInv, Connect
  PROVE  RInv'
<1> USE DEF RInv, Connect, redis, comfy, observed
<1>1. /\ pc = "connect" /\ job \in Jobs /\ prompt_id = None
      /\ pc' \in {"check", "report"} /\ frames' = <<>>
  BY DEF InHandOK, Before
<1>w. ws' \in {"none", "open", "closed"}
  BY DEF TypeOK
<1>r. raised = FALSE /\ raised' \in BOOLEAN /\ (raised' => pc' = "report")
  <2>1. raised = FALSE
    BY <1>1, FlagTypes DEF InHandOK, Over
  <2>2. CASE raised' = TRUE /\ pc' = "report"
    BY <2>1, <2>2
  <2>3. CASE raised' = raised
    BY <2>1, <2>3
  <2> QED
    BY <2>1, <2>2, <2>3
<1>2. TypeOK'
  BY <1>1, <1>w, <1>r, FlagTypes, AgentTypes DEF TypeOK, Places
<1>3. Concluded' = Concluded /\ Unfinished' = Unfinished
  BY VerdictsStill
<1>4. InHandOK' /\ ServerOK'
  BY <1>1, <1>r, ServerStill DEF InHandOK, Before, Over
<1>5. PostedOK'
  BY <1>1, <1>3 DEF PostedOK, Before
<1>6. InterruptsOK'
  BY <1>1 DEF InterruptsOK, Over
<1>e. EndsOK'
  BY <1>1, EndsStill DEF Over
<1>7. LeftOver'
  BY <1>1, <1>3 DEF LeftOver, Misnamed
<1>8. OutcomeTruthful' /\ ExitJustified'
  BY <1>1, <1>3 DEF OutcomeTruthful, ExitJustified, InHandOK, Misnamed
<1> QED
  BY <1>2, <1>4, <1>5, <1>6, <1>e, <1>7, <1>8

LEMMA CheckKeeps ==
  ASSUME RInv, CheckCancelled \/ Claim
  PROVE  RInv'
<1> USE DEF RInv
<1>0. UNCHANGED <<job, prompt_id, raised, interrupt_sent, after_interrupt,
                  readable, comfy_wedged, ours, cancelled, comfy, ws,
                  observed, restarts>>
  BY DEF CheckCancelled, Claim, Finish, Return, redis
<1>1. /\ pc \in {"check", "claim"} /\ job \in Jobs /\ prompt_id = None
      /\ pc' \in {"claim", "post", "leave"} /\ frames' \in {frames, <<>>}
  BY DEF CheckCancelled, Claim, Return, Leaving, InHandOK, Before
<1>2. /\ outcome' \in [Jobs -> Outcomes]
      /\ \A j \in Jobs : \/ outcome'[j] = outcome[j]
                         \/ /\ j = job /\ j \in cancelled /\ pc' = "leave"
                            /\ outcome'[j] = "cancelled"
  <2>1. CASE CheckCancelled /\ job \in cancelled
    BY <2>1, FinishTypes DEF CheckCancelled, Return, Leaving, Outcomes
  <2>2. CASE CheckCancelled /\ job \notin cancelled
    BY <2>2 DEF CheckCancelled, redis, TypeOK
  <2>3. CASE Claim
    BY <2>3 DEF Claim, redis, TypeOK
  <2> QED
    BY <2>1, <2>2, <2>3
<1>f. frames' \in Seq(Frames)
  BY <1>1, FramesStill
<1> USE DEF comfy, observed
<1>3. TypeOK'
  BY <1>0, <1>1, <1>2, <1>f, FlagTypes, AgentTypes DEF TypeOK, Places
<1>4. Concluded' = Concluded /\ Unfinished' = Unfinished
  BY <1>0, VerdictsStill
<1>5. InHandOK' /\ ServerOK'
  BY <1>0, <1>1, ServerStill DEF InHandOK, Before, Over
<1>6. PostedOK'
  BY <1>0, <1>1, <1>4 DEF PostedOK, Before
<1>7. InterruptsOK'
  BY <1>0, <1>1 DEF InterruptsOK, Over
<1>e. EndsOK'
  BY <1>0, <1>1, <1>2 DEF EndsOK, Over
<1>8. LeftOver'
  BY <1>0, <1>1, <1>4 DEF LeftOver, Misnamed
<1>9. OutcomeTruthful' /\ ExitJustified'
  BY <1>0, <1>2, <1>4 DEF OutcomeTruthful, ExitJustified, Misnamed
<1> QED
  BY <1>3, <1>5, <1>6, <1>7, <1>e, <1>8, <1>9

LEMMA PostKeeps ==
  ASSUME RInv, PostArrives
  PROVE  RInv'
<1> USE DEF RInv, PostArrives, redis, socket, observed
<1>1. pc = "post" /\ pc' = "posted" /\ job \in Jobs /\ prompt_id = None
  BY DEF InHandOK, Before
<1>2. /\ queue \in Seq(Jobs) /\ queue' = Append(queue, job)
      /\ queue' \in Seq(Jobs) /\ Range(queue') = Range(queue) \cup {job}
  BY <1>1, AppendRange DEF TypeOK
<1>3. TypeOK'
  BY <1>1, <1>2, FlagTypes DEF TypeOK, Places
<1>4. Concluded' = Concluded /\ Unfinished' \subseteq Unfinished \cup {job}
  BY <1>2 DEF Concluded, Unfinished
<1>5. InHandOK'
  BY <1>1 DEF InHandOK, Before, Over
<1>6. ServerOK'
  <2>1. queue # <<>> => queue' # <<>> /\ Head(queue') = Head(queue)
    BY <1>1, <1>2
  <2> QED
    BY <1>4, <2>1 DEF ServerOK
<1>7. PostedOK'
  BY <1>1, <1>2, <1>4 DEF PostedOK, Before
<1>8. InterruptsOK'
  BY <1>1 DEF InterruptsOK, Over
<1>e. EndsOK'
  BY <1>1, EndsStill DEF Over
<1>9. LeftOver'
  <2>1. job \notin answered
    BY <1>1 DEF PostedOK, Before, TypeOK, Jobs
  <2> QED
    BY <1>1, <1>4, <2>1 DEF LeftOver, Misnamed
<1>10. OutcomeTruthful' /\ ExitJustified'
  BY <1>4 DEF OutcomeTruthful, ExitJustified, Misnamed
<1> QED
  BY <1>3, <1>5, <1>6, <1>7, <1>8, <1>e, <1>9, <1>10

LEMMA AnswerKeeps ==
  ASSUME RInv, PostAnswered
  PROVE  RInv'
<1> USE DEF RInv, PostAnswered, redis, comfy, socket
<1>1. pc = "posted" /\ pc' = "listen" /\ job \in Jobs /\ prompt_id' = job
  BY DEF InHandOK
<1>2. TypeOK'
  BY <1>1, FlagTypes DEF TypeOK, Places
<1>3. Concluded' = Concluded /\ Unfinished' = Unfinished
  BY VerdictsStill
<1>4. InHandOK' /\ ServerOK'
  BY <1>1, ServerStill DEF InHandOK, Before, Over
<1>5. PostedOK'
  BY <1>1, <1>3 DEF PostedOK, Before
<1>6. InterruptsOK'
  BY <1>1 DEF InterruptsOK, Over
<1>e. EndsOK'
  BY <1>1, EndsStill DEF Over
<1>7. LeftOver'
  BY <1>1, <1>3 DEF LeftOver, InHandOK, InterruptsOK, Misnamed
<1>8. OutcomeTruthful' /\ ExitJustified'
  BY <1>3 DEF OutcomeTruthful, ExitJustified, Misnamed
<1> QED
  BY <1>2, <1>4, <1>5, <1>6, <1>e, <1>7, <1>8

\* A run given up, from the POST on, with the interrupt if ComfyUI answered.
LEMMA RaiseKeeps ==
  ASSUME RInv, pc \in {"post", "posted", "listen", "collect"}, Raise,
         UNCHANGED <<job, prompt_id, after_interrupt, readable, comfy_wedged,
                     redis, ws, observed, restarts>>
  PROVE  RInv'
<1> USE DEF RInv, redis, observed
<1>1. /\ job \in Jobs /\ pc' = "leave" /\ raised' = TRUE /\ frames' = <<>>
      /\ pc \in {"post", "posted"} => prompt_id = None
      /\ pc \in {"listen", "collect"} => prompt_id = job
      /\ UNCHANGED <<queue, running, verdict, untold, history, up>>
  BY RaiseTypes DEF InHandOK, Before
<1>2. TypeOK'
  BY <1>1, FlagTypes, RaiseTypes, FramesStill, AgentTypes DEF TypeOK, Places
<1>3. Concluded' = Concluded /\ Unfinished' = Unfinished
  BY <1>1, VerdictsStill
<1>4. InHandOK' /\ ServerOK'
  BY <1>1, ServerStill DEF InHandOK, Before, Over
<1>5. \A p \in interrupted' : p \in interrupted \cup Range(queue)
  <2>1. running # None => running \in Range(queue)
    BY HeadInRange DEF ServerOK, TypeOK
  <2> QED
    BY <2>1, RaiseTypes
<1>6. PostedOK'
  BY <1>1, <1>3, <1>5 DEF PostedOK, Before
<1>7. InterruptsOK'
  BY <1>1, RaiseTypes, NoneAssumption DEF InterruptsOK, Over, Jobs
<1>e. EndsOK'
  BY <1>1, EndsStill DEF Over
<1>8. LeftOver'
  BY <1>1, <1>3, RaiseTypes, NoneAssumption
     DEF LeftOver, InterruptsOK, InHandOK, Jobs, Misnamed
<1>9. OutcomeTruthful' /\ ExitJustified'
  BY <1>1, <1>3 DEF OutcomeTruthful, ExitJustified, Misnamed
<1> QED
  BY <1>2, <1>4, <1>6, <1>7, <1>e, <1>8, <1>9

-----------------------------------------------------------------------------
(* The agent, listening *)

\* The agent stops listening without asking ComfyUI to stop, on what it takes
\* for the end of the job, and reports it or goes on to collect the outputs.
LEMMA EndKeeps ==
  ASSUME RInv, Listening, NEW kind \in Terminal, EndOn(kind),
         NEW b \in Bases \ {"none"}, TakeFrom(b),
         \/ b = "nameless"
         \/ b = "frame" /\ verdict[job] = kind
         \/ b = "history" /\ kind = "success" /\ job \in Concluded,
         UNCHANGED <<job, prompt_id, interrupt_sent, after_interrupt, readable,
                     comfy_wedged, comfy, ws, restarts>>
  PROVE  RInv'
<1> USE DEF RInv, comfy
<1>1. pc = "listen" /\ prompt_id = job /\ job \in Jobs
  BY DEF Listening, InHandOK
<1>2. /\ pc' \in {"leave", "collect"} /\ frames' = <<>>
      /\ UNCHANGED <<raised, ours, cancelled>>
      /\ pc' = "collect" => kind = "success"
  BY DEF EndOn, Return, Leaving, Finish, redis
<1>3. /\ outcome' \in [Jobs -> Outcomes]
      /\ \A j \in Jobs : \/ outcome'[j] = outcome[j]
                         \/ /\ j = job /\ pc' = "leave"
                            /\ \/ outcome'[j] = "failed"
                               \/ /\ outcome'[j] = "cancelled"
                                  /\ kind = "interrupted"
  <2>1. CASE pc' = "collect"
    BY <1>2, <2>1 DEF EndOn, Return, Leaving, redis, TypeOK
  <2>2. CASE kind = "error" /\ Finish("failed") /\ Return
    BY <2>2, FinishTypes DEF Outcomes, Return, Leaving
  <2>3. CASE kind = "interrupted" /\ Finish("cancelled") /\ Return
    BY <2>3, FinishTypes DEF Outcomes, Return, Leaving
  <2> QED
    BY <1>2, <2>1, <2>2, <2>3 DEF EndOn
<1>4. /\ basis' \in [Jobs -> Bases] /\ answered' = answered /\ basis'[job] = b
      /\ \A j \in Jobs : j # job => basis'[j] = basis[j]
  BY <1>1 DEF TakeFrom, TypeOK
<1>5. TypeOK'
  BY <1>1, <1>2, <1>3, <1>4, FlagTypes, AgentTypes DEF TypeOK, Places
<1>6. Concluded' = Concluded /\ Unfinished' = Unfinished
  BY VerdictsStill
<1>7. InHandOK' /\ ServerOK'
  BY <1>1, <1>2, ServerStill DEF InHandOK, Before, Over
<1>8. PostedOK' /\ InterruptsOK'
  BY <1>1, <1>2, <1>4, <1>6 DEF PostedOK, InterruptsOK, Before, Over
<1>9. verdict[job] = "interrupted" => job \in cancelled
  BY <1>1 DEF InterruptsOK, Over, Jobs
<1>10. job \in Concluded \/ b = "nameless"
  BY <1>1 DEF Concluded, Terminal
<1>11. EndsOK'
  BY <1>1, <1>2, <1>3, <1>4, <1>6 DEF EndsOK, Over
<1>12. LeftOver'
  BY <1>1, <1>2, <1>4, <1>6, <1>10 DEF LeftOver, Misnamed, Unfinished
<1>13. ExitJustified'
  BY <1>2 DEF ExitJustified
<1>14. OutcomeTruthful'
  <2>1. outcome[job] = "none"
    BY <1>1 DEF EndsOK, Over, Jobs, TypeOK, Outcomes
  <2> SUFFICES ASSUME NEW j \in Jobs, j \notin Misnamed'
               PROVE  /\ outcome'[j] = "cancelled" => j \in cancelled'
                      /\ outcome'[j] = "completed"
                           => \/ verdict'[j] = "success"
                              \/ basis'[j] = "history" /\ j \in Concluded'
    BY DEF OutcomeTruthful
  <2>2. CASE j = job
    BY <1>2, <1>3, <1>4, <1>9, <2>1, <2>2 DEF Misnamed
  <2>3. CASE j # job
    <3>1. outcome'[j] = outcome[j] /\ basis'[j] = basis[j] /\ j \notin Misnamed
      BY <1>3, <1>4, <2>3 DEF Misnamed
    <3> QED
      BY <1>2, <1>6, <3>1 DEF OutcomeTruthful
  <2> QED
    BY <2>2, <2>3
<1> QED
  BY <1>5, <1>7, <1>8, <1>11, <1>12, <1>13, <1>14

LEMMA SeeCancelKeeps ==
  ASSUME RInv, SeeCancel
  PROVE  RInv'
<1> USE DEF RInv, SeeCancel
<1>1. /\ pc = "listen" /\ pc' = "leave" /\ prompt_id = job /\ job \in Jobs
      /\ frames' = <<>> /\ job \in cancelled
      /\ UNCHANGED <<job, prompt_id, raised, after_interrupt, readable,
                     comfy_wedged, ws, observed, restarts>>
  BY DEF Listening, Return, Leaving, InHandOK
<1>2. /\ UNCHANGED <<queue, running, verdict, untold, history, up>>
      /\ interrupted' \subseteq interrupted \cup {running}
      /\ interrupted' \subseteq Jobs /\ interrupt_sent' = TRUE
      /\ running = None => interrupted' = interrupted
  BY InterruptTypes
<1>3. /\ outcome' \in [Jobs -> Outcomes] /\ UNCHANGED <<ours, cancelled>>
      /\ \A j \in Jobs : \/ outcome'[j] = outcome[j]
                         \/ j = job /\ outcome'[j] = "cancelled"
  BY FinishTypes DEF Outcomes
<1>4. TypeOK'
  BY <1>1, <1>2, <1>3, FlagTypes, FramesStill, ObservedStill, AgentTypes
     DEF TypeOK, Places
<1>5. Concluded' = Concluded /\ Unfinished' = Unfinished
  BY <1>2, VerdictsStill
<1>6. InHandOK' /\ ServerOK'
  BY <1>1, <1>2, ServerStill DEF InHandOK, Before, Over
<1>7. \A p \in interrupted' : p \in interrupted \cup Range(queue)
  <2>1. running # None => running \in Range(queue)
    BY HeadInRange DEF ServerOK, TypeOK
  <2> QED
    BY <1>2, <2>1
<1>8. PostedOK'
  BY <1>1, <1>2, <1>5, <1>7, ObservedStill DEF PostedOK, Before
<1>9. InterruptsOK'
  BY <1>1, <1>2, <1>3 DEF InterruptsOK, Over
<1>10. EndsOK'
  BY <1>1, <1>3 DEF EndsOK, Over
<1>11. LeftOver'
  BY <1>1, <1>2, <1>5, ObservedStill DEF LeftOver
<1>12. OutcomeTruthful' /\ ExitJustified'
  BY <1>1, <1>2, <1>3, <1>5, ObservedStill DEF OutcomeTruthful, ExitJustified
<1> QED
  BY <1>4, <1>6, <1>8, <1>9, <1>10, <1>11, <1>12

\* /history had an entry: the prompt is over, however it ended.
LEMMA FromHistoryKeeps ==
  ASSUME RInv, ReceiveNothing \/ (ReceiveClosed /\ ~ Raise)
  PROVE  RInv'
<1>1. /\ Listening /\ PromptFinished /\ EndOn("success") /\ TakeFrom("history")
      /\ UNCHANGED <<job, prompt_id, interrupt_sent, after_interrupt, readable,
                     comfy_wedged, comfy, ws, restarts>>
  BY DEF ReceiveNothing, ReceiveClosed
<1>2. job \in Concluded
  BY <1>1 DEF RInv, InHandOK, Listening, ServerOK, PromptFinished
<1>3. "success" \in Terminal /\ "history" \in Bases \ {"none"}
  BY DEF Terminal, Bases
<1> QED
  BY <1>1, <1>2, <1>3, EndKeeps

LEMMA ReceiveKeeps ==
  ASSUME RInv, Receive
  PROVE  RInv'
<1>1. /\ frames \in Seq(Frames) /\ frames # <<>>
      /\ pc = "listen" /\ prompt_id = job /\ job \in Jobs
  BY DEF Receive, Listening, RInv, TypeOK, InHandOK
<1> DEFINE f == Head(frames)
<1>2. /\ f \in Frames /\ f.kind \in Terminal
      /\ f.prompt # None => f.kind = verdict[f.prompt]
  <2>1. f \in Frames /\ f = frames[1] /\ 1 \in 1 .. Len(frames)
    BY <1>1, TailParts
  <2>2. f.prompt # None => f.kind = verdict[f.prompt]
    BY <2>1 DEF RInv, ServerOK
  <2> QED
    BY <2>1, <2>2 DEF Frames
<1>3. CASE OurPrompt(f)
  <2> DEFINE b == IF f.prompt = None THEN "nameless" ELSE "frame"
  <2>1. b \in Bases \ {"none"}
    BY DEF Bases
  <2>2. /\ EndOn(f.kind) /\ TakeFrom(b)
        /\ UNCHANGED <<job, prompt_id, interrupt_sent, after_interrupt,
                       readable, comfy_wedged, comfy, ws, restarts>>
    BY <1>3 DEF Receive
  <2>3. b = "nameless" \/ (b = "frame" /\ verdict[job] = f.kind)
    BY <1>1, <1>2, <1>3 DEF OurPrompt
  <2> HIDE DEF b, f
  <2> QED
    BY <1>1, <1>2, <2>1, <2>2, <2>3, EndKeeps DEF Listening
<1>4. CASE ~ OurPrompt(f)
  <2>1. /\ frames' = Tail(frames)
        /\ UNCHANGED <<agent, redis, comfy, ws, observed, restarts>>
    BY <1>4 DEF Receive, agent
  <2> USE <2>1 DEF agent, redis, comfy, observed, RInv
  <2>2. /\ frames' \in Seq(Frames)
        /\ \A i \in 1 .. Len(frames') :
             frames'[i].prompt # None
               => frames'[i].kind = verdict[frames'[i].prompt]
    BY <1>1, TailParts DEF ServerOK
  <2>3. TypeOK'
    BY <2>2, FlagTypes, AgentTypes DEF TypeOK
  <2>4. Concluded' = Concluded /\ Unfinished' = Unfinished
    BY VerdictsStill
  <2>5. InHandOK' /\ InterruptsOK'
    BY DEF InHandOK, InterruptsOK
  <2>6. PostedOK' /\ LeftOver' /\ EndsOK'
    BY <2>4 DEF PostedOK, LeftOver, EndsOK, Misnamed
  <2>7. ServerOK'
    BY <2>2, <2>4 DEF ServerOK
  <2>8. OutcomeTruthful' /\ ExitJustified'
    BY <2>4 DEF OutcomeTruthful, ExitJustified, Misnamed
  <2> QED
    BY <2>3, <2>5, <2>6, <2>7, <2>8
<1> QED
  BY <1>3, <1>4

\* The outputs are reported of a job whose end was shown, or misnamed.
LEMMA CollectKeeps ==
  ASSUME RInv, Collect
  PROVE  RInv'
<1> USE DEF RInv, Collect, comfy
<1>1. /\ pc = "collect" /\ pc' = "leave" /\ prompt_id = job /\ job \in Jobs
      /\ frames' = <<>>
      /\ UNCHANGED <<job, prompt_id, raised, interrupt_sent, after_interrupt,
                     readable, comfy_wedged, comfy, ws, observed, restarts>>
  BY DEF Return, Leaving, InHandOK
<1>2. /\ outcome' \in [Jobs -> Outcomes] /\ UNCHANGED <<ours, cancelled>>
      /\ \A j \in Jobs : \/ outcome'[j] = outcome[j]
                         \/ j = job /\ outcome'[j] = "completed"
  BY FinishTypes DEF Outcomes
<1>3. TypeOK'
  BY <1>1, <1>2, FlagTypes, FramesStill, ObservedStill, AgentTypes
     DEF TypeOK, Places
<1>4. Concluded' = Concluded /\ Unfinished' = Unfinished
  BY VerdictsStill
<1>5. InHandOK' /\ ServerOK'
  BY <1>1, ServerStill DEF InHandOK, Before, Over
<1>6. PostedOK' /\ InterruptsOK'
  BY <1>1, <1>2, <1>4, ObservedStill DEF PostedOK, InterruptsOK, Before, Over
<1>7. EndsOK'
  BY <1>1, <1>2 DEF EndsOK, Over
<1>8. LeftOver'
  BY <1>1, <1>4, ObservedStill DEF LeftOver, InHandOK, Over
<1>9. OutcomeTruthful' /\ ExitJustified'
  BY <1>1, <1>2, <1>4, ObservedStill
     DEF OutcomeTruthful, ExitJustified, EndsOK, Misnamed
<1> QED
  BY <1>3, <1>5, <1>6, <1>7, <1>8, <1>9

LEMMA ListenKeeps ==
  ASSUME RInv, \/ PostRaises \/ GiveUp \/ SeeCancel \/ Receive
               \/ ReceiveNothing \/ ReceiveClosed \/ Collect \/ CollectRaises
  PROVE  RInv'
<1>1. CASE PostRaises \/ GiveUp \/ (ReceiveClosed /\ Raise) \/ CollectRaises
  <2>1. /\ pc \in {"post", "posted", "listen", "collect"} /\ Raise
        /\ UNCHANGED <<job, prompt_id, after_interrupt, readable, comfy_wedged,
                       redis, ws, observed, restarts>>
    <3>1. CASE PostRaises \/ CollectRaises
      BY <3>1 DEF PostRaises, CollectRaises
    <3>2. CASE GiveUp
      BY <3>2 DEF GiveUp, Listening
    <3>3. CASE ReceiveClosed /\ Raise
      <4>1. /\ pc = "listen" /\ pc' = "leave"
            /\ raised' = TRUE /\ raised \in BOOLEAN
        BY <3>3, RaiseTypes, FlagTypes DEF RInv, ReceiveClosed, Listening
      <4>2. raised = FALSE
        BY <4>1 DEF RInv, InHandOK, Over
      <4>3. ~ EndOn("success")
        BY <4>1, <4>2 DEF EndOn, Return, Leaving
      <4> QED
        BY <3>3, <4>1, <4>3 DEF ReceiveClosed
    <3> QED
      BY <1>1, <3>1, <3>2, <3>3
  <2> QED
    BY <2>1, RaiseKeeps
<1>2. CASE SeeCancel \/ Receive \/ ReceiveNothing \/ (ReceiveClosed /\ ~ Raise)
           \/ Collect
  BY <1>2, SeeCancelKeeps, ReceiveKeeps, FromHistoryKeeps, CollectKeeps
<1> QED
  BY <1>1, <1>2

-----------------------------------------------------------------------------
(* The agent, draining and between two jobs *)

LEMMA LeaveKeeps ==
  ASSUME RInv, Leave
  PROVE  RInv'
<1> USE DEF RInv, redis, comfy
<1>1. /\ pc = "leave" /\ job \in Jobs /\ frames' = frames /\ ws' = "none"
      /\ UNCHANGED <<job, prompt_id, raised, comfy_wedged, redis, comfy,
                     observed, restarts>>
  BY DEF Leave, InHandOK
<1>2. \/ /\ prompt_id = job /\ pc' = "drain" /\ interrupt_sent' = FALSE
         /\ after_interrupt' = interrupt_sent /\ readable' = FALSE
      \/ /\ prompt_id = None /\ pc' \in {"report", "poll"}
         /\ UNCHANGED <<interrupt_sent, after_interrupt, readable>>
  BY DEF Leave, EnterDrain, AfterRun, InHandOK
<1>o. UNCHANGED observed
  BY <1>1
<1>w. comfy_wedged = FALSE
  BY <1>1, FlagTypes DEF InHandOK
<1>n. prompt_id = None => interrupt_sent = FALSE
  BY <1>1, FlagTypes, NoneAssumption DEF InterruptsOK, Jobs
<1>3. TypeOK'
  <2>1. /\ interrupt_sent' \in BOOLEAN /\ after_interrupt' \in BOOLEAN
        /\ readable' \in BOOLEAN /\ pc' \in Places
    BY <1>2, FlagTypes DEF Places
  <2> QED
    BY <1>1, <2>1, FlagTypes, ObservedStill, AgentTypes DEF TypeOK
<1>4. Concluded' = Concluded /\ Unfinished' = Unfinished
  BY <1>1, VerdictsStill
<1>5. InHandOK'
  BY <1>1, <1>2, <1>w DEF InHandOK, Before, Over
<1>6. ServerOK'
  BY <1>1, ServerStill
<1>7. PostedOK'
  BY <1>1, <1>2, <1>4, ObservedStill DEF PostedOK, Before
<1>8. InterruptsOK'
  <2>1. interrupt_sent' = FALSE
    BY <1>2, <1>n
  <2>2. pc' = "drain" /\ after_interrupt' => raised' \/ job' \in cancelled'
    BY <1>1, <1>2 DEF InterruptsOK
  <2>3. pc' \in Over
    BY <1>2 DEF Over
  <2> QED
    BY <2>1, <2>2, <2>3 DEF InterruptsOK
<1>e. EndsOK'
  BY <1>1, <1>2, EndsStill DEF Over
<1>9. LeftOver'
  <2> SUFFICES ASSUME NEW p \in answered', p \in Unfinished', p \notin Misnamed'
               PROVE  /\ p = job' /\ prompt_id' = job'
                      /\ pc' = "drain" /\ after_interrupt'
    BY DEF LeftOver
  <2>1. p = job /\ prompt_id = job /\ interrupt_sent
    BY <1>1, <1>o, <1>4, <1>w, ObservedStill DEF LeftOver
  <2> QED
    BY <1>1, <1>2, <2>1, NoneAssumption DEF Jobs
<1>10. OutcomeTruthful' /\ ExitJustified'
  BY <1>1, <1>4, <1>w, ObservedStill DEF OutcomeTruthful, ExitJustified
<1> QED
  BY <1>3, <1>5, <1>6, <1>7, <1>8, <1>e, <1>9, <1>10

LEMMA DrainKeeps ==
  ASSUME RInv, PollQueue \/ DrainTimesOut
  PROVE  RInv'
<1> USE DEF RInv, redis, comfy, socket
<1>1. /\ pc = "drain" /\ job \in Jobs /\ prompt_id = job
      /\ pc' \in {"drain", "report", "poll"}
      /\ UNCHANGED <<job, prompt_id, raised, interrupt_sent, redis, comfy,
                     socket, observed, restarts>>
  BY DEF PollQueue, DrainTimesOut, LeaveDrain, AfterRun, InHandOK
<1>2. comfy_wedged = FALSE /\ interrupt_sent = FALSE
  BY <1>1, FlagTypes DEF InHandOK, InterruptsOK
<1>3. \/ /\ readable' = TRUE /\ comfy_wedged' = FALSE
         /\ \/ pc' = "drain" /\ after_interrupt' = after_interrupt
            \/ pc' # "drain" /\ after_interrupt' = FALSE /\ queue = <<>>
      \/ /\ readable' = readable /\ after_interrupt' = FALSE /\ pc' # "drain"
         /\ comfy_wedged' = (after_interrupt \/ readable)
  <2>1. CASE PollQueue
    BY <1>1, <1>2, <2>1 DEF PollQueue, ComfyIdle, LeaveDrain, AfterRun
  <2>2. CASE DrainTimesOut
    BY <2>2, FlagTypes DEF DrainTimesOut, LeaveDrain, OnlyAPause, AfterRun
  <2> QED
    BY <2>1, <2>2
<1>4. TypeOK'
  <2>1. /\ readable' \in BOOLEAN /\ comfy_wedged' \in BOOLEAN
        /\ after_interrupt' \in BOOLEAN /\ pc' \in Places
    BY <1>1, <1>3, FlagTypes DEF Places
  <2> QED
    BY <1>1, <2>1, FlagTypes, ObservedStill, AgentTypes DEF TypeOK
<1>5. Concluded' = Concluded /\ Unfinished' = Unfinished
  BY <1>1, VerdictsStill
<1>6. InHandOK'
  BY <1>1, <1>3 DEF InHandOK, Before, Over
<1>7. ServerOK'
  BY <1>1, ServerStill
<1>8. PostedOK'
  BY <1>1, <1>5, ObservedStill DEF PostedOK, Before
<1>9. InterruptsOK'
  BY <1>1, <1>2, <1>3 DEF InterruptsOK, Over
<1>e. EndsOK'
  BY <1>1, EndsStill DEF Over
<1>10. LeftOver'
  <2> SUFFICES ASSUME NEW p \in answered', p \in Unfinished', p \notin Misnamed'
               PROVE  /\ p = job' /\ prompt_id' = job'
                      /\ (pc' = "drain" /\ after_interrupt') \/ comfy_wedged'
    BY DEF LeftOver
  <2>1. p = job /\ after_interrupt
    BY <1>1, <1>2, <1>5, ObservedStill DEF LeftOver
  <2>2. queue # <<>>
    BY <1>5, EmptyRange DEF Unfinished
  <2> QED
    BY <1>1, <1>3, <2>1, <2>2
<1>11. OutcomeTruthful'
  BY <1>1, <1>5, ObservedStill DEF OutcomeTruthful
<1>12. ExitJustified'
  <2>1. after_interrupt => raised \/ job \in cancelled
    BY <1>1 DEF InterruptsOK
  <2> QED
    BY <1>1, <1>3, <2>1 DEF ExitJustified
<1> QED
  BY <1>4, <1>6, <1>7, <1>8, <1>9, <1>e, <1>10, <1>11, <1>12

LEMMA ReportKeeps ==
  ASSUME RInv, ReportFailure \/ ExitWedged
  PROVE  RInv'
<1> USE DEF RInv, redis, comfy, socket, observed
<1>1. /\ pc \in {"report", "poll"} /\ pc' \in {"poll", "gone"}
      /\ UNCHANGED <<job, prompt_id, raised, interrupt_sent, after_interrupt,
                     readable, comfy_wedged, ours, cancelled, comfy, socket,
                     observed, restarts>>
  BY DEF ReportFailure, ExitWedged, Finish
<1>2. /\ outcome' \in [Jobs -> Outcomes]
      /\ \A j \in Jobs : \/ outcome'[j] = outcome[j]
                         \/ j = job /\ outcome'[j] = "failed"
  <2>1. CASE ReportFailure
    BY <2>1, FinishTypes DEF ReportFailure, Outcomes
  <2>2. CASE ExitWedged
    BY <2>2 DEF ExitWedged, TypeOK
  <2> QED
    BY <2>1, <2>2
<1>3. TypeOK'
  BY <1>1, <1>2, FlagTypes, AgentTypes DEF TypeOK, Places
<1>4. Concluded' = Concluded /\ Unfinished' = Unfinished
  BY <1>1, VerdictsStill
<1>5. InHandOK' /\ ServerOK'
  BY <1>1, ServerStill DEF InHandOK, Before, Over
<1>6. PostedOK' /\ InterruptsOK'
  BY <1>1, <1>4 DEF PostedOK, InterruptsOK, Before, Over
<1>7. LeftOver'
  BY <1>1, <1>4 DEF LeftOver, Misnamed
<1>e. EndsOK'
  BY <1>1, <1>2 DEF EndsOK, Over
<1>8. OutcomeTruthful' /\ ExitJustified'
  BY <1>1, <1>2, <1>4 DEF OutcomeTruthful, ExitJustified, Misnamed
<1> QED
  BY <1>3, <1>5, <1>6, <1>7, <1>e, <1>8

LEMMA WorldKeeps ==
  ASSUME RInv, RequestCancel \/ Reap
  PROVE  RInv'
<1> USE DEF RInv, agent, comfy, socket, observed
<1>1. /\ cancelled \subseteq cancelled' /\ cancelled' \subseteq Jobs
      /\ ours' \in BOOLEAN
      /\ UNCHANGED <<agent, outcome, comfy, socket, observed, restarts>>
  <2>1. CASE RequestCancel
    BY <2>1, FlagTypes DEF RequestCancel, TypeOK
  <2>2. CASE Reap
    BY <2>2 DEF Reap, TypeOK
  <2> QED
    BY <2>1, <2>2
<1>2. TypeOK'
  BY <1>1, FlagTypes, AgentTypes DEF TypeOK
<1>3. Concluded' = Concluded /\ Unfinished' = Unfinished
  BY <1>1, VerdictsStill
<1>4. InHandOK' /\ ServerOK'
  BY <1>1, ServerStill DEF InHandOK
<1>5. PostedOK' /\ InterruptsOK' /\ LeftOver'
  BY <1>1, <1>3 DEF PostedOK, InterruptsOK, LeftOver, Misnamed
<1>e. EndsOK'
  BY <1>1, <1>3 DEF EndsOK
<1>6. OutcomeTruthful' /\ ExitJustified'
  BY <1>1, <1>3 DEF OutcomeTruthful, ExitJustified, Misnamed
<1> QED
  BY <1>2, <1>4, <1>5, <1>e, <1>6

-----------------------------------------------------------------------------
(* ComfyUI's own steps *)

\* What ended stays as it ended.
LEMMA AgentStill ==
  ASSUME RInv, UNCHANGED <<agent, redis, observed>>,
         \A p \in Jobs : verdict[p] # "none" => verdict'[p] = verdict[p]
  PROVE  InHandOK' /\ EndsOK' /\ OutcomeTruthful' /\ ExitJustified'
<1> USE DEF RInv, agent, redis
<1>1. Concluded \subseteq Concluded'
  BY DEF Concluded
<1>2. InHandOK' /\ ExitJustified'
  BY DEF InHandOK, ExitJustified
<1>3. EndsOK'
  BY <1>1, ObservedStill DEF EndsOK, InHandOK
<1>4. OutcomeTruthful'
  BY <1>1, ObservedStill DEF OutcomeTruthful
<1> QED
  BY <1>2, <1>3, <1>4

\* What ComfyUI runs is in its queue, and is never a prompt still to be posted.
LEMMA RunsItsQueue ==
  ASSUME RInv, running # None
  PROVE  /\ running \in Jobs /\ queue # <<>> /\ running \in Range(queue)
         /\ running < job \/ (running = job /\ pc \notin Before)
BY HeadInRange DEF RInv, TypeOK, ServerOK, PostedOK

LEMMA StartPromptKeeps ==
  ASSUME RInv, StartPrompt
  PROVE  RInv'
<1> USE DEF RInv, StartPrompt, socket
<1>1. Concluded' = Concluded /\ Unfinished' = Unfinished
  BY VerdictsStill
<1>2. TypeOK'
  <2>1. Head(queue) \in Jobs
    BY TailParts DEF TypeOK
  <2> QED
    BY <2>1 DEF TypeOK, agent, redis, observed
<1>3. InHandOK' /\ EndsOK' /\ OutcomeTruthful' /\ ExitJustified'
  BY AgentStill
<1>4. InterruptsOK'
  BY DEF InterruptsOK, agent, redis
<1>5. PostedOK' /\ LeftOver'
  BY <1>1, ObservedStill DEF PostedOK, LeftOver, agent
<1>6. ServerOK'
  BY <1>1 DEF ServerOK
<1> QED
  BY <1>2, <1>3, <1>4, <1>5, <1>6

\* The frames sent so far are about other prompts than one not yet concluded.
LEMMA ConcludeKeeps ==
  ASSUME RInv, NEW kind \in Terminal, Conclude(kind),
         kind = "interrupted" => running \in interrupted
  PROVE  RInv'
<1> USE DEF RInv, Conclude, socket
<1>1. /\ running \in Jobs /\ verdict[running] = "none" /\ running # None
      /\ running \in Range(queue)
      /\ running < job \/ (running = job /\ pc \notin Before)
  BY RunsItsQueue DEF TypeOK, Concluded
<1>2. /\ verdict' \in [Jobs -> Terminal \cup {"none"}]
      /\ verdict'[running] = kind
      /\ \A p \in Jobs : p # running => verdict'[p] = verdict[p]
  BY <1>1 DEF TypeOK
<1>3. kind # "none"
  BY DEF Terminal
<1>4. Concluded' = Concluded \cup {running}
  BY <1>1, <1>2, <1>3 DEF Concluded
<1>5. Unfinished' \subseteq Unfinished
  BY <1>4 DEF Unfinished
<1>6. TypeOK'
  <2>1. history' \subseteq Jobs /\ untold' \subseteq Jobs
    BY <1>1 DEF TypeOK
  <2> QED
    BY <1>2, <2>1 DEF TypeOK, agent, redis, observed
<1>7. InHandOK' /\ EndsOK' /\ OutcomeTruthful' /\ ExitJustified'
  BY <1>1, <1>2, AgentStill
<1>8. InterruptsOK'
  <2>1. interrupt_sent' = interrupt_sent /\ pc' = pc /\ prompt_id' = prompt_id
        /\ job' = job /\ raised' = raised /\ cancelled' = cancelled
        /\ after_interrupt' = after_interrupt /\ interrupted' = interrupted
    BY DEF agent, redis
  <2>2. ASSUME NEW p \in Jobs, p \in interrupted \/ verdict'[p] = "interrupted"
        PROVE  p \in interrupted \/ verdict[p] = "interrupted"
    BY <1>2, <2>2
  <2> QED
    BY <2>1, <2>2 DEF InterruptsOK
<1>9. PostedOK'
  <2>1. /\ Range(queue)' = Range(queue) /\ interrupted' = interrupted
        /\ pc' = pc /\ job' = job /\ answered' = answered
    BY ObservedStill DEF agent
  <2> QED
    BY <1>1, <1>4, <2>1 DEF PostedOK
<1>10. ServerOK'
  <2>1. ASSUME NEW i \in 1 .. Len(frames), frames[i].prompt # None
        PROVE  frames[i].kind = verdict'[frames[i].prompt]
    <3>1. frames[i] \in Frames
      BY DEF TypeOK
    <3>2. frames[i].prompt \in Jobs /\ frames[i].kind # "none"
      BY <2>1, <3>1 DEF Frames, Terminal
    <3>3. frames[i].kind = verdict[frames[i].prompt]
      BY <2>1 DEF ServerOK
    <3> QED
      BY <1>1, <1>2, <3>2, <3>3
  <2> QED
    BY <1>4, <2>1 DEF ServerOK
<1>11. LeftOver'
  BY <1>5, ObservedStill DEF LeftOver, agent
<1> QED
  BY <1>6, <1>7, <1>8, <1>9, <1>10, <1>11

LEMMA AnnounceKeeps ==
  ASSUME RInv, NEW p \in Jobs, Announce(p)
  PROVE  RInv'
<1> USE DEF RInv, Announce
<1>1. verdict[p] \in Terminal
  BY DEF ServerOK, Concluded, TypeOK
<1>2. Concluded' = Concluded /\ Unfinished' = Unfinished
  BY VerdictsStill
<1>3. PICK f \in LastFrames(p) : frames' = Append(frames, f)
  OBVIOUS
<1>4. f \in Frames /\ (f.prompt # None => f.kind = verdict[f.prompt])
  BY <1>1 DEF LastFrames, Frames, Terminal
<1>5. frames' \in Seq(Frames)
  BY <1>3, <1>4, AppendRange DEF TypeOK
<1>6. TypeOK'
  BY <1>5, FlagTypes DEF TypeOK, agent, redis, observed
<1>7. InHandOK' /\ EndsOK' /\ OutcomeTruthful' /\ ExitJustified'
  BY AgentStill
<1>8. InterruptsOK'
  BY DEF InterruptsOK, agent, redis
<1>9. PostedOK' /\ LeftOver'
  BY <1>2, ObservedStill DEF PostedOK, LeftOver, agent
<1>10. ServerOK'
  <2>1. ASSUME NEW i \in 1 .. Len(frames'), frames'[i].prompt # None
        PROVE  frames'[i].kind = verdict[frames'[i].prompt]
    <3>1. frames \in Seq(Frames) /\ f \in Frames
      BY <1>4 DEF TypeOK
    <3>2. /\ \A k \in 1 .. Len(frames) : frames'[k] = frames[k]
          /\ frames'[Len(frames) + 1] = f
          /\ i \in 1 .. Len(frames) \/ i = Len(frames) + 1
      BY <1>3, <3>1
    <3> QED
      BY <1>4, <2>1, <3>2 DEF ServerOK
  <2> QED
    BY <1>2, <2>1 DEF ServerOK
<1> QED
  BY <1>6, <1>7, <1>8, <1>9, <1>10

LEMMA LeaveQueueKeeps ==
  ASSUME RInv, LeaveQueue
  PROVE  RInv'
<1> USE DEF RInv, LeaveQueue
<1>1. running # None
  BY NoneAssumption DEF Concluded, Jobs
<1>2. queue \in Seq(Jobs) /\ queue # <<>>
  BY <1>1 DEF ServerOK, TypeOK
<1>3. queue' \in Seq(Jobs) /\ Range(queue') \subseteq Range(queue)
  BY <1>2, TailParts
<1>4. /\ Concluded' = Concluded
      /\ Unfinished' \subseteq Unfinished
  BY <1>3 DEF Concluded, Unfinished
<1>5. TypeOK'
  BY <1>3 DEF TypeOK, agent, redis, socket, observed
<1>6. InHandOK' /\ EndsOK' /\ OutcomeTruthful' /\ ExitJustified'
  BY AgentStill
<1>7. InterruptsOK'
  BY DEF InterruptsOK, agent, redis
<1>8. PostedOK' /\ LeftOver'
  BY <1>3, <1>4, ObservedStill DEF PostedOK, LeftOver, agent
<1>9. ServerOK'
  BY <1>4 DEF ServerOK, socket
<1> QED
  BY <1>5, <1>6, <1>7, <1>8, <1>9

LEMMA CloseSocketKeeps ==
  ASSUME RInv, CloseSocket
  PROVE  RInv'
<1> USE DEF RInv, CloseSocket, comfy
<1>1. Concluded' = Concluded /\ Unfinished' = Unfinished
  BY VerdictsStill
<1>2. frames' \in Seq(Frames)
  OBVIOUS
<1>3. TypeOK'
  BY <1>2 DEF TypeOK, agent, redis, observed
<1>4. InHandOK' /\ EndsOK' /\ OutcomeTruthful' /\ ExitJustified'
  BY AgentStill
<1>5. InterruptsOK'
  BY DEF InterruptsOK, agent, redis
<1>6. PostedOK' /\ LeftOver'
  BY <1>1, ObservedStill DEF PostedOK, LeftOver, agent
<1>7. ServerOK'
  BY ServerStill
<1> QED
  BY <1>3, <1>4, <1>5, <1>6, <1>7

\* What is forgotten: the queue, the history and the frames.
LEMMA Emptied ==
  ASSUME RInv, queue' = <<>>, running' = None, untold' = {}, history' = {},
         frames' = <<>>, UNCHANGED <<verdict, outcome, cancelled, observed>>
  PROVE  /\ ServerOK' /\ LeftOver' /\ OutcomeTruthful'
         /\ Concluded' = Concluded /\ Range(queue') = {}
<1>1. Range(queue') = {} /\ Concluded' = Concluded
  BY EmptyRange DEF Concluded
<1>2. Unfinished' = {}
  BY <1>1 DEF Unfinished
<1>3. LeftOver'
  BY <1>2 DEF LeftOver
<1>4. ServerOK'
  BY DEF ServerOK
<1>5. OutcomeTruthful'
  BY <1>1, ObservedStill DEF RInv, OutcomeTruthful
<1> QED
  BY <1>1, <1>3, <1>4, <1>5

LEMMA DieKeeps ==
  ASSUME RInv, Die
  PROVE  RInv'
<1> USE DEF RInv, Die
<1>1. /\ ServerOK' /\ LeftOver' /\ OutcomeTruthful'
      /\ Concluded' = Concluded /\ Range(queue') = {}
  BY Emptied DEF redis
<1>2. queue' \in Seq(Jobs) /\ frames' \in Seq(Frames)
  OBVIOUS
<1>3. ws' \in {"none", "open", "closed"}
  BY DEF TypeOK
<1>4. TypeOK'
  BY <1>2, <1>3 DEF TypeOK, agent, redis, observed
<1>5. InHandOK' /\ EndsOK' /\ ExitJustified'
  BY AgentStill
<1>6. InterruptsOK'
  BY DEF InterruptsOK, agent, redis
<1>7. PostedOK'
  BY <1>1, ObservedStill DEF PostedOK, agent
<1> QED
  BY <1>1, <1>4, <1>5, <1>6, <1>7

LEMMA PodRestartsKeeps ==
  ASSUME RInv, PodRestarts
  PROVE  RInv'
<1> USE DEF RInv, PodRestarts
<1>1. /\ ServerOK' /\ LeftOver' /\ OutcomeTruthful'
      /\ Concluded' = Concluded /\ Range(queue') = {}
  BY Emptied
<1>2. queue' \in Seq(Jobs) /\ frames' \in Seq(Frames)
  OBVIOUS
<1>3. restarts' \in 0 .. MaxRestarts
  BY BoundsAssumption DEF TypeOK
<1>4. TypeOK'
  BY <1>2, <1>3 DEF TypeOK, Places, observed
<1>5. InHandOK' /\ ExitJustified' /\ InterruptsOK'
  BY DEF InHandOK, ExitJustified, InterruptsOK, Before, Over
<1>6. PostedOK'
  <2>1. pc' \notin Before \cup {"posted"}
    BY DEF Before
  <2> QED
    BY <1>1, <2>1, ObservedStill DEF PostedOK
<1>7. EndsOK'
  BY EndsStill DEF Over
<1> QED
  BY <1>1, <1>4, <1>5, <1>6, <1>7

LEMMA ComfyKeeps ==
  ASSUME RInv, Comfy
  PROVE  RInv'
<1>1. CASE Succeed
  BY <1>1, ConcludeKeeps DEF Succeed, Terminal
<1>2. CASE Fail
  BY <1>2, ConcludeKeeps DEF Fail, Terminal
<1>3. CASE Stop
  BY <1>3, ConcludeKeeps DEF Stop, Terminal
<1> QED
  BY <1>1, <1>2, <1>3, StartPromptKeeps, AnnounceKeeps, LeaveQueueKeeps,
     CloseSocketKeeps, DieKeeps DEF Comfy

-----------------------------------------------------------------------------
(* Together *)

LEMMA NextRInv == RInv /\ [Next]_vars => RInv'
<1> SUFFICES ASSUME RInv, [Next]_vars PROVE RInv'
  OBVIOUS
<1>1. CASE Take \/ RunJob
  <2>1. CASE Take \/ Connect \/ CheckCancelled \/ Claim
    BY <2>1, TakeKeeps, ConnectKeeps, CheckKeeps
  <2>2. CASE PostArrives \/ PostAnswered
    BY <2>2, PostKeeps, AnswerKeeps
  <2>3. CASE PostRaises \/ GiveUp \/ SeeCancel \/ Receive \/ ReceiveNothing
             \/ ReceiveClosed \/ Collect \/ CollectRaises
    BY <2>3, ListenKeeps
  <2>4. CASE Leave \/ PollQueue \/ DrainTimesOut
    BY <2>4, LeaveKeeps, DrainKeeps
  <2> QED
    BY <1>1, <2>1, <2>2, <2>3, <2>4 DEF RunJob, UseVolume, TimedStep
<1>2. CASE ReportFailure \/ ExitWedged
  BY <1>2, ReportKeeps
<1>3. CASE Comfy
  BY <1>3, ComfyKeeps
<1>4. CASE RequestCancel \/ Reap \/ PodRestarts
  BY <1>4, WorldKeeps, PodRestartsKeeps
<1>5. CASE UNCHANGED vars
  <2>1. Concluded' = Concluded /\ Unfinished' = Unfinished
    BY <1>5, VerdictsStill DEF vars, comfy
  <2> USE <1>5 DEF vars, agent, redis, comfy, socket, observed, RInv
  <2>2. TypeOK' /\ InHandOK' /\ InterruptsOK'
    BY DEF TypeOK, InHandOK, InterruptsOK
  <2>3. PostedOK' /\ ServerOK' /\ EndsOK' /\ LeftOver'
    BY <2>1 DEF PostedOK, ServerOK, EndsOK, LeftOver, Misnamed
  <2>4. OutcomeTruthful' /\ ExitJustified'
    BY <2>1 DEF OutcomeTruthful, ExitJustified, Misnamed
  <2> QED
    BY <2>2, <2>3, <2>4
<1> QED
  BY <1>1, <1>2, <1>3, <1>4, <1>5 DEF Next, Agent

LEMMA RInvAlways == Spec => []RInv
BY InitRInv, NextRInv, PTL DEF Spec

\* Every variable of the agent, of its Redis record and of ComfyUI has its
\* type: run_job() never awaits a prompt that is not a job's.
THEOREM AgentTypeOK == Spec => []TypeOK
<1>1. RInv => TypeOK
  BY DEF RInv
<1> QED
  BY <1>1, RInvAlways, PTL

\* What finish() reports is true of this job's own prompt, although one socket
\* carries every prompt, and interrupts hit whatever runs: "cancelled" only if
\* its user asked, "completed" only if its execution succeeded, or /history had
\* an entry for it and it was over.  Nothing is promised of a job that ended on
\* a frame without an id, which run_job() lets through.
THEOREM OutcomesAreTruthful == Spec => []OutcomeTruthful
<1>1. RInv => OutcomeTruthful
  BY DEF RInv
<1> QED
  BY <1>1, RInvAlways, PTL

\* main() only exits on comfy_wedged over a prompt that was abandoned or a
\* queue that was seen busy, never over an unreadable /queue alone.
THEOREM ExitsAreJustified == Spec => []ExitJustified
<1>1. RInv => ExitJustified
  BY DEF RInv
<1> QED
  BY <1>1, RInvAlways, PTL

\* main() does not BLMOVE the next job while ComfyUI still has to execute a
\* prompt whose id submit_prompt() returned, however run_job() came to its end,
\* but for one that it ended on a frame without an id.
THEOREM TakesWhenFree == Spec => TakesOnlyWhenFree
<1>1. RInv /\ [Next]_vars
        => [pc = "poll" /\ pc' = "connect"
              => answered \cap Unfinished \subseteq Misnamed]_vars
  <2> SUFFICES ASSUME RInv, [Next]_vars, pc = "poll", pc' = "connect"
               PROVE  answered \cap Unfinished \subseteq Misnamed
    OBVIOUS
  <2>1. Take
    BY DEF Next, Agent, RunJob, UseVolume, TimedStep, Comfy, vars, agent,
           Connect, CheckCancelled, Claim, PostArrives, PostAnswered,
           PostRaises, GiveUp, SeeCancel, Receive, ReceiveNothing,
           ReceiveClosed, Listening, Collect, CollectRaises, Leave, PollQueue,
           DrainTimesOut, ReportFailure, ExitWedged, StartPrompt, Succeed,
           Fail, Stop, Conclude, Announce, LeaveQueue, CloseSocket, Die,
           RequestCancel, Reap, PodRestarts
  <2> QED
    BY <2>1 DEF Take, RInv, LeftOver
<1> QED
  BY <1>1, RInvAlways, PTL DEF Spec, TakesOnlyWhenFree
=============================================================================
