----------------------------- MODULE WorkerAgent -----------------------------
(***************************************************************************)
(* One worker incarnation: main(), run_job() and finish() of               *)
(* worker_agent.py, one action per command it sends to Redis or request it *)
(* sends to ComfyUI.  What happens between two commands inside the process *)
(* (waiting for sampler steps, draining ComfyUI, collecting outputs) only  *)
(* takes time, which every interleaving already allows.                    *)
(***************************************************************************)
EXTENDS PoolState

Running(w) == wk[w].pc \notin {"exit", "gone", "dead"}

\* The job a busy worker holds.
JobOf(w) == wk[w].entry.job

Goto(w, pc) == wk' = [wk EXCEPT ![w].pc = pc]

\* Leave the job with an outcome still to be reported.  final marks the
\* report main() makes for a run_job() that raised: it is the last one tried.
Conclude(w, out, final) ==
  wk' = [wk EXCEPT ![w] = [@ EXCEPT !.pc = "report", !.out = out,
                                    !.final = final]]

workerElse == <<alive, claim, failures, undeliverable, rp, sub, faults>>

-----------------------------------------------------------------------------
(* Taking a job *)

Pop(w) ==
  /\ wk[w].pc = "idle"
  /\ \E e \in queue :
       /\ queue' = queue \ {e}
       /\ proc' = [proc EXCEPT ![w] = @ \cup {e}]
       /\ wk' = [wk EXCEPT ![w] = [IdleWorker EXCEPT !.pc = "popped",
                                                     !.entry = e]]
  /\ UNCHANGED <<payload, state, stream, history, workerElse>>

\* A pointer whose workflow is gone is failed with no job_id in hand, so its
\* payload is not deleted either.
FetchPayload(w) ==
  /\ wk[w].pc = "popped"
  /\ \/ /\ JobOf(w) \in payload
        /\ wk' = [wk EXCEPT ![w] = [@ EXCEPT !.pc = "start", !.known = TRUE]]
     \/ /\ JobOf(w) \notin payload
        /\ Conclude(w, "failed", TRUE)
  /\ UNCHANGED <<queue, payload, state, stream, proc, history, workerElse>>

-----------------------------------------------------------------------------
(* run_job() *)

\* The opening HSET asks nobody: status, phase, owner and clock in one write.
StartJob(w) ==
  /\ wk[w].pc = "start"
  /\ HSet(JobOf(w), [state[JobOf(w)] EXCEPT !.status = "running",
                                            !.phase = "dispatched",
                                            !.owner = w,
                                            !.clock = TRUE])
  /\ starts' = [starts EXCEPT ![JobOf(w)] = @ + 1]
  /\ stale' = IF wk[w].entry \in fenced THEN stale \cup {JobOf(w)} ELSE stale
  /\ Goto(w, "prologue")
  /\ UNCHANGED <<queue, payload, stream, proc, handed, bills, requeues, fenced,
                 late, withdrawn, trimmed, workerElse>>

\* A save node that escapes its workspace, a ws.connect() that times out.
PrologueRaises(w) ==
  /\ wk[w].pc = "prologue"
  /\ Conclude(w, "failed", TRUE)
  /\ UNCHANGED <<queue, payload, state, stream, proc, history, workerElse>>

\* Fault: the cancel flag is not looked at before the claim.
CheckNothing(w) ==
  /\ wk[w].pc = "prologue"
  /\ Goto(w, "claim")
  /\ UNCHANGED <<queue, payload, state, stream, proc, history, workerElse>>

CheckCancelled(w) ==
  /\ wk[w].pc = "prologue"
  /\ \/ /\ state[JobOf(w)].cancel
        /\ Conclude(w, "cancelled", FALSE)
     \/ /\ ~ state[JobOf(w)].cancel
        /\ Goto(w, "claim")
  /\ UNCHANGED <<queue, payload, state, stream, proc, history, workerElse>>

\* Fault: no fence.
Unfenced(w) == TRUE

StillOurs(w) == state[JobOf(w)].owner \in {None, w}

\* Fault: the breadcrumb is left for later.
ClaimWithoutPhase(w) ==
  /\ wk[w].pc = "claim"
  /\ Goto(w, IF StillOurs(w) THEN "submit" ELSE "remove")
  /\ UNCHANGED <<queue, payload, state, stream, proc, history, workerElse>>

\* CLAIM_EXECUTING_LUA; a worker that lost the job abandons without a word.
ClaimExecuting(w) ==
  /\ wk[w].pc = "claim"
  /\ \/ /\ StillOurs(w)
        /\ state' = [state EXCEPT ![JobOf(w)].phase = "executing"]
        /\ Goto(w, "submit")
     \/ /\ ~ StillOurs(w)
        /\ Goto(w, "remove")
        /\ UNCHANGED state
  /\ UNCHANGED <<queue, payload, stream, proc, history, workerElse>>

SubmitPrompt(w) ==
  /\ wk[w].pc = "submit"
  /\ handed' = [handed EXCEPT ![JobOf(w)] = @ + 1]
  /\ Goto(w, "running")
  /\ UNCHANGED <<queue, payload, state, stream, proc, starts, bills, requeues, fenced, late,
                 stale, withdrawn, trimmed, workerElse>>

\* The POST raised: refused outright, or sent and its answer lost.
SubmitRaises(w) ==
  /\ wk[w].pc = "submit"
  /\ \E sent \in {0, 1} :
       handed' = [handed EXCEPT ![JobOf(w)] = @ + sent]
  /\ Conclude(w, "failed", TRUE)
  /\ UNCHANGED <<queue, payload, state, stream, proc, starts, bills, requeues, fenced, late,
                 stale, withdrawn, trimmed, workerElse>>

\* ComfyUI's terminal event, or a cancel noticed between two events.
PromptEnds(w) ==
  /\ wk[w].pc = "running"
  /\ \E out \in TerminalTypes : Conclude(w, out, FALSE)
  /\ UNCHANGED <<queue, payload, state, stream, proc, history, workerElse>>

\* The deadline passed, or ComfyUI closed the socket.
RunRaises(w) ==
  /\ wk[w].pc = "running"
  /\ Conclude(w, "failed", TRUE)
  /\ UNCHANGED <<queue, payload, state, stream, proc, history, workerElse>>

-----------------------------------------------------------------------------
(* finish(): four commands, the ownership read first *)

CheckOwner(w) ==
  /\ wk[w].pc = "report"
  /\ Goto(w, IF StillOurs(w) THEN "bill" ELSE "remove")
  /\ UNCHANGED <<queue, payload, state, stream, proc, history, workerElse>>

BillSubmitter(w) ==
  /\ wk[w].pc = "bill"
  /\ Accrue(JobOf(w))
  /\ Goto(w, "status")
  /\ UNCHANGED <<queue, payload, stream, proc, handed, starts, requeues, fenced,
                 late, stale, withdrawn, trimmed, workerElse>>

WriteStatus(w) ==
  /\ wk[w].pc = "status"
  /\ state' = [state EXCEPT ![JobOf(w)].status = wk[w].out]
  /\ Goto(w, "emit")
  /\ UNCHANGED <<queue, payload, stream, proc, history, workerElse>>

EmitTerminal(w) ==
  /\ wk[w].pc = "emit"
  /\ stream' = [stream EXCEPT ![JobOf(w)] = Append(@, wk[w].out)]
  /\ Goto(w, "remove")
  /\ UNCHANGED <<queue, payload, state, proc, history, workerElse>>

-----------------------------------------------------------------------------
(* main()'s finally *)

\* The payload goes only when the LREM removed something and the job was
\* parsed.
RemoveEntry(w) ==
  /\ wk[w].pc = "remove"
  /\ proc' = [proc EXCEPT ![w] = @ \ {wk[w].entry}]
  /\ IF wk[w].entry \in proc[w] /\ wk[w].known
       THEN Goto(w, "drop")
       ELSE wk' = [wk EXCEPT ![w] = IdleWorker]
  /\ UNCHANGED <<queue, payload, state, stream, history, workerElse>>

DropPayload(w) ==
  /\ wk[w].pc = "drop"
  /\ payload' = payload \ {JobOf(w)}
  /\ wk' = [wk EXCEPT ![w] = IdleWorker]
  /\ UNCHANGED <<queue, state, stream, proc, history, workerElse>>

\* A Redis command raised.  Under run_job(), or under the last report, the
\* error fails the job, once; before the job is known nothing catches it but
\* the clean-up; a lost accrual and a lost clean-up are swallowed.
WorkerBlip(w) ==
  /\ Fault("workerblip")
  /\ \/ /\ wk[w].pc \in {"start", "claim", "report", "status", "emit"}
        /\ wk[w].known
        /\ IF wk[w].final THEN Goto(w, "remove")
                          ELSE Conclude(w, "failed", TRUE)
     \/ /\ wk[w].pc \in {"popped", "report", "status", "emit"}
        /\ ~ wk[w].known
        /\ Goto(w, "crash")
     \/ /\ wk[w].pc = "bill"
        /\ Goto(w, "status")
     \/ /\ wk[w].pc \in {"remove", "drop"}
        /\ wk' = [wk EXCEPT ![w] = IdleWorker]
  /\ UNCHANGED <<redisVars, rp, sub, history>>

\* The same clean-up, under an error that then ends the process.
CrashOut(w) ==
  /\ wk[w].pc = "crash"
  /\ proc' = [proc EXCEPT ![w] = @ \ {wk[w].entry}]
  /\ wk' = [wk EXCEPT ![w] = [IdleWorker EXCEPT !.pc = "exit"]]
  /\ UNCHANGED <<queue, payload, state, stream, history, workerElse>>

-----------------------------------------------------------------------------
(* Liveness of the process *)

\* The keepalive thread, and the two loops, re-arm the heartbeat key.
Heartbeat(w) ==
  /\ Running(w)
  /\ w \notin alive
  /\ alive' = alive \cup {w}
  /\ UNCHANGED <<queue, payload, state, stream, proc, claim, failures,
                 undeliverable, wk, rp, sub, faults, history>>

\* A clean exit (SIGTERM, or ComfyUI wedged) happens between jobs, and stops
\* the keepalive.
Retire(w) ==
  /\ wk[w].pc = "idle"
  /\ Fault("death")
  /\ wk' = [wk EXCEPT ![w] = [IdleWorker EXCEPT !.pc = "exit"]]
  /\ UNCHANGED <<redisVars, rp, sub, history>>

\* Only then is the heartbeat key deleted.
Deregister(w) ==
  /\ wk[w].pc = "exit"
  /\ alive' = alive \ {w}
  /\ wk' = [wk EXCEPT ![w] = [IdleWorker EXCEPT !.pc = "gone"]]
  /\ UNCHANGED <<queue, payload, state, stream, proc, claim, failures,
                 undeliverable, rp, sub, faults, history>>

\* SIGKILL, an OOM, a node reclaim: anywhere, with no warning.
Die(w) ==
  /\ wk[w].pc \notin {"gone", "dead"}
  /\ Fault("death")
  /\ wk' = [wk EXCEPT ![w] = [IdleWorker EXCEPT !.pc = "dead"]]
  /\ UNCHANGED <<redisVars, rp, sub, history>>

\* HEARTBEAT_TTL seconds after a worker died.
HeartbeatExpires(w) ==
  /\ wk[w].pc = "dead"
  /\ w \in alive
  /\ alive' = alive \ {w}
  /\ UNCHANGED <<queue, payload, state, stream, proc, claim, failures,
                 undeliverable, wk, rp, sub, faults, history>>

\* The process is alive but could not refresh its key for HEARTBEAT_TTL: it
\* was stopped by the kernel, or Redis was out of its reach.
HeartbeatLapses(w) ==
  /\ Running(w)
  /\ w \in alive
  /\ Fault("lapse")
  /\ alive' = alive \ {w}
  /\ UNCHANGED <<queue, payload, state, stream, proc, claim, failures,
                 undeliverable, wk, rp, sub, history>>

\* Everything a worker does of itself, in the order its program gives.
WorkerStep(w) ==
  \/ FetchPayload(w) \/ StartJob(w) \/ PrologueRaises(w) \/ CheckCancelled(w)
  \/ ClaimExecuting(w) \/ SubmitPrompt(w) \/ SubmitRaises(w)
  \/ PromptEnds(w) \/ RunRaises(w)
  \/ CheckOwner(w) \/ BillSubmitter(w) \/ WriteStatus(w) \/ EmitTerminal(w)
  \/ RemoveEntry(w) \/ DropPayload(w) \/ CrashOut(w) \/ Deregister(w)
==============================================================================
