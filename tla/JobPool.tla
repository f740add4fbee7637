------------------------------ MODULE JobPool ------------------------------
(***************************************************************************)
(* The worker pool: every worker incarnation, the reaper of every gateway  *)
(* replica and the submissions, interleaved on one Redis, with the faults  *)
(* the code is written for.                                                *)
(***************************************************************************)
EXTENDS WorkerAgent, ReaperTask, SubmitPath

\* What the processes do, and what the clock does to their keys.
Progress ==
  \/ \E w \in Workers : \/ Pop(w)
                        \/ WorkerStep(w)
                        \/ Heartbeat(w)
                        \/ HeartbeatExpires(w)
  \/ \E g \in Gateways : \/ ReaperStep(g)
                         \/ \E w \in Workers : FindDeadList(g, w)
  \/ \E e \in Entries : ClaimExpires(e)
  \/ \E j \in Jobs : Enqueue(j) \/ WriteState(j) \/ Cancel(j)

Misfortune ==
  \/ \E w \in Workers : \/ Die(w)
                        \/ Retire(w)
                        \/ HeartbeatLapses(w)
                        \/ WorkerBlip(w)
  \/ \E g \in Gateways : GatewayDies(g) \/ ReapBlip(g)
  \/ \E j \in Jobs : SubmitDies(j)

Next == Progress \/ Misfortune

Spec == Init /\ [][Next]_vars

(***************************************************************************)
(* Fairness.  A live worker, a reaper task and a request handler run until *)
(* they return; the TTLs of a dead process run out.  A tick visits every   *)
(* processing list in turn, so no list is passed over for ever.  That a    *)
(* live worker runs on also assumes that the volume answers: the prologue  *)
(* makes a directory and the report reads files on a shared mount, with no *)
(* timeout (ensure_workspace), and a worker held there still has its       *)
(* heartbeat, so nobody reaps its entry.                                   *)
(***************************************************************************)
Fairness ==
  /\ \A w \in Workers : /\ WF_vars(Pop(w))
                        /\ WF_vars(WorkerStep(w))
                        /\ WF_vars(Heartbeat(w))
                        /\ WF_vars(HeartbeatExpires(w))
  /\ \A g \in Gateways : /\ WF_vars(ReaperStep(g))
                         /\ \A w \in Workers : SF_vars(FindDeadList(g, w))
  /\ \A e \in Entries : WF_vars(ClaimExpires(e))
  /\ \A j \in Jobs : WF_vars(Enqueue(j)) /\ WF_vars(WriteState(j))

FairSpec == Spec /\ Fairness

-----------------------------------------------------------------------------
(* Safety under every fault *)

\* RequeueBound: a job is put back on the queue at most MAX_JOB_RETRIES times,
\* whichever replicas reap it, however their reaps overlap, and even when one
\* dies between its HINCRBY and its enqueue (reap_stranded_job).
RequeueBound == \A j \in Jobs : requeues[j] <= MaxJobRetries

\* The reaps that have counted a retry of the job and not yet acted on it, and
\* those of them that will enqueue it.
Counted(j) ==
  {g \in Gateways : rp[g].pc \in {"requeue", "handback"} /\ Stranded(g) = j}
Requeuing(j) == {g \in Gateways : rp[g].pc = "requeue" /\ Stranded(g) = j}

\* RetriesCounted: attempt_count covers every retry already on the queue and
\* every one a reap still holds, so no hand-back returns an attempt somebody
\* spent (reap_stranded_job's HINCRBY and its hand-back).
RetriesCounted ==
  \A j \in Jobs : requeues[j] + Cardinality(Counted(j)) <= state[j].count

\* RetriesPromised: of the retries reaps have been granted, spent and unspent,
\* there are never more than MAX_JOB_RETRIES (the decision taken from what
\* HINCRBY returned).
RetriesPromised ==
  \A j \in Jobs : requeues[j] + Cardinality(Requeuing(j)) <= MaxJobRetries

\* ClocksAccounted: a GPU clock started by a worker is billed at most once, by
\* the worker's finish() or by a reaper, never by both, and one still running
\* has not been billed (SHOWBACK_ACCRUE_LUA's HGET and HDEL).
ClocksAccounted ==
  \A j \in Jobs : bills[j] + (IF state[j].clock THEN 1 ELSE 0) <= starts[j]

\* QueueBound: neither submissions nor retries take the queue past
\* MAX_QUEUE_DEPTH, with every depth check a round trip old
\* (FAIR_ENQUEUE_LUA).
QueueBound == Cardinality(queue) <= MaxQueueDepth

\* EntryInOnePlace: an entry is on the queue, on one processing list or set
\* aside, never in two of these (BLMOVE, LMOVE, and an attempt number used
\* once).
EntryInOnePlace ==
  /\ queue \cap undeliverable = {}
  /\ \A w \in Workers :
       /\ proc[w] \cap (queue \cup undeliverable) = {}
       /\ \A v \in Workers \ {w} : proc[v] \cap proc[w] = {}

\* PhaseTruthful: once ComfyUI may have a job's workflow its breadcrumb says
\* executing, unless a gateway's late "queued" write or an unfenced start has
\* rewritten it (run_job, claim_executing).
PhaseTruthful ==
  \A j \in Jobs : handed[j] > 0 /\ j \notin late \cup stale
                    => state[j].phase = "executing"

\* SingleHandover: with one retry allowed, a workflow reaches ComfyUI twice only
\* through one of those two doors, whatever dies or lapses in between
\* (reap_stranded_job, CLAIM_EXECUTING_LUA).
SingleHandover ==
  \A j \in Jobs : handed[j] > 1 => j \in late \cup stale

\* WithdrawnNeverStarts: a job cancelled while it waited, in no worker's
\* hands, is never handed to ComfyUI (cancel, run_job's check before the
\* claim, cancel_orphaned_job).
WithdrawnNeverStarts ==
  [][\A j \in Jobs : j \in withdrawn => handed'[j] = handed[j]]_vars

-----------------------------------------------------------------------------
(* The abstract view of a job *)

Ledger == INSTANCE JobLedger WITH doubtful <- late \cup stale

\* KeepsLedger: whatever dies, lapses or overlaps, the workers and the reapers
\* together do for a job what JobLedger allows: one queue entry starts one
\* clock, and a retry is granted, or a workflow handed over again, only where
\* run_job's breadcrumb could not be trusted (run_job, requeue_orphaned_job,
\* CLAIM_EXECUTING_LUA, SHOWBACK_ACCRUE_LUA).  With more than one retry allowed
\* there is a third door: an entry reaped twice because a gateway died before
\* its mark.
KeepsLedger == Ledger!Spec

-----------------------------------------------------------------------------
(* Safety under restricted faults: each is checked in the runs whose faults *)
(* it survives                                                              *)

Ended(j) == \E i \in 1 .. Len(stream[j]) : stream[j][i] \in TerminalTypes

Submitted(j) == sub[j] \in {"enqueued", "accepted", "lost"}

Recorded(j) ==
  \/ \E e \in queue : e.job = j
  \/ \E w \in Workers : \E e \in proc[w] : e.job = j
  \/ \E e \in undeliverable : e.job = j

\* The entries ever set aside, those since pushed out of the list included.
Aside == undeliverable \cup trimmed

\* An entry of the job was set aside, and the cap of a full list dropped it.
PushedOut(j) ==
  /\ Cardinality(undeliverable) = ReapUndeliverableMax
  /\ \E e \in trimmed : e.job = j

InMemory(j) ==
  \/ InHand(j)
  \/ \E g \in Gateways : rp[g].entry # None /\ rp[g].entry.job = j

\* NoLostJob: a job without a terminal event is on the queue, parked on a
\* processing list or set aside for an operator, unless the cap of the
\* operator's list, full with other entries, pushed its entry out: no death, of
\* a worker or of a gateway, takes the last record of it
\* (reap_processing_list, defer_stranded_entry).
NoLostJob ==
  \A j \in Jobs : Submitted(j) /\ ~ Ended(j) => Recorded(j) \/ PushedOut(j)

\* NoVanishedJob: a job without a terminal event is recorded somewhere, or
\* some process still has it in hand to report (main, finish).
NoVanishedJob ==
  \A j \in Jobs : Submitted(j) /\ ~ Ended(j) => Recorded(j) \/ InMemory(j)

\* PayloadForQueued: the workflow an entry on the queue names is in Redis
\* (fair_enqueue_call, main's clean-up, fail_orphaned_job).
PayloadForQueued == \A e \in queue : e.job \in payload

\* ReapExclusive: two replicas are never inside the reap of one entry at once
\* (reap_processing_list's claim).
ReapExclusive ==
  \A g, h \in Gateways :
    g # h /\ rp[g].pc \in ReapPCs /\ rp[h].pc \in ReapPCs => Held(g) # Held(h)

-----------------------------------------------------------------------------
(* What the code's comments say and some interleaving contradicts *)

\* HandedOnce: only a job whose worker died before ComfyUI was handed the
\* workflow is retried, so ComfyUI is handed each workflow once
\* (reap_stranded_job, run_job).
HandedOnce == \A j \in Jobs : handed[j] <= 1

\* ReapedMeansAbandon: a worker whose entry was reaped before its claim does
\* not submit (run_job, CLAIM_EXECUTING_LUA).
ReapedMeansAbandon ==
  [][\A w \in Workers : wk[w].pc = "claim" /\ wk'[w].pc = "submit"
                           => wk[w].entry \notin fenced]_vars

\* ReapedOnce: while both replicas live, one entry is reaped by one of them,
\* once (reap_processing_list's claim).
ReapedOnce ==
  [][\A g \in Gateways : rp[g].pc = "fence" /\ rp'[g].pc = "decide"
                            => Held(g) \notin fenced]_vars

\* RetryCanStillRun: a gateway that dies between the enqueue of a retry and its
\* mark leaves no worse than a duplicate terminal event: the second reap of the
\* entry does not take the workflow of the retry that waits
\* (requeue_orphaned_job, fail_orphaned_job).
RetryCanStillRun == \A e \in queue : e.attempt > 0 => e.job \in payload

-----------------------------------------------------------------------------
(* Liveness *)

\* EventuallyReported: every job taken in reaches a terminal event, or the
\* list an operator reads (reap_orphaned_jobs, finish).
EventuallyReported ==
  \A j \in Jobs : Submitted(j) ~> (Ended(j) \/ \E e \in Aside : e.job = j)
==============================================================================
