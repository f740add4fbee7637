----------------------------- MODULE ReaperTask -----------------------------
(***************************************************************************)
(* The reaper task of one gateway replica: reap_orphaned_jobs(),           *)
(* reap_processing_list(), reap_stranded_job(), requeue_orphaned_job(),    *)
(* fail_orphaned_job(), cancel_orphaned_job() and defer_stranded_entry()   *)
(* of hub.py, one action per Redis command.                                *)
(***************************************************************************)
EXTENDS PoolState

Step(g, pc) == rp' = [rp EXCEPT ![g].pc = pc]

\* Give the entry up as terminal, with this outcome.
Decide(g, out) ==
  rp' = [rp EXCEPT ![g] = [@ EXCEPT !.pc = "bill", !.out = out]]

Rest(g) == rp' = [rp EXCEPT ![g] = IdleReaper]

\* The entry, the job and the list a reap is about.
Held(g) == rp[g].entry
Stranded(g) == rp[g].entry.job

reaperElse == <<alive, wk, sub, faults>>

-----------------------------------------------------------------------------
(* Finding an entry *)

\* SCAN comfy:processing:* then EXISTS comfy:worker:<incarnation>.  The list
\* is then worked through to its end without asking again.
FindDeadList(g, w) ==
  /\ rp[g].pc = "idle"
  /\ proc[w] # {}
  /\ w \notin alive
  /\ rp' = [rp EXCEPT ![g] = [IdleReaper EXCEPT !.pc = "list", !.list = w]]
  /\ UNCHANGED <<redisVars, reaperElse, history>>

\* Fault: RPOP, which takes the entry off the list before the reap.
PopTail(g) ==
  /\ rp[g].pc = "list"
  /\ \E e \in proc[rp[g].list] :
       /\ proc' = [proc EXCEPT ![rp[g].list] = @ \ {e}]
       /\ rp' = [rp EXCEPT ![g] = [@ EXCEPT !.pc = "claim", !.entry = e]]
  /\ UNCHANGED <<queue, payload, state, stream, claim, failures, undeliverable,
                 reaperElse, history>>

\* LINDEX key -1: the entry is read where it lies.
ReadTail(g) ==
  /\ rp[g].pc = "list"
  /\ \/ /\ proc[rp[g].list] = {}
        /\ Rest(g)
     \/ \E e \in proc[rp[g].list] :
          rp' = [rp EXCEPT ![g] = [@ EXCEPT !.pc = "claim", !.entry = e]]
  /\ UNCHANGED <<redisVars, reaperElse, history>>

\* Fault: SET without NX.
TakeClaimAnyway(g) ==
  /\ rp[g].pc = "claim"
  /\ claim' = [claim EXCEPT ![Held(g)] = g]
  /\ Step(g, "check")
  /\ UNCHANGED <<queue, payload, state, stream, proc, failures, undeliverable,
                 reaperElse, history>>

\* SET claim NX EX: losing it ends this list for this tick.
TakeClaim(g) ==
  /\ rp[g].pc = "claim"
  /\ \/ /\ claim[Held(g)] = None
        /\ claim' = [claim EXCEPT ![Held(g)] = g]
        /\ Step(g, "check")
     \/ /\ claim[Held(g)] # None
        /\ Rest(g)
        /\ UNCHANGED claim
  /\ UNCHANGED <<queue, payload, state, stream, proc, failures, undeliverable,
                 reaperElse, history>>

-----------------------------------------------------------------------------
(* reap_stranded_job(): fence, read, decide *)

\* Fault: no memory of what was requeued.
ForgetRequeued(g) ==
  /\ rp[g].pc = "check"
  /\ Step(g, "fence")
  /\ UNCHANGED <<redisVars, reaperElse, history>>

\* An entry already requeued has only its removal left to do.
CheckRequeued(g) ==
  /\ rp[g].pc = "check"
  /\ Step(g, IF state[Stranded(g)].requeuedFrom = Held(g)
               THEN "remove" ELSE "fence")
  /\ UNCHANGED <<redisVars, reaperElse, history>>

Fence(g) ==
  /\ rp[g].pc = "fence"
  /\ state' = [state EXCEPT ![Stranded(g)].owner = Reaped]
  /\ fenced' = fenced \cup {Held(g)}
  /\ Step(g, "decide")
  /\ UNCHANGED <<queue, payload, stream, proc, claim, failures, undeliverable,
                 reaperElse, handed, starts, bills, requeues, late, stale,
                 withdrawn, trimmed>>

\* HMGET phase, cancel_requested.  An absent phase is not a retryable one.
ReadPhase(g) ==
  /\ rp[g].pc = "decide"
  /\ LET s == state[Stranded(g)] IN
       \/ s.phase \notin RetryablePhases /\ Decide(g, "failed")
       \/ s.phase \in RetryablePhases /\ s.cancel /\ Decide(g, "cancelled")
       \/ s.phase \in RetryablePhases /\ ~ s.cancel /\ Step(g, "fetch")
  /\ UNCHANGED <<redisVars, reaperElse, history>>

FetchStranded(g) ==
  /\ rp[g].pc = "fetch"
  /\ IF Stranded(g) \in payload THEN Step(g, "depth") ELSE Decide(g, "failed")
  /\ UNCHANGED <<redisVars, reaperElse, history>>

\* Fault: an attempt is handed back that was never counted.
HandBackUncounted(g) ==
  /\ rp[g].pc = "depth"
  /\ Step(g, IF QueueFull THEN "handback" ELSE "count")
  /\ UNCHANGED <<redisVars, reaperElse, history>>

\* The early LLEN, so that a job refused on a full queue keeps its retry.
CheckDepth(g) ==
  /\ rp[g].pc = "depth"
  /\ IF QueueFull THEN Decide(g, "failed") ELSE Step(g, "count")
  /\ UNCHANGED <<redisVars, reaperElse, history>>

\* Fault: the decision is taken from a count that is not written back.
CountInMemory(g) ==
  /\ rp[g].pc = "count"
  /\ rp' = [rp EXCEPT ![g] =
               [@ EXCEPT !.attempt = state[Stranded(g)].count + 1,
                         !.pc = IF state[Stranded(g)].count >= MaxJobRetries
                                  THEN "handback" ELSE "requeue"]]
  /\ UNCHANGED <<redisVars, reaperElse, history>>

\* HINCRBY attempt_count 1, and the decision taken from what it returns.
CountRetry(g) ==
  /\ rp[g].pc = "count"
  /\ LET attempt == state[Stranded(g)].count + 1 IN
       /\ state' = [state EXCEPT ![Stranded(g)].count = attempt]
       /\ rp' = [rp EXCEPT ![g] =
                    [@ EXCEPT !.attempt = attempt,
                              !.pc = IF attempt > MaxJobRetries
                                       THEN "handback" ELSE "requeue"]]
  /\ UNCHANGED <<queue, payload, stream, proc, claim, failures, undeliverable,
                 reaperElse, history>>

\* HINCRBY attempt_count -1, by a reap that will not requeue after all.
HandBack(g) ==
  /\ rp[g].pc = "handback"
  /\ state' = [state EXCEPT ![Stranded(g)].count = @ - 1]
  /\ Decide(g, "failed")
  /\ UNCHANGED <<queue, payload, stream, proc, claim, failures, undeliverable,
                 reaperElse, history>>

-----------------------------------------------------------------------------
(* requeue_orphaned_job() *)

Requeue(g) ==
  /\ rp[g].pc = "requeue"
  /\ \/ /\ QueueFull
        /\ Step(g, "handback")
        /\ UNCHANGED <<queue, payload, requeues>>
     \/ /\ ~ QueueFull
        /\ FairEnqueue(Entry(Stranded(g), rp[g].attempt))
        /\ requeues' = [requeues EXCEPT ![Stranded(g)] = @ + 1]
        /\ Step(g, "mark")
  /\ UNCHANGED <<state, stream, proc, claim, failures, undeliverable,
                 reaperElse, handed, starts, bills, fenced, late, stale,
                 withdrawn, trimmed>>

\* The retry is on the queue already: a worker may have it by now.
MarkRequeued(g) ==
  /\ rp[g].pc = "mark"
  /\ HSet(Stranded(g), [state[Stranded(g)] EXCEPT !.status = "queued",
                                                  !.phase = "queued",
                                                  !.requeuedFrom = Held(g)])
  /\ NoteLateSeed(Stranded(g))
  /\ Step(g, "announce")
  /\ UNCHANGED <<queue, payload, stream, proc, claim, failures, undeliverable,
                 reaperElse, handed, starts, bills, requeues, fenced, stale,
                 withdrawn, trimmed>>

AnnounceRetry(g) ==
  /\ rp[g].pc = "announce"
  /\ stream' = [stream EXCEPT ![Stranded(g)] = Append(@, "retry")]
  /\ Step(g, "remove")
  /\ UNCHANGED <<queue, payload, state, proc, claim, failures, undeliverable,
                 reaperElse, history>>

-----------------------------------------------------------------------------
(* fail_orphaned_job() and cancel_orphaned_job() *)

BillExcluded(g) ==
  /\ rp[g].pc = "bill"
  /\ Accrue(Stranded(g))
  /\ Step(g, "status")
  /\ UNCHANGED <<queue, payload, stream, proc, claim, failures, undeliverable,
                 reaperElse, handed, starts, requeues, fenced, late, stale,
                 withdrawn, trimmed>>

WriteOrphanStatus(g) ==
  /\ rp[g].pc = "status"
  /\ state' = [state EXCEPT ![Stranded(g)].status = rp[g].out]
  /\ Step(g, "drop")
  /\ UNCHANGED <<queue, payload, stream, proc, claim, failures, undeliverable,
                 reaperElse, history>>

DropOrphanPayload(g) ==
  /\ rp[g].pc = "drop"
  /\ payload' = payload \ {Stranded(g)}
  /\ Step(g, "emit")
  /\ UNCHANGED <<queue, state, stream, proc, claim, failures, undeliverable,
                 reaperElse, history>>

EmitOrphanEnd(g) ==
  /\ rp[g].pc = "emit"
  /\ stream' = [stream EXCEPT ![Stranded(g)] = Append(@, rp[g].out)]
  /\ Step(g, "remove")
  /\ UNCHANGED <<queue, payload, state, proc, claim, failures, undeliverable,
                 reaperElse, history>>

-----------------------------------------------------------------------------
(* Letting the entry go *)

RemoveStranded(g) ==
  /\ rp[g].pc = "remove"
  /\ proc' = [proc EXCEPT ![rp[g].list] = @ \ {Held(g)}]
  /\ Step(g, "release")
  /\ UNCHANGED <<queue, payload, state, stream, claim, failures, undeliverable,
                 reaperElse, history>>

\* DEL claim, failures: whoever holds the claim by now.
ForgetClaim(g) ==
  /\ claim' = [claim EXCEPT ![Held(g)] = None]
  /\ failures' = [failures EXCEPT ![Held(g)] = 0]

Release(g) ==
  /\ rp[g].pc = "release"
  /\ ForgetClaim(g)
  /\ rp' = [rp EXCEPT ![g] = [IdleReaper EXCEPT !.pc = "list",
                                                !.list = rp[g].list]]
  /\ UNCHANGED <<queue, payload, state, stream, proc, undeliverable,
                 reaperElse, history>>

\* A Redis command raised.  In the reap or the removal the entry is deferred;
\* a lost accrual is swallowed; anywhere else the tick ends where it stands.
ReapBlip(g) ==
  /\ Fault("reapblip")
  /\ \/ /\ rp[g].pc \in ReapPCs \ {"bill", "release", "defer", "setaside"}
        /\ Step(g, "defer")
     \/ /\ rp[g].pc = "bill"
        /\ Step(g, "status")
     \/ /\ rp[g].pc \in {"list", "claim", "release", "defer", "setaside"}
        /\ Rest(g)
  /\ UNCHANGED <<redisVars, alive, wk, sub, history>>

\* defer_stranded_entry(): count the failure; below the cap release the claim
\* and leave the entry for the next tick, and likewise if it is not there.
Defer(g) ==
  /\ rp[g].pc = "defer"
  /\ LET failed == failures[Held(g)] + 1 IN
       /\ failures' = [failures EXCEPT ![Held(g)] = failed]
       /\ IF failed >= ReapMaxAttempts /\ Held(g) \in proc[rp[g].list]
            THEN /\ Step(g, "setaside")
                 /\ UNCHANGED claim
            ELSE /\ claim' = [claim EXCEPT ![Held(g)] = None]
                 /\ Rest(g)
  /\ UNCHANGED <<queue, payload, state, stream, proc, undeliverable,
                 reaperElse, history>>

\* Fault: LPUSH to the operator's list, and the entry stays where it was.
CopyAside(g) ==
  /\ rp[g].pc = "setaside"
  /\ undeliverable' = undeliverable \cup {Held(g)}
  /\ ForgetClaim(g)
  /\ Rest(g)
  /\ UNCHANGED <<queue, payload, state, stream, proc, reaperElse, history>>

\* LPUSH and LTRIM to REAP_UNDELIVERABLE_MAX: beyond the cap the oldest is pushed
\* out, and of a set any may be the oldest.
PutAside(e) ==
  IF Cardinality(undeliverable \cup {e}) <= ReapUndeliverableMax
    THEN undeliverable' = undeliverable \cup {e} /\ UNCHANGED trimmed
    ELSE \E oldest \in undeliverable \ {e} :
           /\ undeliverable' = (undeliverable \ {oldest}) \cup {e}
           /\ trimmed' = trimmed \cup {oldest}

\* LMOVE key undeliverable RIGHT LEFT moves the tail, whatever that is now:
\* the entry it was read as, unless that has gone.  The LTRIM and the DEL that
\* follow are one step with it.
SetAside(g) ==
  /\ rp[g].pc = "setaside"
  /\ LET tail == IF Held(g) \in proc[rp[g].list] THEN {Held(g)}
                                                 ELSE proc[rp[g].list] IN
       \/ /\ tail = {}
          /\ UNCHANGED <<proc, undeliverable, trimmed>>
       \/ \E e \in tail :
            /\ proc' = [proc EXCEPT ![rp[g].list] = @ \ {e}]
            /\ PutAside(e)
  /\ ForgetClaim(g)
  /\ Rest(g)
  /\ UNCHANGED <<queue, payload, state, stream, reaperElse, handed, starts,
                 bills, requeues, fenced, late, stale, withdrawn>>

-----------------------------------------------------------------------------
(* What a gateway does not choose *)

\* The replica dies; its successor starts a fresh tick.  A claim it held stays.
GatewayDies(g) ==
  /\ rp[g].pc # "idle"
  /\ Fault("gateway")
  /\ Rest(g)
  /\ UNCHANGED <<redisVars, alive, wk, sub, history>>

Reaping(g, e) == rp[g].pc \in ReapPCs /\ Held(g) = e

\* Fault: SET NX without EX, a claim that outlives its holder.
ClaimStays(e) == claim[e] # None /\ UNCHANGED vars

\* REAP_CLAIM_TTL runs out: on a claim nobody is working under, or on a reaper
\* stalled for a minute.
ClaimExpires(e) ==
  /\ claim[e] # None
  /\ IF Reaping(claim[e], e) THEN Fault("stall") ELSE UNCHANGED faults
  /\ claim' = [claim EXCEPT ![e] = None]
  /\ UNCHANGED <<queue, payload, state, stream, proc, alive, failures,
                 undeliverable, wk, rp, sub, history>>

\* Everything a reaper does of itself once it has found a list.
ReaperStep(g) ==
  \/ ReadTail(g) \/ TakeClaim(g) \/ CheckRequeued(g) \/ Fence(g)
  \/ ReadPhase(g) \/ FetchStranded(g) \/ CheckDepth(g) \/ CountRetry(g)
  \/ HandBack(g) \/ Requeue(g) \/ MarkRequeued(g) \/ AnnounceRetry(g)
  \/ BillExcluded(g) \/ WriteOrphanStatus(g) \/ DropOrphanPayload(g)
  \/ EmitOrphanEnd(g) \/ RemoveStranded(g) \/ Release(g)
  \/ Defer(g) \/ SetAside(g)
==============================================================================
