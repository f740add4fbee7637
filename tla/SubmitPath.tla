----------------------------- MODULE SubmitPath -----------------------------
(***************************************************************************)
(* generate() and cancel() of hub.py, from the point where a submission    *)
(* has passed validation and the quota check.                              *)
(***************************************************************************)
EXTENDS PoolState

submitElse == <<stream, proc, alive, claim, failures, undeliverable, wk, rp,
                handed, starts, bills, requeues, fenced, stale, trimmed>>

\* The job is on the queue before its state hash exists.
Enqueue(j) ==
  /\ sub[j] = "new"
  /\ \/ /\ QueueFull
        /\ sub' = [sub EXCEPT ![j] = "refused"]
        /\ UNCHANGED <<queue, payload>>
     \/ /\ ~ QueueFull
        /\ FairEnqueue(Entry(j, 0))
        /\ sub' = [sub EXCEPT ![j] = "enqueued"]
  /\ UNCHANGED <<state, faults, late, withdrawn, submitElse>>

WriteState(j) ==
  /\ sub[j] = "enqueued"
  /\ HSet(j, [state[j] EXCEPT !.status = "queued", !.phase = "queued"])
  /\ NoteLateSeed(j)
  /\ sub' = [sub EXCEPT ![j] = "accepted"]
  /\ UNCHANGED <<queue, payload, faults, withdrawn, submitElse>>

\* The gateway serving the request dies between its two writes.
SubmitDies(j) ==
  /\ sub[j] = "enqueued"
  /\ Fault("gateway")
  /\ sub' = [sub EXCEPT ![j] = "lost"]
  /\ UNCHANGED <<queue, payload, state, late, withdrawn, submitElse>>

\* Whether some worker process has the job in hand.
InHand(j) == \E w \in Workers : wk[w].entry # None /\ wk[w].entry.job = j

\* POST /api/jobs/<id>/cancel: 404 on a job with no state hash.
Cancel(j) ==
  /\ j \in Cancellable
  /\ state[j].status # None \/ state[j].owner # None
  /\ ~ state[j].cancel
  /\ state' = [state EXCEPT ![j].cancel = TRUE]
  /\ withdrawn' = IF ~ InHand(j) /\ \E e \in queue : e.job = j
                    THEN withdrawn \cup {j} ELSE withdrawn
  /\ UNCHANGED <<queue, payload, sub, faults, late, submitElse>>
==============================================================================
