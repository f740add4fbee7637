------------------------- MODULE PoolHandoverProofs -------------------------
(***************************************************************************)
(* Who has a job's entry and who may hand its workflow to ComfyUI: for any *)
(* number of jobs, workers and replicas and any faults, with at most one   *)
(* retry, an entry is in one place, the breadcrumb is right about every    *)
(* job but those it names as doubtful, a workflow is handed over once, and *)
(* the pool implements JobLedger.  Two more hold for any number of         *)
(* retries: a withdrawn job stays away from ComfyUI, and two reaps of one  *)
(* entry exclude each other as long as no reaper outlives its claim.       *)
(***************************************************************************)
EXTENDS JobPoolProofs

-----------------------------------------------------------------------------
(* Where an entry has been *)

\* Something still shows that the entry was once put on the queue.
Traced(e) ==
  \/ e \in queue \cup undeliverable \cup fenced
  \/ \E w \in Workers : e \in proc[w] \/ wk[w].entry = e
  \/ \E g \in Gateways : rp[g].entry = e

Untaken == {"new", "refused"}

\* The steps of a reap that has read the entry's fate under the fence.
FencedPCs == {"decide", "fetch", "depth", "count", "requeue"}
ArmedPCs == {"fetch", "depth", "count", "requeue"}

\* An entry comes from one submission or one retry, and a reap about to retry
\* was told an attempt of one or more.
Issued ==
  /\ \A e \in Entries : Traced(e) => /\ sub[e.job] \notin Untaken
                                     /\ e.attempt > 0 => requeues[e.job] > 0
  /\ \A g \in Gateways :
       /\ rp[g].pc = "requeue" => rp[g].attempt > 0
       /\ rp[g].pc \in FencedPCs => rp[g].entry \in fenced
  /\ \A j \in Jobs : requeues[j] > 0 => Entry(j, 0) \in fenced

\* One worker holds an entry, and the queue does not.
OneHolder ==
  \A w \in Workers : wk[w].entry # None =>
    /\ wk[w].entry \notin queue
    /\ \A v \in Workers \ {w} : wk[v].entry # wk[w].entry

-----------------------------------------------------------------------------
(* What is still owed to a job *)

\* The entries of the job whose clock nobody has started.
Tickets(j) ==
  {e \in Entries : /\ e.job = j
                   /\ \/ e \in queue
                      \/ \E w \in Workers : /\ wk[w].pc \in {"popped", "start"}
                                            /\ wk[w].entry = e}

\* The workers that have started a clock and not yet handed the job over.
Handing(j) ==
  {w \in Workers : /\ wk[w].pc \in {"prologue", "claim", "submit"}
                   /\ wk[w].entry # None
                   /\ wk[w].entry.job = j}

Taken(j) == IF sub[j] \in Untaken THEN 0 ELSE 1

Owed ==
  \A j \in Jobs :
    /\ starts[j] + Cardinality(Tickets(j)) <= requeues[j] + Taken(j)
    /\ handed[j] + Cardinality(Handing(j)) <= starts[j]
    /\ state[j].phase = "executing" => starts[j] > 0

\* A worker that has opened a job has seen an owner written.
Owned ==
  \A w \in Workers :
    wk[w].pc \in {"prologue", "claim"} => state[JobOf(w)].owner # None

-----------------------------------------------------------------------------
(* What the breadcrumb says of a job not in doubt *)

Doubtful == late \cup stale

\* The worker is at one of these steps of the job.
At(w, pcs, j) == wk[w].pc \in pcs /\ JobOf(w) = j

\* A workflow is handed over under the breadcrumb, by one worker, once.
HandedUnderPhase(j) ==
  /\ handed[j] <= 1
  /\ handed[j] > 0 => state[j].phase = "executing"
  /\ \A w \in Workers : At(w, {"submit"}, j) =>
       /\ state[j].phase = "executing"
       /\ handed[j] = 0
       /\ \A v \in Workers \ {w} : ~ At(v, {"submit"}, j)

\* Once the job executes, every other way to hand it over is shut: an entry
\* not started is fenced, another worker's claim fails, and while the job has
\* had no retry no reap is about to give it one.
Shut(j) ==
  state[j].phase = "executing" =>
    /\ Tickets(j) \subseteq fenced
    /\ \A w \in Workers :
         At(w, {"prologue", "claim"}, j) => state[j].owner # w
    /\ requeues[j] = 0 =>
         \A g \in Gateways : rp[g].pc \in ArmedPCs => Stranded(g) # j

\* A fence holds: until the retry the owner stays "reaped", and after it the
\* worker of the first entry does not own the job.
FenceHolds(j) ==
  /\ requeues[j] = 0 /\ (\E e \in fenced : e.job = j) => state[j].owner = Reaped
  /\ requeues[j] > 0 =>
       \A w \in Workers :
         wk[w].pc \in {"prologue", "claim"} /\ wk[w].entry = Entry(j, 0)
           => state[j].owner # w

Truthful ==
  \A j \in Jobs \ Doubtful : HandedUnderPhase(j) /\ Shut(j) /\ FenceHolds(j)

-----------------------------------------------------------------------------
(* Steps that move none of this *)

\* The worker holds what it held, or nothing, and its clock is not stopped.
CalmHolder(w) ==
  /\ wk'[w].entry \in {wk[w].entry, None}
  /\ wk'[w].pc \in {"popped", "start"} =>
       wk[w].pc \in {"popped", "start"} /\ wk'[w].entry = wk[w].entry

\* The worker has come no nearer to handing a job over.
CalmWorker(w) ==
  \A pcs \in {{"prologue", "claim"}, {"submit"}} :
    wk'[w].pc \in pcs => wk[w].pc \in pcs /\ wk'[w].entry = wk[w].entry

CalmReaper(g) ==
  /\ \A pcs \in {FencedPCs, ArmedPCs} :
       rp'[g].pc \in pcs => rp[g].pc \in pcs /\ rp'[g].entry = rp[g].entry
  /\ rp'[g].pc = "requeue" => rp'[g].attempt > 0

\* The breadcrumb says as much of the job as it did, or the job is in doubt.
CalmJob(j) ==
  /\ state'[j].owner = state[j].owner
  /\ state'[j].phase = "executing" => state[j].phase = "executing"
  /\ state[j].phase = "executing" => \/ state'[j].phase = "executing"
                                     \/ j \in Doubtful'
  /\ sub'[j] \in Untaken <=> sub[j] \in Untaken

Calm ==
  /\ UNCHANGED <<fenced, handed, starts, requeues>>
  /\ Doubtful \subseteq Doubtful'
  /\ \A e \in Entries : Traced(e)' => Traced(e)
  /\ \A j \in Jobs : Tickets(j)' \subseteq Tickets(j)
  /\ \A w \in Workers : CalmWorker(w)
  /\ \A g \in Gateways : CalmReaper(g)
  /\ \A j \in Jobs : CalmJob(j)

LEMMA EntriesFinite == IsFiniteSet(Entries)
<1> DEFINE pairs == Jobs \X (0 .. MaxJobRetries)
           parts == [e \in Entries |-> <<e.job, e.attempt>>]
<1>1. IsFiniteSet(pairs)
  <2>1. IsFiniteSet(0 .. MaxJobRetries)
    BY BoundsAssumption, FS_Interval
  <2> QED
    BY <2>1, SetsAssumption, FS_Product
<1>2. parts \in [Entries -> pairs]
  BY DEF Entries
<1>3. \A d, e \in Entries : parts[d] = parts[e] => d = e
  BY DEF Entries
<1>4. parts \in Injection(Entries, pairs)
  BY <1>2, <1>3 DEF Injection, IsInjective
<1> HIDE DEF pairs, parts
<1> QED
  BY <1>1, <1>4, FS_Injection

LEMMA OneMore ==
  ASSUME NEW S, NEW T, NEW x, IsFiniteSet(S), T \subseteq S \cup {x}
  PROVE  Cardinality(T) \in Nat /\ Cardinality(T) <= Cardinality(S) + 1
<1>1. Cardinality(S) \in Nat
  BY FS_CardinalityType
<1>2. /\ IsFiniteSet(S \cup {x})
      /\ Cardinality(S \cup {x}) =
           IF x \in S THEN Cardinality(S) ELSE Cardinality(S) + 1
  BY FS_AddElement
<1>3. IsFiniteSet(T) /\ Cardinality(T) <= Cardinality(S \cup {x})
  BY <1>2, FS_Subset
<1>4. Cardinality(T) \in Nat
  BY <1>3, FS_CardinalityType
<1> QED
  BY <1>1, <1>2, <1>3, <1>4

LEMMA OneLess ==
  ASSUME NEW S, NEW T, NEW x \in S, IsFiniteSet(S), T \subseteq S \ {x}
  PROVE  Cardinality(T) \in Nat /\ Cardinality(T) <= Cardinality(S) - 1
<1>1. Cardinality(S) \in Nat
  BY FS_CardinalityType
<1>2. IsFiniteSet(S \ {x}) /\ Cardinality(S \ {x}) = Cardinality(S) - 1
  BY FS_RemoveElement
<1>3. IsFiniteSet(T) /\ Cardinality(T) <= Cardinality(S \ {x})
  BY <1>2, FS_Subset
<1>4. Cardinality(T) \in Nat
  BY <1>3, FS_CardinalityType
<1> QED
  BY <1>1, <1>2, <1>3, <1>4

LEMMA TicketsFinite ==
  ASSUME NEW j \in Jobs
  PROVE  IsFiniteSet(Tickets(j)) /\ Cardinality(Tickets(j)) \in Nat
<1>1. Tickets(j) \subseteq Entries
  BY DEF Tickets
<1> QED
  BY <1>1, EntriesFinite, FS_Subset, FS_CardinalityType

LEMMA HandingFinite ==
  ASSUME NEW j \in Jobs
  PROVE  IsFiniteSet(Handing(j)) /\ Cardinality(Handing(j)) \in Nat
<1>1. Handing(j) \subseteq Workers
  BY DEF Handing
<1> QED
  BY <1>1, SetsAssumption, FS_Subset, FS_CardinalityType

LEMMA EntryIsItsParts ==
  /\ \A e \in Entries : /\ e = Entry(e.job, e.attempt)
                        /\ e.job \in Jobs
                        /\ e.attempt \in 0 .. MaxJobRetries
  /\ \A j \in Jobs, n \in 0 .. MaxJobRetries :
       Entry(j, n) \in Entries /\ Entry(j, n).job = j /\ Entry(j, n).attempt = n
BY DEF Entries, Entry

LEMMA CalmKeeps ==
  ASSUME TypeOK, Issued, Owed, Owned, Truthful, Calm, TypeOK'
  PROVE  Issued' /\ Owed' /\ Owned' /\ Truthful'
<1>1. Issued'
  <2>1. \A e \in Entries : Traced(e)' => /\ sub'[e.job] \notin Untaken
                                         /\ e.attempt > 0 => requeues'[e.job] > 0
    BY EntryIsItsParts DEF Calm, CalmJob, Issued
  <2>2. \A g \in Gateways :
           /\ rp'[g].pc = "requeue" => rp'[g].attempt > 0
           /\ rp'[g].pc \in FencedPCs => rp'[g].entry \in fenced'
    BY DEF Calm, CalmReaper, Issued
  <2>3. \A j \in Jobs : requeues'[j] > 0 => Entry(j, 0) \in fenced'
    BY DEF Calm, Issued
  <2> QED
    BY <2>1, <2>2, <2>3 DEF Issued
<1>3. Owed'
  <2> SUFFICES ASSUME NEW j \in Jobs
               PROVE  /\ starts'[j] + Cardinality(Tickets(j)') <= requeues'[j] + Taken(j)'
                      /\ handed'[j] + Cardinality(Handing(j)') <= starts'[j]
                      /\ state'[j].phase = "executing" => starts'[j] > 0
    BY DEF Owed
  <2>1. Tickets(j)' \subseteq Tickets(j)
    BY DEF Calm
  <2>2. Handing(j)' \subseteq Handing(j)
    BY DEF Handing, Calm, CalmWorker
  <2>3. /\ Cardinality(Tickets(j)') \in Nat
        /\ Cardinality(Tickets(j)') <= Cardinality(Tickets(j))
    BY <2>1, TicketsFinite, FS_Subset, FS_CardinalityType
  <2>4. /\ Cardinality(Handing(j)') \in Nat
        /\ Cardinality(Handing(j)') <= Cardinality(Handing(j))
    BY <2>2, HandingFinite, FS_Subset, FS_CardinalityType
  <2>5. Taken(j)' = Taken(j) /\ Taken(j) \in {0, 1}
    BY DEF Taken, Calm, CalmJob
  <2>6. /\ starts[j] + Cardinality(Tickets(j)) <= requeues[j] + Taken(j)
        /\ handed[j] + Cardinality(Handing(j)) <= starts[j]
        /\ state[j].phase = "executing" => starts[j] > 0
    BY DEF Owed
  <2>7. starts[j] \in Nat /\ handed[j] \in Nat /\ requeues[j] \in Nat
    BY DEF TypeOK, HistoryTypeOK
  <2>8. UNCHANGED <<handed, starts, requeues>>
    BY DEF Calm
  <2> QED
    BY <2>3, <2>4, <2>5, <2>6, <2>7, <2>8, TicketsFinite, HandingFinite
       DEF Calm, CalmJob
<1>4. Owned'
  <2> SUFFICES ASSUME NEW w \in Workers, wk'[w].pc \in {"prologue", "claim"}
               PROVE  state'[JobOf(w)'].owner # None
    BY DEF Owned
  <2>1. wk[w].pc \in {"prologue", "claim"} /\ wk'[w].entry = wk[w].entry
    BY DEF Calm, CalmWorker
  <2>2. JobOf(w) \in Jobs /\ JobOf(w)' = JobOf(w)
    BY <2>1, EntryIsItsParts DEF JobOf, TypeOK, WorkerTypeOK, WorkerShape, FreePCs
  <2> QED
    BY <2>1, <2>2 DEF Owned, Calm, CalmJob
<1>5. Truthful'
  <2> SUFFICES ASSUME NEW j \in Jobs, j \notin Doubtful'
               PROVE  (HandedUnderPhase(j) /\ Shut(j) /\ FenceHolds(j))'
    BY DEF Truthful
  <2>1. HandedUnderPhase(j) /\ Shut(j) /\ FenceHolds(j)
    BY DEF Truthful, Calm
  <2>2. /\ state'[j].owner = state[j].owner
        /\ state'[j].phase = "executing" <=> state[j].phase = "executing"
    BY DEF Calm, CalmJob
  <2>3. \A w \in Workers, pcs \in {{"prologue", "claim"}, {"submit"}} :
           At(w, pcs, j)' => At(w, pcs, j)
    BY DEF Calm, CalmWorker, At, JobOf
  <2>4. HandedUnderPhase(j)'
    BY <2>1, <2>2, <2>3 DEF HandedUnderPhase, Calm
  <2>5. Shut(j)'
    <3>1. Tickets(j)' \subseteq Tickets(j)
      BY DEF Calm
    <3>2. \A g \in Gateways : rp'[g].pc \in ArmedPCs /\ Stranded(g)' = j
                                => rp[g].pc \in ArmedPCs /\ Stranded(g) = j
      BY DEF Calm, CalmReaper, Stranded
    <3> QED
      BY <2>1, <2>2, <2>3, <3>1, <3>2 DEF Shut, Calm
  <2>6. FenceHolds(j)'
    BY <2>1, <2>2 DEF FenceHolds, Calm, CalmWorker
  <2> QED
    BY <2>4, <2>5, <2>6
<1> QED
  BY <1>1, <1>3, <1>4, <1>5

-----------------------------------------------------------------------------
(* Which steps of a worker are calm *)

\* Run under the fence, by a worker that still owns the job.
ClaimWon(w) == ClaimExecuting(w) /\ StillOurs(w)

LEMMA WorkerKeepsRest ==
  ASSUME NEW w \in Workers, WorkerStep(w) \/ WorkerChance(w)
  PROVE  /\ UNCHANGED <<queue, undeliverable, trimmed, fenced, requeues, rp, sub,
                        late>>
         /\ ~ StartJob(w) => UNCHANGED <<starts, stale>>
         /\ ~ SubmitPrompt(w) /\ ~ SubmitRaises(w) => UNCHANGED handed
BY DEF WorkerStep, FetchPayload, StartJob, PrologueRaises,
       CheckCancelled, ClaimExecuting, SubmitPrompt, SubmitRaises, PromptEnds,
       RunRaises, CheckOwner, BillSubmitter, WriteStatus, EmitTerminal,
       RemoveEntry, DropPayload, CrashOut, Deregister, workerElse, history,
       WorkerChance, Heartbeat, HeartbeatExpires, Die, Retire,
       HeartbeatLapses, WorkerBlip, redisVars

LEMMA WorkerProcShrinks ==
  ASSUME TypeOK, NEW w \in Workers, WorkerStep(w) \/ WorkerChance(w)
  PROVE  \A v \in Workers : proc'[v] \subseteq proc[v]
<1> USE DEF TypeOK, RedisTypeOK
<1>1. CASE RemoveEntry(w) \/ CrashOut(w)
  BY <1>1 DEF RemoveEntry, CrashOut
<1>2. CASE ~ RemoveEntry(w) /\ ~ CrashOut(w)
  <2>1. UNCHANGED proc
    BY <1>2 DEF WorkerStep, FetchPayload, StartJob, PrologueRaises,
       CheckCancelled, ClaimExecuting, SubmitPrompt, SubmitRaises, PromptEnds,
       RunRaises, CheckOwner, BillSubmitter, WriteStatus, EmitTerminal,
       DropPayload, Deregister, WorkerChance, Heartbeat, HeartbeatExpires, Die,
       Retire, HeartbeatLapses, WorkerBlip, redisVars
  <2> QED
    BY <2>1
<1> QED
  BY <1>1, <1>2

LEMMA WorkerBreadcrumb ==
  ASSUME TypeOK, NEW w \in Workers, WorkerStep(w) \/ WorkerChance(w),
         ~ StartJob(w), ~ ClaimWon(w)
  PROVE  \A j \in Jobs : /\ state'[j].owner = state[j].owner
                         /\ state'[j].phase = state[j].phase
<1>1. CASE BillSubmitter(w)
  BY <1>1 DEF BillSubmitter, Accrue, TypeOK, RedisTypeOK, JobStates
<1>2. CASE WriteStatus(w)
  BY <1>2 DEF WriteStatus, TypeOK, RedisTypeOK, JobStates
<1>3. CASE ~ BillSubmitter(w) /\ ~ WriteStatus(w)
  <2>1. UNCHANGED state
    BY <1>3 DEF ClaimWon, WorkerStep, FetchPayload, PrologueRaises,
       CheckCancelled, ClaimExecuting, SubmitPrompt, SubmitRaises, PromptEnds,
       RunRaises, CheckOwner, EmitTerminal, RemoveEntry, DropPayload, CrashOut,
       Deregister, WorkerChance, Heartbeat, HeartbeatExpires, Die, Retire,
       HeartbeatLapses, WorkerBlip, redisVars
  <2> QED
    BY <2>1
<1> QED
  BY <1>1, <1>2, <1>3

LEMMA OtherWorkersKept ==
  ASSUME TypeOK, NEW w \in Workers, WorkerStep(w) \/ WorkerChance(w)
  PROVE  \A v \in Workers \ {w} : wk'[v] = wk[v]
BY DEF TypeOK, WorkerTypeOK, Goto, Conclude, WorkerStep, FetchPayload, StartJob,
       PrologueRaises, CheckCancelled, ClaimExecuting, SubmitPrompt,
       SubmitRaises, PromptEnds, RunRaises, CheckOwner, BillSubmitter,
       WriteStatus, EmitTerminal, RemoveEntry, DropPayload, CrashOut,
       Deregister, WorkerChance, Heartbeat, HeartbeatExpires, Die, Retire,
       HeartbeatLapses, WorkerBlip

LEMMA WorkerMoves ==
  ASSUME TypeOK, NEW w \in Workers
  PROVE  /\ \A pc : Goto(w, pc) =>
              wk'[w].pc = pc /\ wk'[w].entry = wk[w].entry
         /\ \A out, final : Conclude(w, out, final) =>
              wk'[w].pc = "report" /\ wk'[w].entry = wk[w].entry
         /\ \A pc : wk' = [wk EXCEPT ![w] = [IdleWorker EXCEPT !.pc = pc]] =>
              wk'[w].pc = pc /\ wk'[w].entry = None
         /\ wk' = [wk EXCEPT ![w] = IdleWorker] =>
              wk'[w].pc = "idle" /\ wk'[w].entry = None
<1>1. wk \in [Workers -> WorkerLocals]
  BY DEF TypeOK, WorkerTypeOK
<1>2. ASSUME NEW pc, Goto(w, pc)
      PROVE  wk'[w].pc = pc /\ wk'[w].entry = wk[w].entry
  <2>1. wk'[w] = [wk[w] EXCEPT !.pc = pc]
    BY <1>1, <1>2 DEF Goto
  <2> QED
    BY <1>1, <2>1 DEF WorkerLocals
<1>3. ASSUME NEW out, NEW final, Conclude(w, out, final)
      PROVE  wk'[w].pc = "report" /\ wk'[w].entry = wk[w].entry
  <2>1. wk'[w] = [wk[w] EXCEPT !.pc = "report", !.out = out, !.final = final]
    BY <1>1, <1>3 DEF Conclude
  <2> QED
    BY <1>1, <2>1 DEF WorkerLocals
<1>4. ASSUME NEW pc, wk' = [wk EXCEPT ![w] = [IdleWorker EXCEPT !.pc = pc]]
      PROVE  wk'[w].pc = pc /\ wk'[w].entry = None
  BY <1>1, <1>4 DEF IdleWorker
<1>5. ASSUME wk' = [wk EXCEPT ![w] = IdleWorker]
      PROVE  wk'[w].pc = "idle" /\ wk'[w].entry = None
  BY <1>1, <1>5 DEF IdleWorker
<1> QED
  BY <1>2, <1>3, <1>4, <1>5

LEMMA WorkerIsCalm ==
  ASSUME TypeOK, NEW w \in Workers, WorkerStep(w) \/ WorkerChance(w)
  PROVE  \A v \in Workers :
           /\ CalmHolder(v)
           /\ ~ StartJob(w) /\ ~ ClaimWon(w) => CalmWorker(v)
<1> USE DEF CalmHolder
<1>1. \A v \in Workers \ {w} : CalmHolder(v) /\ CalmWorker(v)
  BY OtherWorkersKept DEF CalmWorker
<1> USE WorkerMoves
<1>2. CASE FetchPayload(w)
  <2>1. /\ wk[w].pc = "popped" /\ wk'[w].pc \in {"start", "report"}
        /\ wk'[w].entry = wk[w].entry
    <3>1. wk[w] \in WorkerLocals /\ w \in DOMAIN wk
      BY DEF TypeOK, WorkerTypeOK
    <3>2. CASE wk' = [wk EXCEPT ![w] = [@ EXCEPT !.pc = "start", !.known = TRUE]]
      <4>1. wk'[w] = [wk[w] EXCEPT !.pc = "start", !.known = TRUE]
        BY <3>1, <3>2
      <4> QED
        BY <1>2, <3>1, <4>1 DEF FetchPayload, WorkerLocals
    <3>3. CASE Conclude(w, "failed", TRUE)
      BY <1>2, <3>3 DEF FetchPayload
    <3> QED
      BY <1>2, <3>2, <3>3 DEF FetchPayload
  <2> QED
    BY <1>1, <2>1 DEF CalmWorker
<1>3. CASE CheckCancelled(w) \/ PrologueRaises(w)
  <2>1. /\ wk[w].pc = "prologue" /\ wk'[w].pc \in {"claim", "report"}
        /\ wk'[w].entry = wk[w].entry
    BY <1>3 DEF CheckCancelled, PrologueRaises
  <2> QED
    BY <1>1, <2>1 DEF CalmWorker
<1>4. CASE \/ SubmitPrompt(w) \/ SubmitRaises(w) \/ PromptEnds(w) \/ RunRaises(w)
           \/ CheckOwner(w) \/ BillSubmitter(w) \/ WriteStatus(w)
           \/ EmitTerminal(w)
  <2>1. /\ wk'[w].pc \in {"running", "report", "remove", "bill", "status", "emit"}
        /\ wk'[w].entry = wk[w].entry
    BY <1>4 DEF SubmitPrompt, SubmitRaises, PromptEnds, RunRaises, CheckOwner,
                BillSubmitter, WriteStatus, EmitTerminal
  <2> QED
    BY <1>1, <2>1 DEF CalmWorker
<1>5. CASE RemoveEntry(w) \/ DropPayload(w) \/ CrashOut(w) \/ Deregister(w)
           \/ Die(w) \/ Retire(w) \/ WorkerBlip(w)
  <2>1. /\ wk'[w].pc \in {"drop", "idle", "exit", "gone", "dead", "remove",
                          "report", "crash", "status"}
        /\ wk'[w].entry \in {wk[w].entry, None}
    <3>1. CASE RemoveEntry(w) \/ DropPayload(w) \/ CrashOut(w) \/ Deregister(w)
      BY <3>1 DEF RemoveEntry, DropPayload, CrashOut, Deregister
    <3>2. CASE Die(w) \/ Retire(w) \/ WorkerBlip(w)
      BY <3>2 DEF Die, Retire, WorkerBlip
    <3> QED
      BY <1>5, <3>1, <3>2
  <2> QED
    BY <1>1, <2>1 DEF CalmWorker
<1>6. CASE Heartbeat(w) \/ HeartbeatExpires(w) \/ HeartbeatLapses(w)
  BY <1>1, <1>6 DEF Heartbeat, HeartbeatExpires, HeartbeatLapses, CalmWorker
<1>7. CASE StartJob(w)
  BY <1>1, <1>7 DEF StartJob
<1>8. CASE ClaimExecuting(w)
  <2>1. /\ wk[w].pc = "claim" /\ wk'[w].entry = wk[w].entry
        /\ wk'[w].pc = IF StillOurs(w) THEN "submit" ELSE "remove"
    BY <1>8 DEF ClaimExecuting
  <2> QED
    BY <1>1, <1>8, <2>1 DEF ClaimWon, CalmWorker
<1> QED
  BY <1>2, <1>3, <1>4, <1>5, <1>6, <1>7, <1>8 DEF WorkerStep, WorkerChance

LEMMA WorkerCalm ==
  ASSUME TypeOK, TypeOK', Issued, NEW w \in Workers,
         WorkerStep(w) \/ WorkerChance(w), ~ StartJob(w), ~ ClaimWon(w),
         ~ SubmitPrompt(w), ~ SubmitRaises(w)
  PROVE  Calm
<1>1. UNCHANGED <<queue, undeliverable, fenced, handed, starts, requeues, rp,
                  sub, late, stale>>
  BY WorkerKeepsRest
<1>2. \A v \in Workers : proc'[v] \subseteq proc[v]
  BY WorkerProcShrinks
<1>3. \A v \in Workers : CalmHolder(v) /\ CalmWorker(v)
  BY WorkerIsCalm
<1>4. \A e \in Entries : Traced(e)' => Traced(e)
  BY <1>1, <1>2, <1>3, NoneAssumption DEF Traced, CalmHolder
<1>7. \A j \in Jobs : Tickets(j)' \subseteq Tickets(j)
  BY <1>1, <1>3 DEF Tickets, CalmHolder
<1>5. \A g \in Gateways : CalmReaper(g)
  BY <1>1 DEF CalmReaper, Issued
<1>6. \A j \in Jobs : CalmJob(j)
  BY <1>1, WorkerBreadcrumb DEF CalmJob
<1> QED
  BY <1>1, <1>3, <1>4, <1>5, <1>6, <1>7 DEF Calm, Doubtful

-----------------------------------------------------------------------------
(* Which steps of a reaper are calm *)

LEMMA ReaperKeepsRest ==
  ASSUME NEW g \in Gateways, ReaperStep(g) \/ ReaperChance(g)
  PROVE  /\ UNCHANGED <<wk, sub, handed, starts, stale>>
         /\ ~ Requeue(g) => UNCHANGED <<queue, requeues>>
         /\ ~ Fence(g) => UNCHANGED fenced
         /\ ~ MarkRequeued(g) => UNCHANGED late
         /\ ~ SetAside(g) => UNCHANGED <<undeliverable, trimmed>>
BY DEF ReaperStep, ReadTail, TakeClaim, CheckRequeued, Fence, ReadPhase,
       FetchStranded, CheckDepth, CountRetry, HandBack, Requeue, MarkRequeued,
       AnnounceRetry, BillExcluded, WriteOrphanStatus, DropOrphanPayload,
       EmitOrphanEnd, RemoveStranded, Release, Defer, SetAside, reaperElse,
       history, redisVars, ReaperChance, FindDeadList, GatewayDies, ReapBlip,
       ClaimExpires

LEMMA ReaperProcShrinks ==
  ASSUME TypeOK, NEW g \in Gateways, ReaperStep(g) \/ ReaperChance(g)
  PROVE  \A v \in Workers : proc'[v] \subseteq proc[v]
<1> USE DEF TypeOK, RedisTypeOK
<1>1. CASE RemoveStranded(g)
  BY <1>1 DEF RemoveStranded
<1>2. CASE SetAside(g)
  BY <1>2, SetAsideSets
<1>3. CASE ~ RemoveStranded(g) /\ ~ SetAside(g)
  <2>1. UNCHANGED proc
    BY <1>3 DEF ReaperStep, ReadTail, TakeClaim, CheckRequeued, Fence,
       ReadPhase, FetchStranded, CheckDepth, CountRetry, HandBack, Requeue,
       MarkRequeued, AnnounceRetry, BillExcluded, WriteOrphanStatus,
       DropOrphanPayload, EmitOrphanEnd, Release, Defer, redisVars,
       ReaperChance, FindDeadList, GatewayDies, ReapBlip, ClaimExpires
  <2> QED
    BY <2>1
<1> QED
  BY <1>1, <1>2, <1>3

LEMMA ReaperBreadcrumb ==
  ASSUME TypeOK, NEW g \in Gateways, ReaperStep(g) \/ ReaperChance(g),
         ~ Fence(g), ~ MarkRequeued(g)
  PROVE  \A j \in Jobs : /\ state'[j].owner = state[j].owner
                         /\ state'[j].phase = state[j].phase
<1> USE DEF TypeOK, RedisTypeOK, JobStates
<1>1. CASE CountRetry(g)
  BY <1>1 DEF CountRetry
<1>2. CASE HandBack(g)
  BY <1>2 DEF HandBack
<1>3. CASE BillExcluded(g)
  BY <1>3 DEF BillExcluded, Accrue
<1>4. CASE WriteOrphanStatus(g)
  BY <1>4 DEF WriteOrphanStatus
<1>5. CASE ~ CountRetry(g) /\ ~ HandBack(g) /\ ~ BillExcluded(g)
           /\ ~ WriteOrphanStatus(g)
  <2>1. UNCHANGED state
    BY <1>5 DEF ReaperStep, ReadTail, TakeClaim, CheckRequeued, ReadPhase,
       FetchStranded, CheckDepth, Requeue, AnnounceRetry, DropOrphanPayload,
       EmitOrphanEnd, RemoveStranded, Release, Defer, SetAside, redisVars,
       ReaperChance, FindDeadList, GatewayDies, ReapBlip, ClaimExpires
  <2> QED
    BY <2>1
<1> QED
  BY <1>1, <1>2, <1>3, <1>4, <1>5

LEMMA MarkBreadcrumb ==
  ASSUME TypeOK, NEW g \in Gateways, MarkRequeued(g)
  PROVE  /\ \A j \in Jobs : state'[j].owner = state[j].owner
         /\ \A j \in Jobs \ {Stranded(g)} : state'[j].phase = state[j].phase
         /\ state'[Stranded(g)].phase = "queued"
         /\ late \subseteq late'
         /\ state[Stranded(g)].phase = "executing" => Stranded(g) \in late'
<1>1. Stranded(g) \in Jobs
  BY EntryIsItsParts
     DEF MarkRequeued, TypeOK, ReaperTypeOK, ReaperShape, Stranded
<1> QED
  BY <1>1 DEF MarkRequeued, HSet, NoteLateSeed, TypeOK, RedisTypeOK, JobStates

LEMMA ReaperMoves ==
  ASSUME TypeOK, NEW g \in Gateways
  PROVE  /\ \A pc : Step(g, pc) => /\ rp'[g].pc = pc
                                   /\ rp'[g].entry = rp[g].entry
                                   /\ rp'[g].attempt = rp[g].attempt
         /\ \A out : Decide(g, out) => /\ rp'[g].pc = "bill"
                                       /\ rp'[g].entry = rp[g].entry
         /\ Rest(g) => rp'[g].pc = "idle" /\ rp'[g].entry = None
<1>1. rp \in [Gateways -> ReaperLocals]
  BY DEF TypeOK, ReaperTypeOK
<1>2. ASSUME NEW pc, Step(g, pc)
      PROVE  /\ rp'[g].pc = pc
             /\ rp'[g].entry = rp[g].entry
             /\ rp'[g].attempt = rp[g].attempt
  <2>1. rp'[g] = [rp[g] EXCEPT !.pc = pc]
    BY <1>1, <1>2 DEF Step
  <2> QED
    BY <1>1, <2>1 DEF ReaperLocals
<1>3. ASSUME NEW out, Decide(g, out)
      PROVE  rp'[g].pc = "bill" /\ rp'[g].entry = rp[g].entry
  <2>1. rp'[g] = [rp[g] EXCEPT !.pc = "bill", !.out = out]
    BY <1>1, <1>3 DEF Decide
  <2> QED
    BY <1>1, <2>1 DEF ReaperLocals
<1>4. ASSUME Rest(g)
      PROVE  rp'[g].pc = "idle" /\ rp'[g].entry = None
  BY <1>1, <1>4 DEF Rest, IdleReaper
<1> QED
  BY <1>2, <1>3, <1>4

LEMMA OtherReapersKept ==
  ASSUME TypeOK, NEW g \in Gateways, ReaperStep(g) \/ ReaperChance(g)
  PROVE  \A h \in Gateways \ {g} : rp'[h] = rp[h]
BY DEF TypeOK, ReaperTypeOK, Step, Decide, Rest, ReaperStep, ReadTail,
       TakeClaim, CheckRequeued, Fence, ReadPhase, FetchStranded, CheckDepth,
       CountRetry, HandBack, Requeue, MarkRequeued, AnnounceRetry,
       BillExcluded, WriteOrphanStatus, DropOrphanPayload, EmitOrphanEnd,
       RemoveStranded, Release, Defer, SetAside, ReaperChance, FindDeadList,
       GatewayDies, ReapBlip, ClaimExpires

LEMMA CountMoves ==
  ASSUME TypeOK, NEW g \in Gateways, CountRetry(g)
  PROVE  /\ rp[g].pc = "count" /\ rp'[g].pc \in {"requeue", "handback"}
         /\ rp'[g].entry = rp[g].entry
         /\ rp'[g].attempt > 0
<1> DEFINE attempt == state[Stranded(g)].count + 1
           pc == IF attempt > MaxJobRetries THEN "handback" ELSE "requeue"
<1>1. rp \in [Gateways -> ReaperLocals]
  BY DEF TypeOK, ReaperTypeOK
<1>2. rp[g].pc = "count" /\ rp' = [rp EXCEPT ![g] = [@ EXCEPT !.attempt = attempt,
                                                          !.pc = pc]]
  BY DEF CountRetry
<1>3. Stranded(g) \in Jobs
  BY <1>2, EntryIsItsParts DEF TypeOK, ReaperTypeOK, ReaperShape, Stranded
<1>4. state[Stranded(g)].count \in Nat
  BY <1>3 DEF TypeOK, RedisTypeOK, JobStates
<1>5. attempt > 0 /\ pc \in {"requeue", "handback"}
  BY <1>4
<1> HIDE DEF attempt, pc
<1>6. rp'[g] = [rp[g] EXCEPT !.attempt = attempt, !.pc = pc]
  BY <1>1, <1>2
<1>7. rp'[g].attempt = attempt /\ rp'[g].pc = pc /\ rp'[g].entry = rp[g].entry
  BY <1>1, <1>6 DEF ReaperLocals
<1> QED
  BY <1>2, <1>5, <1>7

LEMMA FindMoves ==
  ASSUME TypeOK, NEW g \in Gateways,
         ReadTail(g) \/ Release(g) \/ \E w \in Workers : FindDeadList(g, w)
  PROVE  /\ rp'[g].pc \in {"idle", "list", "claim"}
         /\ \/ rp'[g].entry = None
            \/ \E w \in Workers : rp'[g].entry \in proc[w]
<1>1. rp \in [Gateways -> ReaperLocals]
  BY DEF TypeOK, ReaperTypeOK
<1>2. ASSUME NEW pc, NEW list,
             rp' = [rp EXCEPT ![g] = [IdleReaper EXCEPT !.pc = pc, !.list = list]]
      PROVE  rp'[g].pc = pc /\ rp'[g].entry = None
  <2>1. rp'[g] = [IdleReaper EXCEPT !.pc = pc, !.list = list]
    BY <1>1, <1>2
  <2> QED
    BY <2>1 DEF IdleReaper
<1>3. ASSUME rp[g].pc = "list", NEW e \in proc[rp[g].list],
             rp' = [rp EXCEPT ![g] = [@ EXCEPT !.pc = "claim", !.entry = e]]
      PROVE  rp'[g].pc = "claim" /\ rp'[g].entry = e /\ rp[g].list \in Workers
  <2>1. rp'[g] = [rp[g] EXCEPT !.pc = "claim", !.entry = e]
    BY <1>1, <1>3
  <2>2. rp'[g].pc = "claim" /\ rp'[g].entry = e
    BY <1>1, <2>1 DEF ReaperLocals
  <2>3. rp[g].list \in Workers
    BY <1>3 DEF TypeOK, ReaperTypeOK, ReaperShape
  <2> QED
    BY <2>2, <2>3
<1>4. CASE ReadTail(g)
  BY <1>3, <1>4, ReaperMoves DEF ReadTail
<1>5. CASE Release(g)
  BY <1>2, <1>5 DEF Release
<1>6. CASE \E w \in Workers : FindDeadList(g, w)
  BY <1>2, <1>6 DEF FindDeadList
<1> QED
  BY <1>4, <1>5, <1>6

LEMMA ReaperIsCalm ==
  ASSUME TypeOK, Issued, NEW g \in Gateways, ReaperStep(g) \/ ReaperChance(g),
         ~ Fence(g), ~ ReadPhase(g)
  PROVE  \A h \in Gateways : CalmReaper(h)
<1>1. \A h \in Gateways \ {g} : CalmReaper(h)
  BY OtherReapersKept DEF CalmReaper, Issued
<1> USE ReaperMoves
<1>2. CASE FetchStranded(g) \/ CheckDepth(g) \/ CountRetry(g)
  <2>1. \/ rp[g].pc \in {"fetch", "depth", "count"} /\ rp'[g].entry = rp[g].entry
           /\ \/ rp'[g].pc \in {"depth", "count", "handback"}
              \/ rp'[g].pc = "requeue" /\ rp'[g].attempt > 0
        \/ rp'[g].pc = "bill"
    BY <1>2, CountMoves DEF FetchStranded, CheckDepth
  <2>2. CalmReaper(g)
    BY <2>1 DEF CalmReaper, FencedPCs, ArmedPCs
  <2> QED
    BY <1>1, <2>2
<1>3. CASE \/ TakeClaim(g) \/ CheckRequeued(g) \/ HandBack(g) \/ Requeue(g)
           \/ MarkRequeued(g) \/ AnnounceRetry(g) \/ BillExcluded(g)
           \/ WriteOrphanStatus(g) \/ DropOrphanPayload(g) \/ EmitOrphanEnd(g)
           \/ RemoveStranded(g) \/ Defer(g) \/ SetAside(g) \/ GatewayDies(g)
           \/ ReapBlip(g)
  <2>1. rp'[g].pc \notin FencedPCs \cup ArmedPCs
    BY <1>3 DEF TakeClaim, CheckRequeued, HandBack, Requeue, MarkRequeued,
                AnnounceRetry, BillExcluded, WriteOrphanStatus,
                DropOrphanPayload, EmitOrphanEnd, RemoveStranded, Defer,
                SetAside, GatewayDies, ReapBlip, FencedPCs, ArmedPCs
  <2>2. CalmReaper(g)
    BY <2>1 DEF CalmReaper, FencedPCs
  <2> QED
    BY <1>1, <2>2
<1>4. CASE ReadTail(g) \/ Release(g) \/ \E w \in Workers : FindDeadList(g, w)
  <2>1. rp'[g].pc \in {"idle", "list", "claim"}
    BY <1>4, FindMoves
  <2>2. CalmReaper(g)
    BY <2>1 DEF CalmReaper, FencedPCs, ArmedPCs
  <2> QED
    BY <1>1, <2>2
<1>5. CASE \E e \in Entries : ClaimExpires(e)
  BY <1>1, <1>5 DEF ClaimExpires, CalmReaper, Issued
<1> QED
  BY <1>2, <1>3, <1>4, <1>5 DEF ReaperStep, ReaperChance

\* A reaper holds what it held, nothing, or what it has just read off a list.
LEMMA ReaperEntries ==
  ASSUME TypeOK, NEW g \in Gateways, ReaperStep(g) \/ ReaperChance(g)
  PROVE  \A h \in Gateways :
           \/ rp'[h].entry \in {rp[h].entry, None}
           \/ \E w \in Workers : rp'[h].entry \in proc[w]
<1> USE ReaperMoves, OtherReapersKept
<1>1. CASE ReadTail(g) \/ Release(g) \/ \E w \in Workers : FindDeadList(g, w)
  BY <1>1, FindMoves
<1>2. CASE \/ TakeClaim(g) \/ CheckRequeued(g) \/ Fence(g) \/ ReadPhase(g)
           \/ FetchStranded(g) \/ CheckDepth(g) \/ HandBack(g) \/ Requeue(g)
           \/ MarkRequeued(g)
  BY <1>2 DEF TakeClaim, CheckRequeued, Fence, ReadPhase, FetchStranded,
              CheckDepth, HandBack, Requeue, MarkRequeued
<1>3. CASE \/ AnnounceRetry(g) \/ BillExcluded(g) \/ WriteOrphanStatus(g)
           \/ DropOrphanPayload(g) \/ EmitOrphanEnd(g) \/ RemoveStranded(g)
           \/ Defer(g) \/ SetAside(g) \/ GatewayDies(g) \/ ReapBlip(g)
  BY <1>3 DEF AnnounceRetry, BillExcluded, WriteOrphanStatus,
              DropOrphanPayload, EmitOrphanEnd, RemoveStranded, Defer,
              SetAside, GatewayDies, ReapBlip
<1>4. CASE CountRetry(g)
  BY <1>4, CountMoves
<1>5. CASE \E e \in Entries : ClaimExpires(e)
  BY <1>5 DEF ClaimExpires
<1> QED
  BY <1>1, <1>2, <1>3, <1>4, <1>5 DEF ReaperStep, ReaperChance

LEMMA SetAsideKeepsTraced ==
  ASSUME TypeOK, NEW g \in Gateways, SetAside(g)
  PROVE  \A e \in undeliverable' : \/ e \in undeliverable
                                   \/ \E w \in Workers : e \in proc[w]
<1>1. rp[g].list \in Workers
  BY DEF SetAside, TypeOK, ReaperTypeOK, ReaperShape
<1> QED
  BY <1>1, SetAsideSets, PutAsideSets

LEMMA QueueKept ==
  ASSUME NEW g \in Gateways, ReaperStep(g) \/ ReaperChance(g),
         Requeue(g) => QueueFull
  PROVE  UNCHANGED <<queue, requeues>>
BY ReaperKeepsRest DEF Requeue

LEMMA ReaperTraced ==
  ASSUME TypeOK, NEW g \in Gateways, ReaperStep(g) \/ ReaperChance(g),
         Requeue(g) => QueueFull
  PROVE  \A e \in Entries : Traced(e)' => Traced(e)
<1> SUFFICES ASSUME NEW e \in Entries, Traced(e)' PROVE Traced(e)
  OBVIOUS
<1>1. UNCHANGED <<wk, queue>>
  BY ReaperKeepsRest, QueueKept
<1>2. \A v \in Workers : proc'[v] \subseteq proc[v]
  BY ReaperProcShrinks
<1>3. ASSUME e \in undeliverable' PROVE Traced(e)
  BY <1>3, SetAsideKeepsTraced, ReaperKeepsRest DEF Traced
<1>4. ASSUME e \in fenced' PROVE Traced(e)
  BY <1>4, ReaperKeepsRest DEF Traced, Fence, Held
<1>5. ASSUME NEW h \in Gateways, rp'[h].entry = e PROVE Traced(e)
  BY <1>5, ReaperEntries, NoneAssumption DEF Traced
<1> QED
  BY <1>1, <1>2, <1>3, <1>4, <1>5 DEF Traced

LEMMA ReaperCalm ==
  ASSUME TypeOK, TypeOK', Issued, NEW g \in Gateways,
         ReaperStep(g) \/ ReaperChance(g),
         ~ Fence(g), ~ ReadPhase(g), Requeue(g) => QueueFull
  PROVE  Calm
<1>1. UNCHANGED <<queue, fenced, handed, starts, requeues, wk, sub, stale>>
  BY ReaperKeepsRest, QueueKept
<1>2. \A e \in Entries : Traced(e)' => Traced(e)
  BY ReaperTraced
<1>3. \A h \in Gateways : CalmReaper(h)
  BY ReaperIsCalm
<1>4. \A w \in Workers : CalmWorker(w)
  BY <1>1 DEF CalmWorker
<1>5. late \subseteq late' /\ \A j \in Jobs : CalmJob(j)
  <2>1. CASE MarkRequeued(g)
    BY <1>1, <2>1, MarkBreadcrumb DEF CalmJob, Doubtful
  <2>2. CASE ~ MarkRequeued(g)
    BY <1>1, <2>2, ReaperBreadcrumb, ReaperKeepsRest DEF CalmJob
  <2> QED
    BY <2>1, <2>2
<1>6. \A i \in Jobs : Tickets(i)' \subseteq Tickets(i)
  BY <1>1 DEF Tickets
<1> QED
  BY <1>1, <1>2, <1>3, <1>4, <1>5, <1>6 DEF Calm, Doubtful

-----------------------------------------------------------------------------
(* Which steps of a submission are calm *)

LEMMA SubmitCalm ==
  ASSUME TypeOK, TypeOK', Issued, NEW j \in Jobs, SubmitStep(j),
         Enqueue(j) => QueueFull
  PROVE  Calm
<1>1. UNCHANGED <<queue, fenced, handed, starts, requeues, wk, rp, stale,
                  proc, undeliverable>>
  BY DEF SubmitStep, Enqueue, WriteState, SubmitDies, Cancel, submitElse
<1>2. \A e \in Entries : Traced(e)' => Traced(e)
  BY <1>1 DEF Traced
<1>3. \A g \in Gateways : CalmReaper(g)
  BY <1>1 DEF CalmReaper, Issued
<1>4. \A w \in Workers : CalmWorker(w)
  BY <1>1 DEF CalmWorker
<1>5. late \subseteq late' /\ \A i \in Jobs : CalmJob(i)
  <2>1. CASE Enqueue(j) \/ SubmitDies(j)
    <3>1. UNCHANGED <<state, late>>
      BY <2>1 DEF Enqueue, SubmitDies, submitElse
    <3>2. \A i \in Jobs : sub'[i] \in Untaken <=> sub[i] \in Untaken
      BY <2>1 DEF Enqueue, SubmitDies, Untaken, TypeOK, HistoryTypeOK
    <3> QED
      BY <3>1, <3>2 DEF CalmJob
  <2>2. CASE WriteState(j)
    <3>1. \A i \in Jobs : sub'[i] \in Untaken <=> sub[i] \in Untaken
      BY <2>2 DEF WriteState, Untaken, TypeOK, HistoryTypeOK
    <3>2. /\ \A i \in Jobs : state'[i].owner = state[i].owner
          /\ \A i \in Jobs \ {j} : state'[i].phase = state[i].phase
          /\ state'[j].phase = "queued"
      BY <2>2 DEF WriteState, HSet, TypeOK, RedisTypeOK, JobStates
    <3>3. late' = IF state[j].phase = "executing" THEN late \cup {j} ELSE late
      BY <2>2 DEF WriteState, NoteLateSeed
    <3> QED
      BY <3>1, <3>2, <3>3 DEF CalmJob, Doubtful
  <2>3. CASE Cancel(j)
    <3>1. UNCHANGED <<sub, late>>
      BY <2>3 DEF Cancel, submitElse
    <3>2. \A i \in Jobs : /\ state'[i].owner = state[i].owner
                          /\ state'[i].phase = state[i].phase
      BY <2>3 DEF Cancel, TypeOK, RedisTypeOK, JobStates
    <3> QED
      BY <3>1, <3>2 DEF CalmJob
  <2> QED
    BY <2>1, <2>2, <2>3 DEF SubmitStep
<1>6. \A i \in Jobs : Tickets(i)' \subseteq Tickets(i)
  BY <1>1 DEF Tickets
<1> QED
  BY <1>1, <1>2, <1>3, <1>4, <1>5, <1>6 DEF Calm, Doubtful

-----------------------------------------------------------------------------
(* The steps that take, start and hand over a job *)

HRest == Issued /\ Owed /\ Owned /\ Truthful

LEMMA PopMoves ==
  ASSUME TypeOK, NEW w \in Workers, Pop(w)
  PROVE  \E e \in queue :
           /\ queue' = queue \ {e}
           /\ wk'[w].pc = "popped" /\ wk'[w].entry = e
           /\ wk[w].pc = "idle"
           /\ \A v \in Workers \ {w} : wk'[v] = wk[v]
           /\ proc'[w] = proc[w] \cup {e}
           /\ \A v \in Workers \ {w} : proc'[v] = proc[v]
<1>1. PICK e \in queue :
        /\ queue' = queue \ {e}
        /\ proc' = [proc EXCEPT ![w] = @ \cup {e}]
        /\ wk' = [wk EXCEPT ![w] = [IdleWorker EXCEPT !.pc = "popped",
                                                      !.entry = e]]
  BY DEF Pop
<1>2. wk'[w] = [IdleWorker EXCEPT !.pc = "popped", !.entry = e]
  BY <1>1 DEF TypeOK, WorkerTypeOK
<1>3. wk'[w].pc = "popped" /\ wk'[w].entry = e
  BY <1>2 DEF IdleWorker
<1>4. \A v \in Workers \ {w} : wk'[v] = wk[v]
  BY <1>1 DEF TypeOK, WorkerTypeOK
<1>5. /\ proc'[w] = proc[w] \cup {e}
      /\ \A v \in Workers \ {w} : proc'[v] = proc[v]
  BY <1>1 DEF TypeOK, RedisTypeOK
<1> QED
  BY <1>1, <1>3, <1>4, <1>5 DEF Pop

LEMMA PopCalm ==
  ASSUME TypeOK, TypeOK', Issued, NEW w \in Workers, Pop(w)
  PROVE  Calm
<1>1. UNCHANGED <<fenced, handed, starts, requeues, undeliverable, rp, sub,
                  late, stale, state>>
  BY DEF Pop, workerElse, history
<1>2. PICK e \in queue :
           /\ queue' = queue \ {e}
           /\ wk'[w].pc = "popped" /\ wk'[w].entry = e
           /\ wk[w].pc = "idle"
           /\ \A v \in Workers \ {w} : wk'[v] = wk[v]
           /\ proc'[w] = proc[w] \cup {e}
           /\ \A v \in Workers \ {w} : proc'[v] = proc[v]
  BY PopMoves
<1>3. \A d \in Entries : Traced(d)' => Traced(d)
  BY <1>1, <1>2 DEF Traced
<1>4. \A j \in Jobs : Tickets(j)' \subseteq Tickets(j)
  BY <1>2 DEF Tickets
<1>5. \A v \in Workers : CalmWorker(v)
  BY <1>2 DEF CalmWorker
<1>6. \A g \in Gateways : CalmReaper(g)
  BY <1>1 DEF CalmReaper, Issued
<1>7. \A j \in Jobs : CalmJob(j)
  BY <1>1 DEF CalmJob
<1> QED
  BY <1>1, <1>3, <1>4, <1>5, <1>6, <1>7 DEF Calm, Doubtful

-----------------------------------------------------------------------------
(* One place and one holder *)

Placed == OneHolder /\ EntryInOnePlace

LEMMA EnqueueFresh ==
  ASSUME TypeOK, Issued, NEW j \in Jobs, Enqueue(j), ~ QueueFull
  PROVE  /\ Entry(j, 0) \in Entries /\ ~ Traced(Entry(j, 0))
         /\ queue' = queue \cup {Entry(j, 0)}
         /\ sub[j] = "new"
         /\ sub' = [sub EXCEPT ![j] = "enqueued"]
<1>1. Entry(j, 0) \in Entries /\ Entry(j, 0).job = j
  BY EntryIsItsParts, BoundsAssumption
<1>2. sub[j] = "new" /\ sub' = [sub EXCEPT ![j] = "enqueued"]
  BY DEF Enqueue
<1>3. queue' = queue \cup {Entry(j, 0)}
  BY DEF Enqueue, FairEnqueue
<1> QED
  BY <1>1, <1>2, <1>3 DEF Issued, Untaken

\* A reap that may still retry is the first to: its entry is the submission's.
LEMMA ArmedIsFirst ==
  ASSUME TypeOK, RetriesPromised, MaxJobRetries <= 1, NEW g \in Gateways,
         rp[g].pc = "requeue"
  PROVE  requeues[Stranded(g)] = 0
<1>1. Stranded(g) \in Jobs
  BY EntryIsItsParts DEF TypeOK, ReaperTypeOK, ReaperShape, Stranded
<1>2. Requeuing(Stranded(g)) # {}
  BY DEF Requeuing
<1>3. /\ IsFiniteSet(Requeuing(Stranded(g)))
      /\ Cardinality(Requeuing(Stranded(g))) \in Nat
  BY CountedFinite
<1>4. Cardinality(Requeuing(Stranded(g))) # 0
  BY <1>2, <1>3, FS_EmptySet
<1>5. requeues[Stranded(g)] \in Nat
  BY <1>1 DEF TypeOK, HistoryTypeOK
<1>6. requeues[Stranded(g)] + Cardinality(Requeuing(Stranded(g))) <= MaxJobRetries
  BY <1>1 DEF RetriesPromised
<1> QED
  BY <1>3, <1>4, <1>5, <1>6, BoundsAssumption

LEMMA FirstAttempt ==
  ASSUME MaxJobRetries <= 1, NEW e \in Entries
  PROVE  /\ e.attempt = 0 => e = Entry(e.job, 0)
         /\ e.attempt > 0 => e = Entry(e.job, 1)
BY EntryIsItsParts, BoundsAssumption

LEMMA RequeueFresh ==
  ASSUME TypeOK, RetriesPromised, Issued, MaxJobRetries <= 1,
         NEW g \in Gateways, Requeue(g), ~ QueueFull
  PROVE  /\ Stranded(g) \in Jobs
         /\ Entry(Stranded(g), 1) \in Entries
         /\ ~ Traced(Entry(Stranded(g), 1))
         /\ queue' = queue \cup {Entry(Stranded(g), 1)}
         /\ requeues[Stranded(g)] = 0
         /\ requeues' = [requeues EXCEPT ![Stranded(g)] = 1]
         /\ Entry(Stranded(g), 0) \in fenced
         /\ sub[Stranded(g)] \notin Untaken
<1> DEFINE j == Stranded(g)
<1>1. rp[g].pc = "requeue" /\ rp[g].entry \in Entries /\ j \in Jobs
  BY EntryIsItsParts DEF Requeue, TypeOK, ReaperTypeOK, ReaperShape, Stranded
<1>2. rp[g].attempt \in 0 .. MaxJobRetries /\ rp[g].attempt > 0
  BY <1>1 DEF TypeOK, ReaperTypeOK, ReaperShape, Issued
<1>3. rp[g].attempt = 1 /\ MaxJobRetries = 1
  BY <1>2, BoundsAssumption
<1>4. requeues[j] = 0
  BY <1>1, ArmedIsFirst
<1>5. Entry(j, 1) \in Entries /\ Entry(j, 1).job = j /\ Entry(j, 1).attempt = 1
  BY <1>1, <1>3, EntryIsItsParts
<1>6. ~ Traced(Entry(j, 1))
  BY <1>4, <1>5 DEF Issued
<1>7. rp[g].entry \in fenced /\ Traced(rp[g].entry)
  BY <1>1 DEF Issued, FencedPCs, Traced
<1>8. rp[g].entry.attempt = 0
  <2>1. rp[g].entry.job = j
    BY DEF Stranded
  <2>2. ~ (rp[g].entry.attempt > 0)
    BY <1>1, <1>4, <1>7, <2>1 DEF Issued
  <2>3. rp[g].entry.attempt \in 0 .. MaxJobRetries
    BY <1>1, EntryIsItsParts
  <2> QED
    BY <2>2, <2>3, <1>3
<1>9. rp[g].entry = Entry(j, 0)
  BY <1>1, <1>8, FirstAttempt DEF Stranded
<1>10. sub[j] \notin Untaken
  BY <1>1, <1>7 DEF Issued, Stranded
<1>11. queue' = queue \cup {Entry(j, 1)}
  BY <1>3 DEF Requeue, FairEnqueue, Stranded
<1>12. requeues' = [requeues EXCEPT ![j] = 1]
  <2>1. requeues' = [requeues EXCEPT ![j] = @ + 1]
    BY DEF Requeue
  <2>2. [requeues EXCEPT ![j] = @ + 1] = [requeues EXCEPT ![j] = 1]
    BY <1>4
  <2> QED
    BY <2>1, <2>2
<1> QED
  BY <1>1, <1>4, <1>5, <1>6, <1>7, <1>9, <1>10, <1>11, <1>12

LEMMA FreshPlaced ==
  ASSUME Placed, NEW e \in Entries, ~ Traced(e), queue' = queue \cup {e},
         UNCHANGED <<proc, undeliverable, wk>>
  PROVE  Placed'
BY DEF Placed, OneHolder, EntryInOnePlace, Traced

LEMMA ShrinkPlaced ==
  ASSUME Placed, UNCHANGED <<queue, undeliverable>>,
         \A w \in Workers : proc'[w] \subseteq proc[w],
         \A w \in Workers : wk'[w].entry \in {wk[w].entry, None}
  PROVE  Placed'
<1>1. OneHolder'
  BY DEF Placed, OneHolder
<1>2. EntryInOnePlace'
  BY DEF Placed, EntryInOnePlace
<1> QED
  BY <1>1, <1>2 DEF Placed

LEMMA PopPlaced ==
  ASSUME TypeOK, Placed, NEW w \in Workers, Pop(w)
  PROVE  Placed'
<1>1. UNCHANGED undeliverable
  BY DEF Pop, workerElse
<1>2. PICK e \in queue :
           /\ queue' = queue \ {e}
           /\ wk'[w].pc = "popped" /\ wk'[w].entry = e
           /\ wk[w].pc = "idle"
           /\ \A v \in Workers \ {w} : wk'[v] = wk[v]
           /\ proc'[w] = proc[w] \cup {e}
           /\ \A v \in Workers \ {w} : proc'[v] = proc[v]
  BY PopMoves
<1>3. e \in Entries /\ e # None
  BY NoneAssumption DEF TypeOK, RedisTypeOK
<1>4. OneHolder'
  BY <1>2, <1>3 DEF Placed, OneHolder
<1>5. EntryInOnePlace'
  BY <1>1, <1>2 DEF Placed, EntryInOnePlace
<1> QED
  BY <1>4, <1>5 DEF Placed

LEMMA SetAsidePlaced ==
  ASSUME TypeOK, Placed, NEW g \in Gateways, SetAside(g)
  PROVE  Placed'
<1> DEFINE l == rp[g].list
<1>1. l \in Workers
  BY DEF SetAside, TypeOK, ReaperTypeOK, ReaperShape
<1>2. UNCHANGED <<queue, wk>>
  BY DEF SetAside, reaperElse
<1>3. \/ UNCHANGED <<proc, undeliverable>>
      \/ \E e \in proc[l] : /\ proc' = [proc EXCEPT ![l] = @ \ {e}]
                            /\ undeliverable' \subseteq undeliverable \cup {e}
  BY SetAsideSets, PutAsideSets
<1>4. OneHolder'
  BY <1>2 DEF Placed, OneHolder
<1>5. EntryInOnePlace'
  <2>1. CASE UNCHANGED <<proc, undeliverable>>
    BY <1>2, <2>1 DEF Placed, EntryInOnePlace
  <2>2. ASSUME NEW e \in proc[l], proc' = [proc EXCEPT ![l] = @ \ {e}],
               undeliverable' \subseteq undeliverable \cup {e}
        PROVE  EntryInOnePlace'
    <3>1. /\ proc'[l] = proc[l] \ {e}
          /\ \A v \in Workers \ {l} : proc'[v] = proc[v]
      BY <1>1, <2>2 DEF TypeOK, RedisTypeOK
    <3>2. e \notin queue /\ \A v \in Workers \ {l} : e \notin proc[v]
      BY <1>1 DEF Placed, EntryInOnePlace
    <3>3. (queue \cap undeliverable)' = {}
      BY <1>2, <2>2, <3>2 DEF Placed, EntryInOnePlace
    <3>4. \A w \in Workers : proc'[w] \cap (queue' \cup undeliverable') = {}
      BY <1>1, <1>2, <2>2, <3>1, <3>2 DEF Placed, EntryInOnePlace
    <3>5. \A w \in Workers : \A v \in Workers \ {w} : proc'[v] \cap proc'[w] = {}
      BY <1>1, <3>1 DEF Placed, EntryInOnePlace
    <3> QED
      BY <3>3, <3>4, <3>5 DEF EntryInOnePlace
  <2> QED
    BY <1>3, <2>1, <2>2
<1> QED
  BY <1>4, <1>5 DEF Placed

LEMMA WorkerPlaced ==
  ASSUME TypeOK, Placed, NEW w \in Workers,
         Pop(w) \/ WorkerStep(w) \/ WorkerChance(w)
  PROVE  Placed'
<1>1. CASE WorkerStep(w) \/ WorkerChance(w)
  <2>1. UNCHANGED <<queue, undeliverable>>
    BY <1>1, WorkerKeepsRest
  <2>2. \A v \in Workers : proc'[v] \subseteq proc[v]
    BY <1>1, WorkerProcShrinks
  <2>3. \A v \in Workers : wk'[v].entry \in {wk[v].entry, None}
    BY <1>1, WorkerIsCalm DEF CalmHolder
  <2> QED
    BY <2>1, <2>2, <2>3, ShrinkPlaced
<1> QED
  BY <1>1, PopPlaced

LEMMA ReaperPlaced ==
  ASSUME TypeOK, RetriesPromised, Issued, Placed, MaxJobRetries <= 1,
         NEW g \in Gateways, ReaperStep(g) \/ ReaperChance(g)
  PROVE  Placed'
<1>1. UNCHANGED wk
  BY ReaperKeepsRest
<1>2. CASE Requeue(g) /\ ~ QueueFull
  <2>1. UNCHANGED <<proc, undeliverable>>
    BY <1>2 DEF Requeue
  <2> QED
    BY <1>1, <1>2, <2>1, RequeueFresh, FreshPlaced
<1>3. CASE SetAside(g)
  BY <1>3, SetAsidePlaced
<1>4. CASE (Requeue(g) => QueueFull) /\ ~ SetAside(g)
  <2>1. UNCHANGED <<queue, undeliverable>>
    BY <1>4, QueueKept, ReaperKeepsRest
  <2>2. \A v \in Workers : proc'[v] \subseteq proc[v]
    BY ReaperProcShrinks
  <2> QED
    BY <1>1, <2>1, <2>2, ShrinkPlaced
<1> QED
  BY <1>2, <1>3, <1>4

LEMMA SubmitPlaced ==
  ASSUME TypeOK, Issued, Placed, NEW j \in Jobs, SubmitStep(j)
  PROVE  Placed'
<1>1. UNCHANGED <<proc, undeliverable, wk>>
  BY DEF SubmitStep, Enqueue, WriteState, SubmitDies, Cancel, submitElse
<1>2. CASE Enqueue(j) /\ ~ QueueFull
  BY <1>1, <1>2, EnqueueFresh, FreshPlaced
<1>3. CASE Enqueue(j) => QueueFull
  <2>1. UNCHANGED queue
    BY <1>3 DEF SubmitStep, Enqueue, WriteState, SubmitDies, Cancel
  <2> QED
    BY <1>1, <2>1, ShrinkPlaced
<1> QED
  BY <1>2, <1>3

-----------------------------------------------------------------------------
(* What a step leaves as it was *)

LEMMA JobKept ==
  ASSUME NEW i \in Jobs, HandedUnderPhase(i), Shut(i), FenceHolds(i),
         handed'[i] = handed[i], requeues'[i] = requeues[i],
         state'[i].owner = state[i].owner,
         state'[i].phase = "executing" <=> state[i].phase = "executing",
         \A e : e.job = i => (e \in fenced' <=> e \in fenced),
         Tickets(i)' \subseteq Tickets(i),
         \A w \in Workers, pcs \in {{"prologue", "claim"}, {"submit"}} :
           At(w, pcs, i)' => At(w, pcs, i) /\ wk'[w].entry = wk[w].entry,
         \A g \in Gateways : rp'[g].pc \in ArmedPCs /\ Stranded(g)' = i
                               => rp[g].pc \in ArmedPCs /\ Stranded(g) = i
  PROVE  (HandedUnderPhase(i) /\ Shut(i) /\ FenceHolds(i))'
<1>1. HandedUnderPhase(i)'
  BY DEF HandedUnderPhase
<1>2. Shut(i)'
  <2>1. \A e \in Tickets(i) : e.job = i
    BY DEF Tickets
  <2> QED
    BY <2>1 DEF Shut
<1>3. FenceHolds(i)'
  <2>1. Entry(i, 0).job = i
    BY DEF Entry
  <2> QED
    BY <2>1 DEF FenceHolds, At, JobOf
<1> QED
  BY <1>1, <1>2, <1>3

\* The line of Owed about one job.
OwedTo(j) ==
  /\ starts[j] + Cardinality(Tickets(j)) <= requeues[j] + Taken(j)
  /\ handed[j] + Cardinality(Handing(j)) <= starts[j]
  /\ state[j].phase = "executing" => starts[j] > 0

LEMMA OwedKept ==
  ASSUME TypeOK, NEW i \in Jobs, OwedTo(i),
         handed'[i] = handed[i], requeues'[i] = requeues[i],
         starts'[i] = starts[i],
         state'[i].phase = "executing" => state[i].phase = "executing",
         Taken(i)' = Taken(i),
         Tickets(i)' \subseteq Tickets(i), Handing(i)' \subseteq Handing(i)
  PROVE  OwedTo(i)'
<1>1. /\ Cardinality(Tickets(i)') \in Nat
      /\ Cardinality(Tickets(i)') <= Cardinality(Tickets(i))
  BY TicketsFinite, FS_Subset, FS_CardinalityType
<1>2. /\ Cardinality(Handing(i)') \in Nat
      /\ Cardinality(Handing(i)') <= Cardinality(Handing(i))
  BY HandingFinite, FS_Subset, FS_CardinalityType
<1>3. starts[i] \in Nat /\ handed[i] \in Nat /\ requeues[i] \in Nat
  BY DEF TypeOK, HistoryTypeOK
<1>4. Taken(i) \in {0, 1}
  BY DEF Taken
<1> QED
  BY <1>1, <1>2, <1>3, <1>4, TicketsFinite, HandingFinite DEF OwedTo

-----------------------------------------------------------------------------
(* A worker starts a job *)

LEMMA StartMoves ==
  ASSUME TypeOK, NEW w \in Workers, StartJob(w)
  PROVE  /\ wk[w].pc = "start" /\ wk[w].entry \in Entries /\ JobOf(w) \in Jobs
         /\ wk'[w].pc = "prologue" /\ wk'[w].entry = wk[w].entry
         /\ \A v \in Workers \ {w} : wk'[v] = wk[v]
         /\ state'[JobOf(w)].phase = "dispatched"
         /\ state'[JobOf(w)].owner = w
         /\ \A i \in Jobs \ {JobOf(w)} : state'[i] = state[i]
         /\ starts'[JobOf(w)] = starts[JobOf(w)] + 1
         /\ \A i \in Jobs \ {JobOf(w)} : starts'[i] = starts[i]
         /\ wk[w].entry \in fenced => JobOf(w) \in stale'
         /\ stale \subseteq stale'
         /\ UNCHANGED <<queue, undeliverable, proc, fenced, rp, sub, requeues,
                        handed, late>>
<1>1. wk[w].pc = "start" /\ wk[w].entry \in Entries /\ JobOf(w) \in Jobs
  BY EntryIsItsParts
     DEF StartJob, TypeOK, WorkerTypeOK, WorkerShape, FreePCs, JobOf
<1>2. wk'[w].pc = "prologue" /\ wk'[w].entry = wk[w].entry
  BY WorkerMoves DEF StartJob
<1>3. \A v \in Workers \ {w} : wk'[v] = wk[v]
  BY DEF StartJob, Goto, TypeOK, WorkerTypeOK
<1>4. /\ state'[JobOf(w)].phase = "dispatched"
      /\ state'[JobOf(w)].owner = w
      /\ \A i \in Jobs \ {JobOf(w)} : state'[i] = state[i]
  BY <1>1 DEF StartJob, HSet, TypeOK, RedisTypeOK, JobStates
<1>5. /\ starts'[JobOf(w)] = starts[JobOf(w)] + 1
      /\ \A i \in Jobs \ {JobOf(w)} : starts'[i] = starts[i]
  BY <1>1 DEF StartJob, TypeOK, HistoryTypeOK
<1>6. /\ wk[w].entry \in fenced => JobOf(w) \in stale'
      /\ stale \subseteq stale'
  BY DEF StartJob
<1>7. UNCHANGED <<queue, undeliverable, proc, fenced, rp, sub, requeues,
                  handed, late>>
  BY DEF StartJob, workerElse
<1> QED
  BY <1>1, <1>2, <1>3, <1>4, <1>5, <1>6, <1>7

LEMMA StartKeeps ==
  ASSUME TypeOK, TypeOK', HRest, Placed, MaxJobRetries <= 1,
         NEW w \in Workers, StartJob(w)
  PROVE  HRest'
<1>a. PICK j \in Jobs, e \in Entries : e = wk[w].entry /\ j = JobOf(w)
  BY StartMoves
<1>b. /\ wk[w].pc = "start" /\ wk[w].entry = e
      /\ wk'[w].pc = "prologue" /\ wk'[w].entry = e
      /\ \A v \in Workers \ {w} : wk'[v] = wk[v]
      /\ state'[j].phase = "dispatched" /\ state'[j].owner = w
      /\ \A i \in Jobs \ {j} : state'[i] = state[i]
      /\ starts'[j] = starts[j] + 1
      /\ \A i \in Jobs \ {j} : starts'[i] = starts[i]
      /\ e \in fenced => j \in stale'
      /\ stale \subseteq stale'
      /\ UNCHANGED <<queue, undeliverable, proc, fenced, rp, sub, requeues,
                     handed, late>>
  BY <1>a, StartMoves
<1> USE <1>b
<1>0. /\ e.job = j /\ w # None /\ e # None
      /\ e \notin queue /\ \A v \in Workers \ {w} : wk[v].entry # e
  BY <1>a, NoneAssumption DEF JobOf, Placed, OneHolder
<1>1. Issued'
  <2>1. \A d \in Entries : Traced(d)' => Traced(d)
    BY DEF Traced
  <2> QED
    BY <2>1 DEF HRest, Issued
<1>2. Owed'
  <2> SUFFICES ASSUME NEW i \in Jobs PROVE OwedTo(i)'
    BY DEF Owed, OwedTo
  <2>1. OwedTo(i)
    BY DEF HRest, Owed, OwedTo
  <2>2. CASE i # j
    <3>1. Tickets(i)' \subseteq Tickets(i)
      BY DEF Tickets
    <3>2. Handing(i)' \subseteq Handing(i)
      BY <1>0, <2>2 DEF Handing, JobOf
    <3>3. Taken(i)' = Taken(i)
      BY DEF Taken
    <3> QED
      BY <2>1, <2>2, <3>1, <3>2, <3>3, OwedKept
  <2>3. CASE i = j
    <3>1. Tickets(j)' \subseteq Tickets(j) \ {e} /\ e \in Tickets(j)
      BY <1>0 DEF Tickets
    <3>2. Handing(j)' \subseteq Handing(j) \cup {w}
      BY DEF Handing
    <3>3. /\ Cardinality(Tickets(j)') \in Nat
          /\ Cardinality(Tickets(j)') <= Cardinality(Tickets(j)) - 1
      BY <3>1, TicketsFinite, OneLess
    <3>4. /\ Cardinality(Handing(j)') \in Nat
          /\ Cardinality(Handing(j)') <= Cardinality(Handing(j)) + 1
      BY <3>2, HandingFinite, OneMore
    <3>5. starts[j] \in Nat /\ handed[j] \in Nat /\ requeues[j] \in Nat
      BY <1>0 DEF TypeOK, HistoryTypeOK
    <3>6. Taken(j)' = Taken(j) /\ Taken(j) \in {0, 1}
      BY DEF Taken
    <3> QED
      BY <1>0, <2>1, <2>3, <3>3, <3>4, <3>5, <3>6, TicketsFinite, HandingFinite
         DEF OwedTo
  <2> QED
    BY <2>2, <2>3
<1>3. Owned'
  <2> SUFFICES ASSUME NEW v \in Workers, wk'[v].pc \in {"prologue", "claim"}
               PROVE  state'[JobOf(v)'].owner # None
    BY DEF Owned
  <2>1. CASE v = w
    BY <1>0, <2>1 DEF JobOf
  <2>2. CASE v # w
    <3>1. JobOf(v)' = JobOf(v) /\ JobOf(v) \in Jobs
      BY <2>2, EntryIsItsParts
         DEF JobOf, TypeOK, WorkerTypeOK, WorkerShape, FreePCs
    <3> QED
      BY <1>0, <2>2, <3>1 DEF HRest, Owned
  <2> QED
    BY <2>1, <2>2
<1>4. Truthful'
  <2> SUFFICES ASSUME NEW i \in Jobs, i \notin Doubtful'
               PROVE  (HandedUnderPhase(i) /\ Shut(i) /\ FenceHolds(i))'
    BY DEF Truthful
  <2>1. HandedUnderPhase(i) /\ Shut(i) /\ FenceHolds(i)
    BY DEF HRest, Truthful, Doubtful
  <2>2. CASE i # j
    <3>1. Tickets(i)' \subseteq Tickets(i)
      BY DEF Tickets
    <3>2. \A v \in Workers, pcs \in {{"prologue", "claim"}, {"submit"}} :
            At(v, pcs, i)' => At(v, pcs, i) /\ wk'[v].entry = wk[v].entry
      BY <1>0, <2>2 DEF At, JobOf
    <3> QED
      BY <2>1, <2>2, <3>1, <3>2, JobKept DEF Stranded
  <2>3. CASE i = j
    <3>1. e \notin fenced
      BY <2>3 DEF Doubtful
    <3>2. state[j].phase # "executing"
      <4>1. e \in Tickets(j)
        BY <1>0 DEF Tickets
      <4> QED
        BY <2>1, <2>3, <3>1, <4>1 DEF Shut
    <3>3. HandedUnderPhase(j)'
      <4>1. handed[j] \in Nat
        BY <1>0 DEF TypeOK, HistoryTypeOK
      <4>2. \A v \in Workers : ~ At(v, {"submit"}, j)'
        BY <2>1, <2>3, <3>2 DEF HandedUnderPhase, At, JobOf
      <4> QED
        BY <2>1, <2>3, <3>2, <4>1, <4>2 DEF HandedUnderPhase
    <3>4. Shut(j)'
      BY <1>0 DEF Shut
    <3>5. FenceHolds(j)'
      <4>1. CASE requeues[j] = 0
        <5>1. ASSUME NEW d \in fenced, d.job = j PROVE FALSE
          <6>1. d \in Entries /\ Traced(d) /\ Traced(e)
            BY <1>0 DEF TypeOK, HistoryTypeOK, Traced
          <6>2. ~ (d.attempt > 0) /\ ~ (e.attempt > 0)
            BY <1>0, <4>1, <5>1, <6>1 DEF HRest, Issued
          <6>3. d.attempt = 0 /\ e.attempt = 0
            BY <1>0, <6>1, <6>2, EntryIsItsParts
          <6>4. d = e
            BY <1>0, <5>1, <6>1, <6>3, FirstAttempt
          <6> QED
            BY <3>1, <5>1, <6>4
        <5> QED
          BY <4>1, <5>1 DEF FenceHolds
      <4>2. CASE requeues[j] > 0
        <5>1. Entry(j, 0) \in fenced
          BY <1>0, <4>2 DEF HRest, Issued
        <5>2. \A v \in Workers : wk'[v].entry = Entry(j, 0) => v # w
          BY <3>1, <5>1
        <5> QED
          BY <1>0, <4>2, <5>2 DEF FenceHolds
      <4>3. requeues[j] \in Nat
        BY <1>0 DEF TypeOK, HistoryTypeOK
      <4> QED
        BY <4>1, <4>2, <4>3
    <3> QED
      BY <2>3, <3>3, <3>4, <3>5
  <2> QED
    BY <2>2, <2>3
<1> QED
  BY <1>1, <1>2, <1>3, <1>4 DEF HRest

-----------------------------------------------------------------------------
(* A worker wins its claim *)

LEMMA ClaimKeeps ==
  ASSUME TypeOK, TypeOK', HRest, Placed, MaxJobRetries <= 1,
         NEW w \in Workers, ClaimWon(w)
  PROVE  HRest'
<1>a. PICK e \in Entries : e = wk[w].entry /\ wk[w].pc = "claim"
  BY DEF ClaimWon, ClaimExecuting, TypeOK, WorkerTypeOK, WorkerShape, FreePCs
<1>b. PICK j \in Jobs : j = JobOf(w) /\ e.job = j
  BY <1>a, EntryIsItsParts DEF JobOf
<1>c. state[j].owner = w
  BY <1>a, <1>b DEF HRest, Owned, ClaimWon, StillOurs
<1>d. /\ \A i \in Jobs : state'[i].owner = state[i].owner
      /\ \A i \in Jobs \ {j} : state'[i].phase = state[i].phase
      /\ state'[j].phase = "executing"
  <2>1. state' = [state EXCEPT ![j].phase = "executing"]
    BY <1>b DEF ClaimWon, ClaimExecuting
  <2>2. state \in [Jobs -> JobStates]
    BY DEF TypeOK, RedisTypeOK
  <2> QED
    BY <2>1, <2>2 DEF JobStates
<1>e. /\ wk'[w].pc = "submit" /\ wk'[w].entry = e
      /\ \A v \in Workers \ {w} : wk'[v] = wk[v]
  <2>1. Goto(w, "submit")
    BY DEF ClaimWon, ClaimExecuting
  <2> QED
    BY <1>a, <2>1, WorkerMoves DEF Goto, TypeOK, WorkerTypeOK
<1>f. UNCHANGED <<queue, undeliverable, proc, fenced, rp, sub, requeues,
                  handed, starts, late, stale>>
  BY DEF ClaimWon, ClaimExecuting, workerElse, history
<1> USE <1>a, <1>b, <1>d, <1>e, <1>f
<1>0. /\ w # Reaped /\ e # None
      /\ e \notin queue /\ \A v \in Workers \ {w} : wk[v].entry # e
  BY NoneAssumption, ReapedAssumption DEF Reaped, Placed, OneHolder
<1>1. Issued'
  <2>1. \A d \in Entries : Traced(d)' => Traced(d)
    BY DEF Traced
  <2> QED
    BY <2>1 DEF HRest, Issued
<1>2. Owed'
  <2> SUFFICES ASSUME NEW i \in Jobs PROVE OwedTo(i)'
    BY DEF Owed, OwedTo
  <2>1. OwedTo(i) /\ OwedTo(j)
    BY DEF HRest, Owed, OwedTo
  <2>2. Tickets(i)' \subseteq Tickets(i)
    BY DEF Tickets
  <2>3. Handing(i)' \subseteq Handing(i)
    BY DEF Handing
  <2>4. Taken(i)' = Taken(i)
    BY DEF Taken
  <2>5. CASE i # j
    BY <2>1, <2>2, <2>3, <2>4, <2>5, OwedKept
  <2>6. CASE i = j
    <3>1. starts[j] > 0
      <4>1. w \in Handing(j)
        BY <1>0 DEF Handing
      <4>2. Cardinality(Handing(j)) \in Nat /\ Cardinality(Handing(j)) # 0
        BY <4>1, HandingFinite, FS_EmptySet
      <4>3. handed[j] + Cardinality(Handing(j)) <= starts[j]
        BY <2>1 DEF OwedTo
      <4>4. handed[j] \in Nat /\ starts[j] \in Nat
        BY DEF TypeOK, HistoryTypeOK
      <4> QED
        BY <4>2, <4>3, <4>4
    <3>2. /\ Cardinality(Tickets(j)') \in Nat
          /\ Cardinality(Tickets(j)') <= Cardinality(Tickets(j))
      BY <2>2, <2>6, TicketsFinite, FS_Subset, FS_CardinalityType
    <3>3. /\ Cardinality(Handing(j)') \in Nat
          /\ Cardinality(Handing(j)') <= Cardinality(Handing(j))
      BY <2>3, <2>6, HandingFinite, FS_Subset, FS_CardinalityType
    <3>4. starts[j] \in Nat /\ handed[j] \in Nat /\ requeues[j] \in Nat
      BY DEF TypeOK, HistoryTypeOK
    <3>5. Taken(j) \in {0, 1}
      BY DEF Taken
    <3> QED
      BY <2>1, <2>4, <2>6, <3>1, <3>2, <3>3, <3>4, <3>5, TicketsFinite,
         HandingFinite DEF OwedTo
  <2> QED
    BY <2>5, <2>6
<1>3. Owned'
  <2> SUFFICES ASSUME NEW v \in Workers, wk'[v].pc \in {"prologue", "claim"}
               PROVE  state'[JobOf(v)'].owner # None
    BY DEF Owned
  <2>1. v # w
    OBVIOUS
  <2>2. JobOf(v)' = JobOf(v) /\ JobOf(v) \in Jobs
    BY <2>1, EntryIsItsParts
       DEF JobOf, TypeOK, WorkerTypeOK, WorkerShape, FreePCs
  <2> QED
    BY <2>1, <2>2 DEF HRest, Owned
<1>4. Truthful'
  <2> SUFFICES ASSUME NEW i \in Jobs, i \notin Doubtful'
               PROVE  (HandedUnderPhase(i) /\ Shut(i) /\ FenceHolds(i))'
    BY DEF Truthful
  <2>1. HandedUnderPhase(i) /\ Shut(i) /\ FenceHolds(i)
    BY DEF HRest, Truthful, Doubtful
  <2>2. CASE i # j
    <3>1. Tickets(i)' \subseteq Tickets(i)
      BY DEF Tickets
    <3>2. \A v \in Workers, pcs \in {{"prologue", "claim"}, {"submit"}} :
            At(v, pcs, i)' => At(v, pcs, i) /\ wk'[v].entry = wk[v].entry
      BY <2>2 DEF At, JobOf
    <3> QED
      BY <2>1, <2>2, <3>1, <3>2, JobKept DEF Stranded
  <2>3. CASE i = j
    <3>1. state[j].phase # "executing"
      BY <1>c, <2>1, <2>3 DEF Shut, At
    <3>2. handed[j] = 0 /\ \A v \in Workers : ~ At(v, {"submit"}, j)
      <4>1. handed[j] \in Nat
        BY DEF TypeOK, HistoryTypeOK
      <4> QED
        BY <2>1, <2>3, <3>1, <4>1 DEF HandedUnderPhase
    <3>3. HandedUnderPhase(j)'
      BY <3>2 DEF HandedUnderPhase, At, JobOf
    <3>4. Shut(j)'
      <4>1. ASSUME NEW d \in Tickets(j)' PROVE d \in fenced
        <5>1. d \in Entries /\ d.job = j /\ d # e /\ Traced(d) /\ Traced(e)
          BY <1>0, <4>1 DEF Tickets, Traced
        <5>2. requeues[j] \in Nat
          BY DEF TypeOK, HistoryTypeOK
        <5>3. d.attempt \in Nat /\ e.attempt \in Nat
          BY <5>1, EntryIsItsParts
        <5>4. requeues[j] > 0
          <6>1. d.attempt = 0 /\ e.attempt = 0 => d = e
            BY <5>1, FirstAttempt
          <6>2. d.attempt > 0 \/ e.attempt > 0
            BY <5>1, <5>3, <6>1
          <6> QED
            BY <5>1, <6>2 DEF HRest, Issued
        <5>5. e # Entry(j, 0)
          BY <1>c, <2>1, <2>3, <5>4 DEF FenceHolds
        <5>6. e = Entry(j, 1)
          BY <5>3, <5>5, FirstAttempt
        <5>7. d = Entry(j, 0)
          BY <5>1, <5>3, <5>6, FirstAttempt
        <5> QED
          BY <5>4, <5>7 DEF HRest, Issued
      <4>2. \A v \in Workers : At(v, {"prologue", "claim"}, j)' => v # w
        BY DEF At
      <4>3. requeues[j] = 0 =>
              \A g \in Gateways : rp[g].pc \in ArmedPCs => Stranded(g) # j
        <5> SUFFICES ASSUME requeues[j] = 0, NEW g \in Gateways,
                            rp[g].pc \in ArmedPCs, Stranded(g) = j
                     PROVE  FALSE
          OBVIOUS
        <5>1. rp[g].entry \in fenced
          BY DEF HRest, Issued, ArmedPCs, FencedPCs
        <5>2. state[j].owner = Reaped
          BY <2>1, <2>3, <5>1 DEF FenceHolds, Stranded
        <5> QED
          BY <1>0, <1>c, <5>2
      <4> QED
        BY <1>c, <4>1, <4>2, <4>3 DEF Shut, Stranded
    <3>5. FenceHolds(j)'
      <4>1. FenceHolds(j)
        BY <2>1, <2>3
      <4> QED
        BY <4>1 DEF FenceHolds
    <3> QED
      BY <2>3, <3>3, <3>4, <3>5
  <2> QED
    BY <2>2, <2>3
<1> QED
  BY <1>1, <1>2, <1>3, <1>4 DEF HRest

-----------------------------------------------------------------------------
(* A worker sends the job to ComfyUI *)

LEMMA SubmitKeeps ==
  ASSUME TypeOK, TypeOK', HRest,
         NEW w \in Workers, SubmitPrompt(w) \/ SubmitRaises(w)
  PROVE  HRest'
<1>a. PICK e \in Entries : e = wk[w].entry /\ wk[w].pc = "submit"
  BY DEF SubmitPrompt, SubmitRaises, TypeOK, WorkerTypeOK, WorkerShape, FreePCs
<1>b. PICK j \in Jobs : j = JobOf(w) /\ e.job = j
  BY <1>a, EntryIsItsParts DEF JobOf
<1>c. /\ wk'[w].pc \in {"running", "report"}
      /\ \A v \in Workers \ {w} : wk'[v] = wk[v]
  BY WorkerMoves, OtherWorkersKept DEF SubmitPrompt, SubmitRaises, WorkerStep
<1>d. /\ handed'[j] \in {handed[j], handed[j] + 1}
      /\ \A i \in Jobs \ {j} : handed'[i] = handed[i]
  <2>1. handed \in [Jobs -> Nat]
    BY DEF TypeOK, HistoryTypeOK
  <2>2. \E n \in {0, 1} : handed' = [handed EXCEPT ![j] = @ + n]
    BY <1>b DEF SubmitPrompt, SubmitRaises
  <2> QED
    BY <2>1, <2>2
<1>e. UNCHANGED <<queue, undeliverable, proc, fenced, rp, sub, requeues, state,
                  starts, late, stale>>
  BY DEF SubmitPrompt, SubmitRaises, workerElse
<1> USE <1>a, <1>b, <1>c, <1>d, <1>e
<1>0. \A v \in Workers : wk'[v].entry \in {wk[v].entry, None}
  BY WorkerIsCalm DEF WorkerStep, CalmHolder
<1>1. Issued'
  <2>1. \A d \in Entries : Traced(d)' => Traced(d)
    BY <1>0, NoneAssumption DEF Traced
  <2> QED
    BY <2>1 DEF HRest, Issued
<1>2. Owed'
  <2> SUFFICES ASSUME NEW i \in Jobs PROVE OwedTo(i)'
    BY DEF Owed, OwedTo
  <2>1. OwedTo(i)
    BY DEF HRest, Owed, OwedTo
  <2>2. Tickets(i)' \subseteq Tickets(i)
    BY DEF Tickets
  <2>3. Handing(i)' \subseteq Handing(i) \ {w}
    BY DEF Handing
  <2>4. Taken(i)' = Taken(i)
    BY DEF Taken
  <2>5. CASE i # j
    BY <2>1, <2>2, <2>3, <2>4, <2>5, OwedKept
  <2>6. CASE i = j
    <3>1. w \in Handing(j)
      BY NoneAssumption DEF Handing
    <3>2. /\ Cardinality(Tickets(j)') \in Nat
          /\ Cardinality(Tickets(j)') <= Cardinality(Tickets(j))
      BY <2>2, <2>6, TicketsFinite, FS_Subset, FS_CardinalityType
    <3>3. /\ Cardinality(Handing(j)') \in Nat
          /\ Cardinality(Handing(j)') <= Cardinality(Handing(j)) - 1
      BY <2>3, <2>6, <3>1, HandingFinite, OneLess
    <3>4. starts[j] \in Nat /\ handed[j] \in Nat /\ requeues[j] \in Nat
      BY DEF TypeOK, HistoryTypeOK
    <3>5. Taken(j) \in {0, 1}
      BY DEF Taken
    <3> QED
      BY <2>1, <2>4, <2>6, <3>2, <3>3, <3>4, <3>5, TicketsFinite,
         HandingFinite DEF OwedTo
  <2> QED
    BY <2>5, <2>6
<1>3. Owned'
  <2> SUFFICES ASSUME NEW v \in Workers, wk'[v].pc \in {"prologue", "claim"}
               PROVE  state'[JobOf(v)'].owner # None
    BY DEF Owned
  <2>1. v # w
    OBVIOUS
  <2> QED
    BY <2>1 DEF HRest, Owned, JobOf
<1>4. Truthful'
  <2> SUFFICES ASSUME NEW i \in Jobs, i \notin Doubtful'
               PROVE  (HandedUnderPhase(i) /\ Shut(i) /\ FenceHolds(i))'
    BY DEF Truthful
  <2>1. HandedUnderPhase(i) /\ Shut(i) /\ FenceHolds(i)
    BY DEF HRest, Truthful, Doubtful
  <2>2. Tickets(i)' \subseteq Tickets(i)
    BY DEF Tickets
  <2>3. \A v \in Workers, pcs \in {{"prologue", "claim"}, {"submit"}} :
          At(v, pcs, i)' => At(v, pcs, i) /\ wk'[v].entry = wk[v].entry
    BY DEF At, JobOf
  <2>4. CASE i # j
    BY <2>1, <2>2, <2>3, <2>4, JobKept DEF Stranded
  <2>5. CASE i = j
    <3>1. /\ handed[j] = 0 /\ state[j].phase = "executing"
          /\ \A v \in Workers : ~ At(v, {"submit"}, j)'
      BY <2>1, <2>5 DEF HandedUnderPhase, At, JobOf
    <3>2. HandedUnderPhase(j)'
      BY <3>1 DEF HandedUnderPhase
    <3>3. Shut(j)'
      BY <2>1, <2>2, <2>3, <2>5 DEF Shut, Stranded
    <3>4. FenceHolds(j)'
      BY <2>1, <2>5 DEF FenceHolds
    <3> QED
      BY <2>5, <3>2, <3>3, <3>4
  <2> QED
    BY <2>4, <2>5
<1> QED
  BY <1>1, <1>2, <1>3, <1>4 DEF HRest

-----------------------------------------------------------------------------
(* A reaper fences, reads and requeues; a submission enqueues *)

LEMMA FenceKeeps ==
  ASSUME TypeOK, TypeOK', HRest, NEW g \in Gateways, Fence(g)
  PROVE  HRest'
<1>a. PICK e \in Entries : e = rp[g].entry
  BY DEF Fence, TypeOK, ReaperTypeOK, ReaperShape
<1>b. PICK j \in Jobs : j = Stranded(g) /\ e.job = j
  BY <1>a, EntryIsItsParts DEF Stranded
<1>c. /\ rp'[g].pc = "decide" /\ rp'[g].entry = e
      /\ \A h \in Gateways \ {g} : rp'[h] = rp[h]
  BY <1>a, ReaperMoves, OtherReapersKept DEF Fence, ReaperStep
<1>d. /\ state'[j].owner = Reaped
      /\ \A i \in Jobs \ {j} : state'[i].owner = state[i].owner
      /\ \A i \in Jobs : state'[i].phase = state[i].phase
  <2>1. state' = [state EXCEPT ![j].owner = Reaped]
    BY <1>b DEF Fence
  <2>2. state \in [Jobs -> JobStates]
    BY DEF TypeOK, RedisTypeOK
  <2> QED
    BY <2>1, <2>2 DEF JobStates
<1>e. /\ fenced' = fenced \cup {e}
      /\ UNCHANGED <<queue, undeliverable, proc, wk, sub, requeues, starts,
                     handed, late, stale>>
  BY <1>a DEF Fence, Held, reaperElse
<1> USE <1>a, <1>b, <1>c, <1>d, <1>e
<1>0. Reaped \notin Workers /\ Reaped # None
  BY NoneAssumption, ReapedAssumption DEF Reaped
<1>1. Issued'
  <2>1. \A d \in Entries : Traced(d)' => Traced(d)
    BY ReaperTraced DEF ReaperStep, Fence, Requeue
  <2>2. \A h \in Gateways : /\ rp'[h].pc = "requeue" => rp'[h].attempt > 0
                            /\ rp'[h].pc \in FencedPCs => rp'[h].entry \in fenced'
    BY DEF HRest, Issued
  <2>3. \A i \in Jobs : requeues'[i] > 0 => Entry(i, 0) \in fenced'
    BY DEF HRest, Issued
  <2> QED
    BY <2>1, <2>2, <2>3 DEF HRest, Issued
<1>2. Owed'
  <2> SUFFICES ASSUME NEW i \in Jobs PROVE OwedTo(i)'
    BY DEF Owed, OwedTo
  <2>1. OwedTo(i)
    BY DEF HRest, Owed, OwedTo
  <2> QED
    BY <2>1, OwedKept DEF Tickets, Handing, Taken
<1>3. Owned'
  <2> SUFFICES ASSUME NEW v \in Workers, wk'[v].pc \in {"prologue", "claim"}
               PROVE  state'[JobOf(v)'].owner # None
    BY DEF Owned
  <2>1. JobOf(v)' = JobOf(v) /\ JobOf(v) \in Jobs
    BY EntryIsItsParts DEF JobOf, TypeOK, WorkerTypeOK, WorkerShape, FreePCs
  <2> QED
    BY <1>0, <2>1 DEF HRest, Owned
<1>4. Truthful'
  <2> SUFFICES ASSUME NEW i \in Jobs, i \notin Doubtful'
               PROVE  (HandedUnderPhase(i) /\ Shut(i) /\ FenceHolds(i))'
    BY DEF Truthful
  <2>1. HandedUnderPhase(i) /\ Shut(i) /\ FenceHolds(i)
    BY DEF HRest, Truthful, Doubtful
  <2>2. Tickets(i)' = Tickets(i)
    BY DEF Tickets
  <2>3. \A v \in Workers : \A pcs : At(v, pcs, i)' <=> At(v, pcs, i)
    BY DEF At, JobOf
  <2>4. \A h \in Gateways : rp'[h].pc \in ArmedPCs /\ Stranded(h)' = i
                              => rp[h].pc \in ArmedPCs /\ Stranded(h) = i
    BY DEF ArmedPCs, Stranded
  <2>5. CASE i # j
    BY <2>1, <2>2, <2>3, <2>4, <2>5, JobKept
  <2>6. CASE i = j
    <3>1. HandedUnderPhase(j)'
      BY <2>1, <2>3, <2>6 DEF HandedUnderPhase
    <3>2. Shut(j)'
      BY <1>0, <2>1, <2>2, <2>4, <2>6 DEF Shut
    <3>3. FenceHolds(j)'
      BY <1>0 DEF FenceHolds
    <3> QED
      BY <2>6, <3>1, <3>2, <3>3
  <2> QED
    BY <2>5, <2>6
<1> QED
  BY <1>1, <1>2, <1>3, <1>4 DEF HRest

LEMMA ReadKeeps ==
  ASSUME TypeOK, TypeOK', HRest, NEW g \in Gateways, ReadPhase(g)
  PROVE  HRest'
<1>a. /\ \/ rp'[g].pc = "fetch" /\ state[Stranded(g)].phase \in RetryablePhases
         \/ rp'[g].pc = "bill"
      /\ rp[g].pc = "decide" /\ rp'[g].entry = rp[g].entry
      /\ \A h \in Gateways \ {g} : rp'[h] = rp[h]
  BY ReaperMoves, OtherReapersKept DEF ReadPhase, ReaperStep
<1>b. UNCHANGED <<queue, undeliverable, proc, wk, sub, requeues, starts, handed,
                  late, stale, fenced, state>>
  BY DEF ReadPhase, reaperElse, redisVars, history
<1> USE <1>a, <1>b
<1>1. Issued'
  <2>1. \A d \in Entries : Traced(d)' => Traced(d)
    BY ReaperTraced DEF ReaperStep, ReadPhase, Requeue
  <2>2. \A h \in Gateways : /\ rp'[h].pc = "requeue" => rp'[h].attempt > 0
                            /\ rp'[h].pc \in FencedPCs => rp'[h].entry \in fenced'
    BY DEF HRest, Issued, FencedPCs
  <2> QED
    BY <2>1, <2>2 DEF HRest, Issued
<1>2. Owed' /\ Owned'
  BY DEF HRest, Owed, Owned, Tickets, Handing, Taken, JobOf
<1>3. Truthful'
  <2> SUFFICES ASSUME NEW i \in Jobs, i \notin Doubtful'
               PROVE  (HandedUnderPhase(i) /\ Shut(i) /\ FenceHolds(i))'
    BY DEF Truthful
  <2>1. HandedUnderPhase(i) /\ Shut(i) /\ FenceHolds(i)
    BY DEF HRest, Truthful, Doubtful
  <2>2. Tickets(i)' = Tickets(i)
    BY DEF Tickets
  <2>3. \A v \in Workers : \A pcs : At(v, pcs, i)' <=> At(v, pcs, i)
    BY DEF At, JobOf
  <2>4. state[i].phase = "executing" =>
          \A h \in Gateways : rp'[h].pc \in ArmedPCs /\ Stranded(h)' = i
                                => rp[h].pc \in ArmedPCs /\ Stranded(h) = i
    BY DEF ArmedPCs, Stranded, RetryablePhases
  <2>5. HandedUnderPhase(i)'
    BY <2>1, <2>3 DEF HandedUnderPhase
  <2>6. Shut(i)'
    BY <2>1, <2>2, <2>3, <2>4 DEF Shut
  <2>7. FenceHolds(i)'
    BY <2>1 DEF FenceHolds
  <2> QED
    BY <2>5, <2>6, <2>7
<1> QED
  BY <1>1, <1>2, <1>3 DEF HRest

LEMMA RequeueKeeps ==
  ASSUME TypeOK, TypeOK', HRest, RetriesPromised, MaxJobRetries <= 1,
         NEW g \in Gateways, Requeue(g), ~ QueueFull
  PROVE  HRest'
<1>a. PICK j \in Jobs : j = Stranded(g)
  BY RequeueFresh DEF HRest
<1>b. PICK e \in Entries : e = Entry(j, 1)
  BY <1>a, RequeueFresh DEF HRest
<1>c. /\ ~ Traced(e) /\ e.job = j /\ queue' = queue \cup {e}
      /\ requeues[j] = 0 /\ requeues' = [requeues EXCEPT ![j] = 1]
      /\ Entry(j, 0) \in fenced /\ sub[j] \notin Untaken
  BY <1>a, <1>b, RequeueFresh DEF HRest, Entry
<1>d. /\ rp'[g].pc = "mark" /\ rp[g].pc = "requeue" /\ rp'[g].entry = rp[g].entry
      /\ \A h \in Gateways \ {g} : rp'[h] = rp[h]
  BY ReaperMoves, OtherReapersKept DEF Requeue, ReaperStep
<1>e. UNCHANGED <<undeliverable, proc, wk, sub, starts, handed, late, stale,
                  fenced, state>>
  BY DEF Requeue, reaperElse
<1>f. /\ requeues'[j] = 1 /\ \A i \in Jobs \ {j} : requeues'[i] = requeues[i]
      /\ Entry(j, 0).job = j
  BY <1>c DEF TypeOK, HistoryTypeOK, Entry
<1> HIDE <1>b
<1> USE <1>a, <1>c, <1>d, <1>e, <1>f
<1>1. Issued'
  <2>1. \A d \in Entries : Traced(d)' => Traced(d) \/ d = e
    BY DEF Traced
  <2>2. \A d \in Entries : Traced(d)' => /\ sub'[d.job] \notin Untaken
                                         /\ d.attempt > 0 => requeues'[d.job] > 0
    BY <2>1, EntryIsItsParts DEF HRest, Issued
  <2>3. \A h \in Gateways : /\ rp'[h].pc = "requeue" => rp'[h].attempt > 0
                            /\ rp'[h].pc \in FencedPCs => rp'[h].entry \in fenced'
    BY DEF HRest, Issued, FencedPCs
  <2>4. \A i \in Jobs : requeues'[i] > 0 => Entry(i, 0) \in fenced'
    BY DEF HRest, Issued
  <2> QED
    BY <2>2, <2>3, <2>4 DEF Issued
<1>2. Owed'
  <2> SUFFICES ASSUME NEW i \in Jobs PROVE OwedTo(i)'
    BY DEF Owed, OwedTo
  <2>1. OwedTo(i)
    BY DEF HRest, Owed, OwedTo
  <2>2. Handing(i)' = Handing(i) /\ Taken(i)' = Taken(i) /\ Taken(i) \in {0, 1}
    BY DEF Handing, Taken
  <2>3. CASE i # j
    <3>1. Tickets(i)' \subseteq Tickets(i)
      BY <2>3 DEF Tickets
    <3> QED
      BY <2>1, <2>2, <2>3, <3>1, OwedKept
  <2>4. CASE i = j
    <3>1. Tickets(j)' \subseteq Tickets(j) \cup {e}
      BY DEF Tickets
    <3>2. /\ Cardinality(Tickets(j)') \in Nat
          /\ Cardinality(Tickets(j)') <= Cardinality(Tickets(j)) + 1
      BY <3>1, TicketsFinite, OneMore
    <3>3. starts[j] \in Nat /\ handed[j] \in Nat
      BY DEF TypeOK, HistoryTypeOK
    <3> QED
      BY <2>1, <2>2, <2>4, <3>2, <3>3, TicketsFinite, HandingFinite DEF OwedTo
  <2> QED
    BY <2>3, <2>4
<1>3. Owned'
  BY DEF HRest, Owned, JobOf
<1>4. Truthful'
  <2> SUFFICES ASSUME NEW i \in Jobs, i \notin Doubtful'
               PROVE  (HandedUnderPhase(i) /\ Shut(i) /\ FenceHolds(i))'
    BY DEF Truthful
  <2>1. HandedUnderPhase(i) /\ Shut(i) /\ FenceHolds(i)
    BY DEF HRest, Truthful, Doubtful
  <2>2. \A v \in Workers : \A pcs : At(v, pcs, i)' <=> At(v, pcs, i)
    BY DEF At, JobOf
  <2>3. CASE i # j
    <3>1. Tickets(i)' \subseteq Tickets(i)
      BY <2>3 DEF Tickets
    <3>2. \A h \in Gateways : rp'[h].pc \in ArmedPCs /\ Stranded(h)' = i
                                => rp[h].pc \in ArmedPCs /\ Stranded(h) = i
      BY <2>3 DEF Stranded
    <3> QED
      BY <2>1, <2>2, <2>3, <3>1, <3>2, JobKept
  <2>4. CASE i = j
    <3>1. state[j].phase # "executing"
      BY <2>1, <2>4 DEF Shut, ArmedPCs
    <3>2. HandedUnderPhase(j)'
      BY <2>1, <2>2, <2>4 DEF HandedUnderPhase
    <3>3. Shut(j)'
      BY <3>1 DEF Shut
    <3>4. state[j].owner = Reaped
      BY <2>1, <2>4 DEF FenceHolds
    <3>5. FenceHolds(j)'
      BY <3>4, ReapedAssumption DEF FenceHolds, Reaped
    <3> QED
      BY <2>4, <3>2, <3>3, <3>5
  <2> QED
    BY <2>3, <2>4
<1> QED
  BY <1>1, <1>2, <1>3, <1>4 DEF HRest

LEMMA EnqueueKeeps ==
  ASSUME TypeOK, TypeOK', HRest, NEW j \in Jobs, Enqueue(j), ~ QueueFull
  PROVE  HRest'
<1>a. PICK e \in Entries : e = Entry(j, 0)
  BY EnqueueFresh DEF HRest
<1>b. /\ ~ Traced(e) /\ e.job = j /\ e.attempt = 0 /\ queue' = queue \cup {e}
      /\ sub[j] = "new" /\ sub' = [sub EXCEPT ![j] = "enqueued"]
  BY <1>a, EnqueueFresh DEF HRest, Entry
<1>c. UNCHANGED <<undeliverable, proc, wk, rp, starts, handed, late, stale,
                  fenced, state, requeues>>
  BY DEF Enqueue, submitElse
<1>d. /\ sub'[j] = "enqueued" /\ \A i \in Jobs \ {j} : sub'[i] = sub[i]
  BY <1>b DEF TypeOK, HistoryTypeOK
<1> HIDE <1>a
<1> USE <1>b, <1>c, <1>d
<1>0. starts[j] = 0 /\ requeues[j] = 0 /\ state[j].phase # "executing"
  <2>1. requeues[j] \in Nat /\ starts[j] \in Nat
    BY DEF TypeOK, HistoryTypeOK
  <2>2. Entry(j, 0) \in Entries /\ Entry(j, 0).job = j
    BY EntryIsItsParts, BoundsAssumption
  <2>3. ~ (requeues[j] > 0)
    BY <2>2 DEF HRest, Issued, Traced, Untaken
  <2>4. OwedTo(j) /\ Taken(j) = 0
    BY DEF HRest, Owed, OwedTo, Taken, Untaken
  <2> QED
    BY <2>1, <2>3, <2>4, TicketsFinite DEF OwedTo
<1>1. Issued'
  <2>1. \A d \in Entries : Traced(d)' => Traced(d) \/ d = e
    BY DEF Traced
  <2>2. \A d \in Entries : Traced(d)' => /\ sub'[d.job] \notin Untaken
                                         /\ d.attempt > 0 => requeues'[d.job] > 0
    BY <2>1, EntryIsItsParts DEF HRest, Issued, Untaken
  <2> QED
    BY <2>2 DEF HRest, Issued
<1>2. Owed'
  <2> SUFFICES ASSUME NEW i \in Jobs PROVE OwedTo(i)'
    BY DEF Owed, OwedTo
  <2>1. OwedTo(i)
    BY DEF HRest, Owed, OwedTo
  <2>2. Handing(i)' = Handing(i)
    BY DEF Handing
  <2>3. CASE i # j
    <3>1. Tickets(i)' \subseteq Tickets(i)
      BY <2>3 DEF Tickets
    <3>2. Taken(i)' = Taken(i)
      BY <2>3 DEF Taken
    <3> QED
      BY <2>1, <2>2, <3>1, <3>2, OwedKept
  <2>4. CASE i = j
    <3>1. Tickets(j)' \subseteq Tickets(j) \cup {e}
      BY DEF Tickets
    <3>2. /\ Cardinality(Tickets(j)') \in Nat
          /\ Cardinality(Tickets(j)') <= Cardinality(Tickets(j)) + 1
      BY <3>1, TicketsFinite, OneMore
    <3>3. Taken(j)' = 1 /\ Taken(j) = 0
      BY DEF Taken, Untaken
    <3>4. handed[j] \in Nat
      BY DEF TypeOK, HistoryTypeOK
    <3> QED
      BY <1>0, <2>1, <2>2, <2>4, <3>2, <3>3, <3>4, TicketsFinite,
         HandingFinite DEF OwedTo
  <2> QED
    BY <2>3, <2>4
<1>3. Owned'
  BY DEF HRest, Owned, JobOf
<1>4. Truthful'
  <2> SUFFICES ASSUME NEW i \in Jobs, i \notin Doubtful'
               PROVE  (HandedUnderPhase(i) /\ Shut(i) /\ FenceHolds(i))'
    BY DEF Truthful
  <2>1. HandedUnderPhase(i) /\ Shut(i) /\ FenceHolds(i)
    BY DEF HRest, Truthful, Doubtful
  <2>2. \A v \in Workers : \A pcs : At(v, pcs, i)' <=> At(v, pcs, i)
    BY DEF At, JobOf
  <2>3. HandedUnderPhase(i)' /\ FenceHolds(i)'
    BY <2>1, <2>2 DEF HandedUnderPhase, FenceHolds
  <2>4. Shut(i)'
    <3>1. i # j => Tickets(i)' \subseteq Tickets(i)
      BY DEF Tickets
    <3> QED
      BY <1>0, <2>1, <2>2, <3>1 DEF Shut, Stranded
  <2> QED
    BY <2>3, <2>4
<1> QED
  BY <1>1, <1>2, <1>3, <1>4 DEF HRest

-----------------------------------------------------------------------------
(* The invariant of the handovers *)

LEMMA InitHInv == Init => HRest /\ Placed
<1> SUFFICES ASSUME Init PROVE HRest /\ Placed
  OBVIOUS
<1> USE DEF Init
<1>1. /\ \A e \in Entries : e # None
      /\ \A w \in Workers : wk[w].pc = "idle" /\ wk[w].entry = None
      /\ \A g \in Gateways : rp[g].pc = "idle" /\ rp[g].entry = None
  BY NoneAssumption DEF IdleWorker, IdleReaper
<1>2. \A e \in Entries : ~ Traced(e)
  BY <1>1 DEF Traced
<1>3. \A j \in Jobs : /\ Tickets(j) = {} /\ Handing(j) = {} /\ Taken(j) = 0
                      /\ handed[j] = 0 /\ starts[j] = 0 /\ requeues[j] = 0
                      /\ state[j].phase = None /\ state[j].phase # "executing"
  <2>1. None # "executing"
    BY NoneAssumption DEF Phases
  <2> QED
    BY <1>1, <2>1 DEF Tickets, Handing, Taken, Untaken, Zero, NewJob
<1>4. Issued
  BY <1>1, <1>2, <1>3 DEF Issued, FencedPCs
<1>5. Owed
  <2>1. Cardinality({}) = 0
    BY FS_EmptySet
  <2> QED
    BY ONLY <1>3, <2>1 DEF Owed
<1>6. Owned
  BY <1>1 DEF Owned
<1>7. Truthful
  BY <1>1, <1>3 DEF Truthful, HandedUnderPhase, Shut, FenceHolds, At
<1>8. Placed
  BY <1>1 DEF Placed, OneHolder, EntryInOnePlace
<1> QED
  BY <1>4, <1>5, <1>6, <1>7, <1>8 DEF HRest

LEMMA StandStill ==
  ASSUME TypeOK, HRest, Placed, UNCHANGED vars
  PROVE  HRest' /\ Placed'
<1> USE DEF vars, redisVars, history
<1>1. Placed'
  BY ShrinkPlaced
<1>2. TypeOK'
  BY DEF TypeOK, RedisTypeOK, WorkerTypeOK, ReaperTypeOK, HistoryTypeOK
<1>3. Calm
  <2>1. \A e \in Entries : Traced(e)' => Traced(e)
    BY DEF Traced
  <2>2. \A j \in Jobs : Tickets(j)' \subseteq Tickets(j)
    BY DEF Tickets
  <2>3. \A w \in Workers : CalmWorker(w)
    BY DEF CalmWorker
  <2>4. \A g \in Gateways : CalmReaper(g)
    BY DEF CalmReaper, HRest, Issued
  <2>5. \A j \in Jobs : CalmJob(j)
    BY DEF CalmJob
  <2> QED
    BY <2>1, <2>2, <2>3, <2>4, <2>5 DEF Calm, Doubtful
<1> QED
  BY <1>1, <1>2, <1>3, CalmKeeps DEF HRest

LEMMA WorkerKeeps ==
  ASSUME TypeOK, TypeOK', HRest, Placed, MaxJobRetries <= 1,
         NEW w \in Workers, WorkerStep(w) \/ WorkerChance(w)
  PROVE  HRest'
<1>1. CASE StartJob(w)
  BY <1>1, StartKeeps
<1>2. CASE ClaimWon(w)
  BY <1>2, ClaimKeeps
<1>3. CASE SubmitPrompt(w) \/ SubmitRaises(w)
  BY <1>3, SubmitKeeps
<1>4. CASE ~ StartJob(w) /\ ~ ClaimWon(w) /\ ~ SubmitPrompt(w) /\ ~ SubmitRaises(w)
  <2>1. Calm
    BY <1>4, WorkerCalm DEF HRest
  <2> QED
    BY <2>1, CalmKeeps DEF HRest
<1> QED
  BY <1>1, <1>2, <1>3, <1>4

LEMMA ReaperKeeps ==
  ASSUME TypeOK, TypeOK', HRest, RetriesPromised, MaxJobRetries <= 1,
         NEW g \in Gateways, ReaperStep(g) \/ ReaperChance(g)
  PROVE  HRest'
<1>1. CASE Fence(g)
  BY <1>1, FenceKeeps
<1>2. CASE ReadPhase(g)
  BY <1>2, ReadKeeps
<1>3. CASE Requeue(g) /\ ~ QueueFull
  BY <1>3, RequeueKeeps
<1>4. CASE ~ Fence(g) /\ ~ ReadPhase(g) /\ (Requeue(g) => QueueFull)
  <2>1. Calm
    BY <1>4, ReaperCalm DEF HRest
  <2> QED
    BY <2>1, CalmKeeps DEF HRest
<1> QED
  BY <1>1, <1>2, <1>3, <1>4

LEMMA SubmitPathKeeps ==
  ASSUME TypeOK, TypeOK', HRest, NEW j \in Jobs, SubmitStep(j)
  PROVE  HRest'
<1>1. CASE Enqueue(j) /\ ~ QueueFull
  BY <1>1, EnqueueKeeps
<1>2. CASE Enqueue(j) => QueueFull
  <2>1. Calm
    BY <1>2, SubmitCalm DEF HRest
  <2> QED
    BY <2>1, CalmKeeps DEF HRest
<1> QED
  BY <1>1, <1>2

LEMMA PopKeeps ==
  ASSUME TypeOK, TypeOK', HRest, NEW w \in Workers, Pop(w)
  PROVE  HRest'
BY PopCalm, CalmKeeps DEF HRest

LEMMA NextHInv ==
  ASSUME MaxJobRetries <= 1
  PROVE  IInv /\ HRest /\ Placed /\ [Next]_vars => HRest' /\ Placed'
<1> SUFFICES ASSUME IInv, HRest, Placed, [Next]_vars PROVE HRest' /\ Placed'
  OBVIOUS
<1>0. TypeOK /\ TypeOK' /\ RetriesPromised /\ Issued
  BY NextIInv DEF IInv, RetriesOK, HRest
<1>1. ASSUME NEW w \in Workers, Pop(w) \/ WorkerStep(w) \/ WorkerChance(w)
      PROVE  HRest' /\ Placed'
  BY <1>0, <1>1, WorkerPlaced, PopKeeps, WorkerKeeps
<1>2. ASSUME NEW g \in Gateways, ReaperStep(g) \/ ReaperChance(g)
      PROVE  HRest' /\ Placed'
  BY <1>0, <1>2, ReaperPlaced, ReaperKeeps
<1>3. ASSUME NEW j \in Jobs, SubmitStep(j)
      PROVE  HRest' /\ Placed'
  BY <1>0, <1>3, SubmitPlaced, SubmitPathKeeps
<1>4. CASE UNCHANGED vars
  BY <1>0, <1>4, StandStill
<1>5. ASSUME NEW e \in Entries, ClaimExpires(e)
      PROVE  HRest' /\ Placed'
  <2>1. claim[e] \in Gateways
    BY <1>0, <1>5 DEF ClaimExpires, TypeOK, RedisTypeOK
  <2> QED
    BY <1>2, <1>5, <2>1 DEF ReaperChance
<1>6. CASE Progress
  BY <1>1, <1>2, <1>3, <1>5, <1>6
     DEF Progress, WorkerChance, ReaperChance, SubmitStep
<1>7. CASE Misfortune
  BY <1>1, <1>2, <1>3, <1>7
     DEF Misfortune, WorkerChance, ReaperChance, SubmitStep
<1> QED
  BY <1>4, <1>6, <1>7 DEF Next

LEMMA HandoverInvariance ==
  ASSUME MaxJobRetries <= 1
  PROVE  Spec => [](IInv /\ HRest /\ Placed)
<1>1. Init => IInv /\ HRest /\ Placed
  BY InitIInv, InitHInv
<1>2. IInv /\ HRest /\ Placed /\ [Next]_vars => (IInv /\ HRest /\ Placed)'
  BY NextIInv, NextHInv
<1> QED
  BY <1>1, <1>2, PTL DEF Spec

\* With at most one retry allowed an entry is on the queue, on one processing
\* list or set aside, never in two of these, whatever dies, lapses, stalls or
\* errors, for any number of workers and replicas (BLMOVE, LMOVE, and an
\* attempt number used once).
THEOREM EntryInOnePlaceAlways ==
  ASSUME MaxJobRetries <= 1
  PROVE  Spec => []EntryInOnePlace
<1>1. Placed => EntryInOnePlace
  BY DEF Placed
<1> QED
  BY <1>1, HandoverInvariance, PTL

\* With at most one retry allowed, a job ComfyUI may have been handed reads
\* executing, unless a gateway's late "queued" write or an unfenced start has
\* rewritten it (run_job, claim_executing).
THEOREM PhaseTruthfulAlways ==
  ASSUME MaxJobRetries <= 1
  PROVE  Spec => []PhaseTruthful
<1>1. HRest => PhaseTruthful
  BY DEF HRest, Truthful, HandedUnderPhase, PhaseTruthful, Doubtful
<1> QED
  BY <1>1, HandoverInvariance, PTL

\* With at most one retry allowed, a workflow reaches ComfyUI twice only
\* through one of those two doors, for any number of workers and replicas and
\* any faults (reap_stranded_job, CLAIM_EXECUTING_LUA).
THEOREM HandedOverOnce ==
  ASSUME MaxJobRetries <= 1
  PROVE  Spec => []SingleHandover
<1>1. IInv /\ HRest => SingleHandover
  <2> SUFFICES ASSUME IInv, HRest, NEW j \in Jobs, handed[j] > 1,
                      j \notin Doubtful
               PROVE  FALSE
    BY DEF SingleHandover, Doubtful
  <2>1. handed[j] <= 1 /\ handed[j] \in Nat
    BY DEF HRest, Truthful, HandedUnderPhase, IInv, TypeOK, HistoryTypeOK
  <2> QED
    BY <2>1
<1> QED
  BY <1>1, HandoverInvariance, PTL

-----------------------------------------------------------------------------
(* The pool keeps the ledger of each job *)

\* Nothing the ledger tells apart has changed.
LedgerStands == UNCHANGED <<starts, handed, bills, requeues, late, stale>>

LEMMA StandsStutters == LedgerStands => [Ledger!Next]_Ledger!vars
BY DEF LedgerStands, Ledger!vars

LEMMA AccrueIsBill ==
  ASSUME IInv, NEW j \in Jobs, Accrue(j),
         UNCHANGED <<starts, handed, requeues, late, stale>>
  PROVE  [Ledger!Next]_Ledger!vars
<1>1. CASE state[j].clock
  <2>1. bills' = [bills EXCEPT ![j] = @ + 1]
    BY <1>1 DEF Accrue
  <2>2. bills[j] < starts[j]
    <3>1. bills[j] + (IF state[j].clock THEN 1 ELSE 0) <= starts[j]
      BY DEF IInv, ClocksAccounted
    <3>2. bills[j] \in Nat /\ starts[j] \in Nat
      BY DEF IInv, TypeOK, HistoryTypeOK
    <3> QED
      BY <1>1, <3>1, <3>2
  <2>3. Ledger!Bill(j)
    BY <2>1, <2>2 DEF Ledger!Bill
  <2> QED
    BY <2>3 DEF Ledger!Next
<1>2. CASE ~ state[j].clock
  BY <1>2, StandsStutters DEF Accrue, LedgerStands
<1> QED
  BY <1>1, <1>2

\* run_job()'s opening HSET: an entry in hand is a clock not yet started.
LEMMA StartIsStart ==
  ASSUME IInv, HRest, NEW w \in Workers, StartJob(w)
  PROVE  Ledger!Next
<1>a. PICK j \in Jobs : j = JobOf(w)
  BY StartMoves DEF IInv
<1>1. starts[j] <= requeues[j]
  <2>1. wk[w].entry \in Tickets(j)
    BY <1>a, StartMoves DEF IInv, Tickets, JobOf
  <2>2. Cardinality(Tickets(j)) # 0
    BY <2>1, TicketsFinite, FS_EmptySet
  <2>3. Taken(j) \in {0, 1}
    BY DEF Taken
  <2>4. starts[j] + Cardinality(Tickets(j)) <= requeues[j] + Taken(j)
    BY DEF HRest, Owed
  <2>5. starts[j] \in Nat /\ requeues[j] \in Nat
    BY DEF IInv, TypeOK, HistoryTypeOK
  <2> QED
    BY <2>2, <2>3, <2>4, <2>5, TicketsFinite
<1>2. starts' = [starts EXCEPT ![j] = @ + 1]
  BY <1>a DEF StartJob
<1>3. (late \cup stale)' \in {late \cup stale, (late \cup stale) \cup {j}}
  BY <1>a DEF StartJob
<1>4. UNCHANGED <<handed, bills, requeues>>
  BY DEF StartJob
<1>5. Ledger!Start(j)
  BY <1>1, <1>2, <1>3, <1>4 DEF Ledger!Start
<1> QED
  BY <1>5 DEF Ledger!Next

\* The POST to ComfyUI, whether it answers or not.
LEMMA SubmitIsHandOver ==
  ASSUME IInv, HRest, NEW w \in Workers, SubmitPrompt(w) \/ SubmitRaises(w)
  PROVE  [Ledger!Next]_Ledger!vars
<1>0. wk[w].pc = "submit" /\ wk[w].entry \in Entries /\ wk[w].entry # None
  BY NoneAssumption
     DEF SubmitPrompt, SubmitRaises, IInv, TypeOK, WorkerTypeOK, WorkerShape, FreePCs
<1>a. PICK j \in Jobs : j = JobOf(w)
  BY <1>0, EntryIsItsParts DEF JobOf
<1>1. UNCHANGED <<starts, bills, requeues, late, stale>>
  BY DEF SubmitPrompt, SubmitRaises
<1>2. handed[j] < starts[j]
  <2>1. w \in Handing(j)
    BY <1>0, <1>a DEF Handing, JobOf
  <2>2. Cardinality(Handing(j)) # 0
    BY <2>1, HandingFinite, FS_EmptySet
  <2>3. handed[j] + Cardinality(Handing(j)) <= starts[j]
    BY DEF HRest, Owed
  <2>4. starts[j] \in Nat /\ handed[j] \in Nat
    BY DEF IInv, TypeOK, HistoryTypeOK
  <2> QED
    BY <2>2, <2>3, <2>4, HandingFinite
<1>3. handed[j] = 0 \/ j \in late \cup stale
  <2> SUFFICES ASSUME j \notin Doubtful PROVE handed[j] = 0
    BY DEF Doubtful
  <2> QED
    BY <1>0, <1>a DEF HRest, Truthful, HandedUnderPhase, At
<1>4. CASE handed' = [handed EXCEPT ![j] = @ + 1]
  <2>1. Ledger!HandOver(j)
    BY <1>1, <1>2, <1>3, <1>4 DEF Ledger!HandOver, Ledger!MayRunAgain
  <2> QED
    BY <2>1 DEF Ledger!Next
<1>5. CASE handed' = [handed EXCEPT ![j] = @ + 0]
  <2>1. handed' = handed
    BY <1>5 DEF IInv, TypeOK, HistoryTypeOK
  <2> QED
    BY <1>1, <2>1, StandsStutters DEF LedgerStands
<1>6. \E n \in {0, 1} : handed' = [handed EXCEPT ![j] = @ + n]
  BY <1>a DEF SubmitPrompt, SubmitRaises
<1> QED
  BY <1>4, <1>5, <1>6

\* The enqueue of a retry: while the breadcrumb can be trusted it said, under
\* the fence, that ComfyUI had not had the job, and nobody could claim it since.
LEMMA RequeueIsRetry ==
  ASSUME IInv, HRest, MaxJobRetries <= 1, NEW g \in Gateways,
         Requeue(g), ~ QueueFull
  PROVE  Ledger!Next
<1>a. PICK j \in Jobs : j = Stranded(g)
  BY RequeueFresh DEF IInv, RetriesOK, HRest
<1>0. rp[g].pc = "requeue"
  BY DEF Requeue
<1>1. requeues[j] = 0
  BY <1>a, <1>0, ArmedIsFirst DEF IInv, RetriesOK
<1>2. requeues[j] < MaxJobRetries
  <2>1. Requeuing(j) # {}
    BY <1>a, <1>0 DEF Requeuing
  <2>2. Cardinality(Requeuing(j)) # 0 /\ Cardinality(Requeuing(j)) \in Nat
    BY <2>1, CountedFinite, FS_EmptySet
  <2>3. requeues[j] + Cardinality(Requeuing(j)) <= MaxJobRetries
    BY DEF IInv, RetriesOK, RetriesPromised
  <2> QED
    BY <1>1, <2>2, <2>3, BoundsAssumption
<1>3. handed[j] = 0 \/ j \in late \cup stale
  <2> SUFFICES ASSUME j \notin Doubtful PROVE handed[j] = 0
    BY DEF Doubtful
  <2>1. HandedUnderPhase(j) /\ Shut(j)
    BY DEF HRest, Truthful
  <2>2. state[j].phase # "executing"
    BY <1>0, <1>1, <1>a, <2>1 DEF Shut, ArmedPCs
  <2>3. handed[j] \in Nat
    BY DEF IInv, TypeOK, HistoryTypeOK
  <2> QED
    BY <2>1, <2>2, <2>3 DEF HandedUnderPhase
<1>4. /\ requeues' = [requeues EXCEPT ![j] = @ + 1]
      /\ UNCHANGED <<starts, handed, bills, late, stale>>
  BY <1>a DEF Requeue, reaperElse
<1>5. Ledger!Retry(j)
  BY <1>2, <1>3, <1>4 DEF Ledger!Retry, Ledger!MayRunAgain
<1> QED
  BY <1>5 DEF Ledger!Next

\* A "queued" written over a job that was already executing.
LEMMA LateIsDoubt ==
  ASSUME IInv, HRest, NEW j \in Jobs, NoteLateSeed(j),
         UNCHANGED <<starts, handed, bills, requeues, stale>>
  PROVE  [Ledger!Next]_Ledger!vars
<1>1. CASE state[j].phase = "executing"
  <2>1. starts[j] > 0
    BY <1>1 DEF HRest, Owed
  <2>2. (late \cup stale)' = (late \cup stale) \cup {j}
    BY <1>1 DEF NoteLateSeed
  <2>3. Ledger!Doubt(j)
    BY <2>1, <2>2 DEF Ledger!Doubt
  <2> QED
    BY <2>3 DEF Ledger!Next
<1>2. CASE state[j].phase # "executing"
  BY <1>2, StandsStutters DEF NoteLateSeed, LedgerStands
<1> QED
  BY <1>1, <1>2

LEMMA WorkerKeepsLedger ==
  ASSUME IInv, HRest, NEW w \in Workers,
         Pop(w) \/ WorkerStep(w) \/ WorkerChance(w)
  PROVE  [Ledger!Next]_Ledger!vars
<1>1. CASE StartJob(w)
  BY <1>1, StartIsStart
<1>2. CASE SubmitPrompt(w) \/ SubmitRaises(w)
  BY <1>2, SubmitIsHandOver
<1>3. CASE BillSubmitter(w)
  <2>1. JobOf(w) \in Jobs
    BY <1>3, HeldByWorker DEF BillSubmitter, FreePCs, IInv, TypeOK
  <2> QED
    BY <1>3, <2>1, AccrueIsBill DEF BillSubmitter
<1>4. CASE Pop(w)
  BY <1>4, StandsStutters DEF Pop, history, LedgerStands
<1>5. CASE /\ WorkerStep(w) \/ WorkerChance(w)
           /\ ~ StartJob(w) /\ ~ SubmitPrompt(w) /\ ~ SubmitRaises(w)
           /\ ~ BillSubmitter(w)
  <2>1. UNCHANGED <<bills, starts>>
    BY <1>5, WorkerCounters DEF IInv
  <2>2. UNCHANGED <<handed, requeues, late, stale>>
    BY <1>5, WorkerKeepsRest
  <2> QED
    BY <2>1, <2>2, StandsStutters DEF LedgerStands
<1> QED
  BY <1>1, <1>2, <1>3, <1>4, <1>5

LEMMA ReaperBills ==
  ASSUME NEW g \in Gateways, ReaperStep(g) \/ ReaperChance(g),
         ~ BillExcluded(g)
  PROVE  UNCHANGED bills
BY DEF ReaperStep, ReadTail, TakeClaim, CheckRequeued, Fence, ReadPhase,
       FetchStranded, CheckDepth, CountRetry, HandBack, Requeue, MarkRequeued,
       AnnounceRetry, WriteOrphanStatus, DropOrphanPayload, EmitOrphanEnd,
       RemoveStranded, Release, Defer, SetAside, ReaperChance, FindDeadList,
       GatewayDies, ReapBlip, ClaimExpires, reaperElse, history

LEMMA ReaperKeepsLedger ==
  ASSUME IInv, HRest, MaxJobRetries <= 1, NEW g \in Gateways,
         ReaperStep(g) \/ ReaperChance(g)
  PROVE  [Ledger!Next]_Ledger!vars
<1> USE DEF IInv
<1>1. CASE Requeue(g) /\ ~ QueueFull
  BY <1>1, RequeueIsRetry
<1>2. CASE MarkRequeued(g)
  <2>1. Stranded(g) \in Jobs
    BY <1>2, HeldByReaper DEF MarkRequeued, TypeOK
  <2> QED
    BY <1>2, <2>1, LateIsDoubt DEF MarkRequeued
<1>3. CASE BillExcluded(g)
  <2>1. Stranded(g) \in Jobs
    BY <1>3, HeldByReaper DEF BillExcluded, TypeOK
  <2> QED
    BY <1>3, <2>1, AccrueIsBill DEF BillExcluded
<1>4. CASE ~ MarkRequeued(g) /\ ~ BillExcluded(g) /\ (Requeue(g) => QueueFull)
  <2>1. UNCHANGED <<handed, starts, stale, late>>
    BY <1>4, ReaperKeepsRest
  <2>2. UNCHANGED <<bills, requeues>>
    BY <1>4, ReaperBills, QueueKept
  <2> QED
    BY <2>1, <2>2, StandsStutters DEF LedgerStands
<1> QED
  BY <1>1, <1>2, <1>3, <1>4

LEMMA SubmitKeepsLedger ==
  ASSUME IInv, HRest, NEW j \in Jobs, SubmitStep(j)
  PROVE  [Ledger!Next]_Ledger!vars
<1>1. CASE WriteState(j)
  BY <1>1, LateIsDoubt DEF WriteState, submitElse
<1>2. CASE Enqueue(j) \/ SubmitDies(j) \/ Cancel(j)
  BY <1>2, StandsStutters DEF Enqueue, SubmitDies, Cancel, submitElse, LedgerStands
<1> QED
  BY <1>1, <1>2 DEF SubmitStep

LEMMA NextKeepsLedger ==
  ASSUME MaxJobRetries <= 1
  PROVE  IInv /\ HRest /\ [Next]_vars => [Ledger!Next]_Ledger!vars
<1> SUFFICES ASSUME IInv, HRest, [Next]_vars PROVE [Ledger!Next]_Ledger!vars
  OBVIOUS
<1>1. ASSUME NEW w \in Workers, Pop(w) \/ WorkerStep(w) \/ WorkerChance(w)
      PROVE  [Ledger!Next]_Ledger!vars
  BY <1>1, WorkerKeepsLedger
<1>2. ASSUME NEW g \in Gateways, ReaperStep(g) \/ ReaperChance(g)
      PROVE  [Ledger!Next]_Ledger!vars
  BY <1>2, ReaperKeepsLedger
<1>3. ASSUME NEW j \in Jobs, SubmitStep(j)
      PROVE  [Ledger!Next]_Ledger!vars
  BY <1>3, SubmitKeepsLedger
<1>4. CASE UNCHANGED vars
  BY <1>4, StandsStutters DEF vars, history, LedgerStands
<1>5. ASSUME NEW e \in Entries, ClaimExpires(e)
      PROVE  [Ledger!Next]_Ledger!vars
  BY <1>5, StandsStutters DEF ClaimExpires, history, LedgerStands
<1>6. CASE Progress
  BY <1>1, <1>2, <1>3, <1>5, <1>6
     DEF Progress, WorkerChance, ReaperChance, SubmitStep
<1>7. CASE Misfortune
  BY <1>1, <1>2, <1>3, <1>7
     DEF Misfortune, WorkerChance, ReaperChance, SubmitStep
<1> QED
  BY <1>4, <1>6, <1>7 DEF Next

\* With at most one retry allowed, everything the workers and the reapers do
\* for a job is a step of JobLedger: one queue entry starts one clock, a
\* workflow is handed over again, or retried, only where its breadcrumb could
\* not be trusted, and each clock is billed once (run_job,
\* requeue_orphaned_job, CLAIM_EXECUTING_LUA, SHOWBACK_ACCRUE_LUA).
THEOREM PoolKeepsLedger ==
  ASSUME MaxJobRetries <= 1
  PROVE  Spec => KeepsLedger
<1>1. Init => Ledger!Init
  BY DEF Init, Zero, Ledger!Init
<1>2. IInv /\ HRest /\ [Next]_vars => [Ledger!Next]_Ledger!vars
  BY NextKeepsLedger
<1> QED
  BY <1>1, <1>2, HandoverInvariance, PTL DEF Spec, KeepsLedger, Ledger!Spec

LedgerTypeOK ==
  /\ starts \in [Jobs -> Nat]
  /\ handed \in [Jobs -> Nat]
  /\ bills \in [Jobs -> Nat]
  /\ requeues \in [Jobs -> Nat]

\* Whoever keeps the ledger hands a workflow to ComfyUI, starts a clock and
\* bills one at most once for the submission and once for each of at most
\* MAX_JOB_RETRIES retries: this follows from the steps of JobLedger alone, for
\* any number of retries (run_job, reap_stranded_job).
THEOREM LedgerBalances == Ledger!Spec => []Ledger!InTheBlack
<1> DEFINE Books == LedgerTypeOK /\ Ledger!InTheBlack
<1>1. Ledger!Init => Books
  BY BoundsAssumption DEF Ledger!Init, LedgerTypeOK, Ledger!InTheBlack
<1>2. Books /\ [Ledger!Next]_Ledger!vars => Books'
  <2> SUFFICES ASSUME Books, [Ledger!Next]_Ledger!vars PROVE Books'
    OBVIOUS
  <2> USE BoundsAssumption DEF LedgerTypeOK, Ledger!InTheBlack
  <2>1. ASSUME NEW j \in Jobs, Ledger!Start(j) PROVE Books'
    BY <2>1 DEF Ledger!Start
  <2>2. ASSUME NEW j \in Jobs, Ledger!HandOver(j) PROVE Books'
    BY <2>2 DEF Ledger!HandOver
  <2>3. ASSUME NEW j \in Jobs, Ledger!Bill(j) PROVE Books'
    BY <2>3 DEF Ledger!Bill
  <2>4. ASSUME NEW j \in Jobs, Ledger!Retry(j) PROVE Books'
    BY <2>4 DEF Ledger!Retry
  <2>5. ASSUME NEW j \in Jobs, Ledger!Doubt(j) PROVE Books'
    BY <2>5 DEF Ledger!Doubt
  <2>6. CASE UNCHANGED Ledger!vars
    BY <2>6 DEF Ledger!vars
  <2> QED
    BY <2>1, <2>2, <2>3, <2>4, <2>5, <2>6 DEF Ledger!Next
<1> QED
  BY <1>1, <1>2, PTL DEF Ledger!Spec

-----------------------------------------------------------------------------
(* A cancel of a job that waits is final: under every fault, and for any    *)
(* number of retries                                                        *)

\* What makes it final: no command clears the flag, and between the check of
\* the flag and the handover a worker already has the job in hand.
WithdrawnOK ==
  \A j \in withdrawn : /\ state[j].cancel
                       /\ \A w \in Workers : ~ At(w, {"claim", "submit"}, j)

LEMMA WorkerCancelStays ==
  ASSUME TypeOK, NEW w \in Workers, Pop(w) \/ WorkerStep(w) \/ WorkerChance(w)
  PROVE  /\ \A j \in Jobs : state'[j].cancel = state[j].cancel
         /\ UNCHANGED withdrawn
<1> USE DEF TypeOK, RedisTypeOK
<1>1. UNCHANGED withdrawn
  BY DEF Pop, WorkerStep, FetchPayload, StartJob, PrologueRaises,
       CheckCancelled, ClaimExecuting, SubmitPrompt, SubmitRaises, PromptEnds,
       RunRaises, CheckOwner, BillSubmitter, WriteStatus, EmitTerminal,
       RemoveEntry, DropPayload, CrashOut, Deregister, history, WorkerChance,
       Heartbeat, HeartbeatExpires, Die, Retire, HeartbeatLapses, WorkerBlip
<1> USE <1>1
<1>2. CASE StartJob(w)
  BY <1>2 DEF StartJob, HSet, JobStates
<1>3. CASE ClaimExecuting(w)
  <2>1. CASE state' = [state EXCEPT ![JobOf(w)].phase = "executing"]
    BY <2>1 DEF JobStates
  <2> QED
    BY <1>3, <2>1 DEF ClaimExecuting
<1>4. CASE BillSubmitter(w)
  BY <1>4 DEF BillSubmitter, Accrue, JobStates
<1>5. CASE WriteStatus(w)
  BY <1>5 DEF WriteStatus, JobStates
<1>6. CASE ~ StartJob(w) /\ ~ ClaimExecuting(w) /\ ~ BillSubmitter(w)
           /\ ~ WriteStatus(w)
  <2>1. UNCHANGED state
    BY <1>6 DEF Pop, WorkerStep, FetchPayload, PrologueRaises,
       CheckCancelled, SubmitPrompt, SubmitRaises, PromptEnds, RunRaises,
       CheckOwner, EmitTerminal, RemoveEntry, DropPayload, CrashOut,
       Deregister, WorkerChance, Heartbeat, HeartbeatExpires, Die, Retire,
       HeartbeatLapses, WorkerBlip, redisVars
  <2> QED
    BY <2>1
<1> QED
  BY <1>1, <1>2, <1>3, <1>4, <1>5, <1>6

LEMMA ReaperCancelStays ==
  ASSUME TypeOK, NEW g \in Gateways, ReaperStep(g) \/ ReaperChance(g)
  PROVE  /\ \A j \in Jobs : state'[j].cancel = state[j].cancel
         /\ UNCHANGED withdrawn
<1> USE DEF TypeOK, RedisTypeOK
<1>1. UNCHANGED withdrawn
  BY DEF ReaperStep, ReadTail, TakeClaim, CheckRequeued, Fence, ReadPhase,
       FetchStranded, CheckDepth, CountRetry, HandBack, Requeue, MarkRequeued,
       AnnounceRetry, BillExcluded, WriteOrphanStatus, DropOrphanPayload,
       EmitOrphanEnd, RemoveStranded, Release, Defer, SetAside, ReaperChance,
       FindDeadList, GatewayDies, ReapBlip, ClaimExpires, history
<1> USE <1>1
<1>2. CASE Fence(g)
  BY <1>2 DEF Fence, JobStates
<1>3. CASE CountRetry(g)
  BY <1>3 DEF CountRetry, JobStates
<1>4. CASE HandBack(g)
  BY <1>4 DEF HandBack, JobStates
<1>5. CASE MarkRequeued(g)
  BY <1>5 DEF MarkRequeued, HSet, JobStates
<1>6. CASE BillExcluded(g)
  BY <1>6 DEF BillExcluded, Accrue, JobStates
<1>7. CASE WriteOrphanStatus(g)
  BY <1>7 DEF WriteOrphanStatus, JobStates
<1>8. CASE ~ Fence(g) /\ ~ CountRetry(g) /\ ~ HandBack(g) /\ ~ MarkRequeued(g)
           /\ ~ BillExcluded(g) /\ ~ WriteOrphanStatus(g)
  <2>1. UNCHANGED state
    BY <1>8 DEF ReaperStep, ReadTail, TakeClaim, CheckRequeued, ReadPhase,
       FetchStranded, CheckDepth, Requeue, AnnounceRetry, DropOrphanPayload,
       EmitOrphanEnd, RemoveStranded, Release, Defer, SetAside, redisVars,
       ReaperChance, FindDeadList, GatewayDies, ReapBlip, ClaimExpires
  <2> QED
    BY <2>1
<1> QED
  BY <1>1, <1>2, <1>3, <1>4, <1>5, <1>6, <1>7, <1>8

\* Nobody comes to a claim but past the check of the flag.
LEMMA OnlyPastTheCheck ==
  ASSUME TypeOK, NEW w \in Workers,
         Pop(w) \/ WorkerStep(w) \/ WorkerChance(w),
         wk'[w].pc \in {"claim", "submit"}
  PROVE  /\ wk'[w].entry = wk[w].entry
         /\ \/ wk[w].pc \in {"claim", "submit"}
            \/ ~ state[JobOf(w)].cancel
<1>0. ~ Pop(w)
  BY PopMoves
<1>1. CASE CheckCancelled(w)
  BY <1>1, WorkerMoves DEF CheckCancelled
<1>2. CASE ClaimExecuting(w)
  BY <1>2, WorkerMoves DEF ClaimExecuting
<1>3. CASE StartJob(w)
  BY <1>3, StartMoves
<1>4. CASE ~ CheckCancelled(w) /\ ~ ClaimExecuting(w) /\ ~ StartJob(w)
  <2>1. CalmWorker(w) /\ CalmHolder(w)
    BY <1>0, <1>4, WorkerIsCalm DEF ClaimWon
  <2>2. ~ CheckCancelled(w) /\ ~ ClaimWon(w)
    BY <1>4 DEF ClaimWon
  <2>3. CASE wk'[w].pc = "submit"
    BY <2>1, <2>3 DEF CalmWorker
  <2>4. CASE wk'[w].pc = "claim"
    <3>1. wk[w].pc \in {"prologue", "claim"} /\ wk'[w].entry = wk[w].entry
      BY <2>1, <2>4 DEF CalmWorker
    <3>2. wk[w].pc # "prologue"
      <4> SUFFICES ASSUME wk[w].pc = "prologue" PROVE FALSE
        OBVIOUS
      <4>1. \/ PrologueRaises(w) \/ Die(w)
            \/ UNCHANGED wk
        BY <1>0, <1>4 DEF WorkerStep, FetchPayload, StartJob, CheckCancelled,
           ClaimExecuting, SubmitPrompt, SubmitRaises, PromptEnds, RunRaises,
           CheckOwner, BillSubmitter, WriteStatus, EmitTerminal, RemoveEntry,
           DropPayload, CrashOut, Deregister, WorkerChance, Heartbeat,
           HeartbeatExpires, Die, Retire, HeartbeatLapses, WorkerBlip
      <4>2. CASE PrologueRaises(w)
        BY <2>4, <4>2, WorkerMoves DEF PrologueRaises
      <4>3. CASE Die(w)
        BY <2>4, <4>3, WorkerMoves DEF Die
      <4> QED
        BY <2>4, <4>1, <4>2, <4>3
    <3> QED
      BY <3>1, <3>2
  <2> QED
    BY <2>3, <2>4
<1> QED
  BY <1>1, <1>2, <1>3, <1>4

LEMMA NextWithdrawn == IInv /\ WithdrawnOK /\ [Next]_vars => WithdrawnOK'
<1> SUFFICES ASSUME IInv, WithdrawnOK, [Next]_vars PROVE WithdrawnOK'
  OBVIOUS
<1>t. TypeOK /\ TypeOK' /\ withdrawn \subseteq Jobs /\ withdrawn' \subseteq Jobs
  BY NextIInv DEF IInv, TypeOK, HistoryTypeOK
<1>1. ASSUME NEW w \in Workers, Pop(w) \/ WorkerStep(w) \/ WorkerChance(w)
      PROVE  WithdrawnOK'
  <2> SUFFICES ASSUME NEW j \in withdrawn'
               PROVE  /\ state'[j].cancel
                      /\ \A v \in Workers : ~ At(v, {"claim", "submit"}, j)'
    BY DEF WithdrawnOK
  <2>1. j \in withdrawn /\ state'[j].cancel /\ state[j].cancel
    BY <1>t, <1>1, WorkerCancelStays DEF WithdrawnOK
  <2>2. \A v \in Workers : ~ At(v, {"claim", "submit"}, j)
    BY <2>1 DEF WithdrawnOK
  <2>3. \A v \in Workers \ {w} : wk'[v] = wk[v]
    <3>1. CASE Pop(w)
      BY <1>t, <3>1, PopMoves
    <3>2. CASE WorkerStep(w) \/ WorkerChance(w)
      BY <1>t, <3>2, OtherWorkersKept
    <3> QED
      BY <1>1, <3>1, <3>2
  <2>4. ~ At(w, {"claim", "submit"}, j)'
    BY <1>t, <1>1, <2>1, <2>2, OnlyPastTheCheck DEF At, JobOf
  <2> QED
    BY <2>1, <2>2, <2>3, <2>4 DEF At, JobOf
<1>2. ASSUME NEW g \in Gateways, ReaperStep(g) \/ ReaperChance(g)
      PROVE  WithdrawnOK'
  <2>1. UNCHANGED <<wk, withdrawn>>
    BY <1>t, <1>2, ReaperKeepsRest, ReaperCancelStays
  <2> QED
    BY <1>t, <1>2, <2>1, ReaperCancelStays DEF WithdrawnOK, At, JobOf
<1>3. ASSUME NEW j \in Jobs, SubmitStep(j) PROVE WithdrawnOK'
  <2>1. UNCHANGED wk
    BY <1>3 DEF SubmitStep, Enqueue, WriteState, SubmitDies, Cancel, submitElse
  <2>2. CASE Cancel(j)
    <3>1. \A i \in Jobs : state'[i].cancel = (i = j \/ state[i].cancel)
      BY <1>t, <2>2 DEF Cancel, TypeOK, RedisTypeOK, JobStates
    <3>2. j \in withdrawn' => j \in withdrawn \/ ~ InHand(j)
      BY <2>2 DEF Cancel
    <3>3. withdrawn' \subseteq withdrawn \cup {j}
      BY <2>2 DEF Cancel
    <3>4. ~ InHand(j) => \A w \in Workers : ~ At(w, {"claim", "submit"}, j)
      BY <1>t, NoneAssumption
         DEF InHand, At, JobOf, TypeOK, WorkerTypeOK, WorkerShape, FreePCs
    <3> QED
      BY <1>t, <2>1, <3>1, <3>2, <3>3, <3>4 DEF WithdrawnOK, At, JobOf
  <2>3. CASE Enqueue(j) \/ WriteState(j) \/ SubmitDies(j)
    <3>1. UNCHANGED withdrawn
      BY <2>3 DEF Enqueue, WriteState, SubmitDies, submitElse
    <3>2. \A i \in Jobs : state'[i].cancel = state[i].cancel
      <4>1. CASE Enqueue(j) \/ SubmitDies(j)
        BY <4>1 DEF Enqueue, SubmitDies, submitElse
      <4>2. CASE WriteState(j)
        BY <1>t, <4>2 DEF WriteState, HSet, TypeOK, RedisTypeOK, JobStates
      <4> QED
        BY <2>3, <4>1, <4>2
    <3> QED
      BY <1>t, <2>1, <3>1, <3>2 DEF WithdrawnOK, At, JobOf
  <2> QED
    BY <1>3, <2>2, <2>3 DEF SubmitStep
<1>4. CASE UNCHANGED vars
  BY <1>4 DEF vars, redisVars, history, WithdrawnOK, At, JobOf
<1>5. ASSUME NEW e \in Entries, ClaimExpires(e) PROVE WithdrawnOK'
  BY <1>5 DEF ClaimExpires, history, WithdrawnOK, At, JobOf
<1>6. CASE Progress
  BY <1>1, <1>2, <1>3, <1>5, <1>6
     DEF Progress, WorkerChance, ReaperChance, SubmitStep
<1>7. CASE Misfortune
  BY <1>1, <1>2, <1>3, <1>7
     DEF Misfortune, WorkerChance, ReaperChance, SubmitStep
<1> QED
  BY <1>4, <1>6, <1>7 DEF Next

\* A job cancelled while it waits, in no worker's hands, is never handed to
\* ComfyUI: under every fault, and whatever retries it had (cancel, run_job's
\* check before the claim, cancel_orphaned_job).
THEOREM WithdrawnStaysAway == Spec => WithdrawnNeverStarts
<1>1. Init => WithdrawnOK
  BY DEF Init, WithdrawnOK
<1>2. IInv /\ WithdrawnOK /\ [Next]_vars =>
        [\A j \in Jobs : j \in withdrawn => handed'[j] = handed[j]]_vars
  <2> SUFFICES ASSUME IInv, WithdrawnOK, Next, NEW j \in Jobs, j \in withdrawn
               PROVE  handed'[j] = handed[j]
    OBVIOUS
  <2>1. ASSUME NEW w \in Workers, SubmitPrompt(w) \/ SubmitRaises(w)
        PROVE  handed'[j] = handed[j]
    <3>1. wk[w].pc = "submit" /\ JobOf(w) # j
      BY <2>1 DEF SubmitPrompt, SubmitRaises, WithdrawnOK, At
    <3>2. \E n \in {0, 1} : handed' = [handed EXCEPT ![JobOf(w)] = @ + n]
      BY <2>1 DEF SubmitPrompt, SubmitRaises
    <3> QED
      BY <3>1, <3>2 DEF IInv, TypeOK, HistoryTypeOK
  <2>2. ASSUME NEW w \in Workers, Pop(w) \/ WorkerStep(w) \/ WorkerChance(w)
        PROVE  handed'[j] = handed[j]
    BY <2>1, <2>2, WorkerKeepsRest DEF Pop, history
  <2>3. ASSUME NEW g \in Gateways, ReaperStep(g) \/ ReaperChance(g)
        PROVE  handed'[j] = handed[j]
    BY <2>3, ReaperKeepsRest
  <2>4. ASSUME NEW i \in Jobs, SubmitStep(i)
        PROVE  handed'[j] = handed[j]
    BY <2>4 DEF SubmitStep, Enqueue, WriteState, SubmitDies, Cancel, submitElse
  <2>5. ASSUME NEW e \in Entries, ClaimExpires(e)
        PROVE  handed'[j] = handed[j]
    BY <2>5 DEF ClaimExpires, history
  <2>6. CASE Progress
    BY <2>2, <2>3, <2>4, <2>5, <2>6
       DEF Progress, WorkerChance, ReaperChance, SubmitStep
  <2>7. CASE Misfortune
    BY <2>2, <2>3, <2>4, <2>7
       DEF Misfortune, WorkerChance, ReaperChance, SubmitStep
  <2> QED
    BY <2>6, <2>7 DEF Next
<1> QED
  BY <1>1, <1>2, NextWithdrawn, Invariance, PTL DEF Spec, WithdrawnNeverStarts

-----------------------------------------------------------------------------
(* The claim on an entry excludes, while no replica outlives its claim *)

\* A reaper inside a reap holds the claim on its entry.
ClaimHeld == \A g \in Gateways : rp[g].pc \in ReapPCs => claim[Held(g)] = g

\* A reaper is inside a reap because it was, or because it has won the claim.
LEMMA ReapEntered ==
  ASSUME TypeOK, NEW g \in Gateways, ReaperStep(g) \/ ReaperChance(g),
         ~ TakeClaim(g), rp'[g].pc \in ReapPCs
  PROVE  /\ rp[g].pc \in ReapPCs /\ rp'[g].entry = rp[g].entry
         /\ ~ Release(g)
         /\ Defer(g) => rp'[g].pc = "setaside"
         /\ ~ SetAside(g)
<1> USE ReaperMoves DEF ReapPCs
<1>1. CASE ReadTail(g) \/ Release(g) \/ \E w \in Workers : FindDeadList(g, w)
  BY <1>1, FindMoves
<1>2. CASE GatewayDies(g) \/ SetAside(g)
  BY <1>2 DEF GatewayDies, SetAside
<1>3. CASE ReapBlip(g)
  BY <1>3 DEF ReapBlip, Release, Defer, SetAside, ReapPCs
<1>4. CASE Defer(g)
  BY <1>4 DEF Defer, Release, SetAside
<1>5. CASE \E e \in Entries : ClaimExpires(e)
  <2>1. rp' = rp
    BY <1>5 DEF ClaimExpires
  <2>2. ~ Release(g) /\ ~ SetAside(g)
    <3>1. rp'[g].pc = "list" \/ ~ Release(g)
      BY FindMoves
    <3> QED
      BY <3>1 DEF SetAside
  <2>3. Defer(g) => rp'[g].pc = "setaside"
    BY DEF Defer
  <2> QED
    BY <2>1, <2>2, <2>3
<1>6. CASE CountRetry(g)
  BY <1>6, CountMoves DEF CountRetry, Release, Defer, SetAside
<1>7. CASE \/ CheckRequeued(g) \/ Fence(g) \/ ReadPhase(g) \/ FetchStranded(g)
           \/ CheckDepth(g) \/ HandBack(g) \/ Requeue(g)
  BY <1>7 DEF CheckRequeued, Fence, ReadPhase, FetchStranded, CheckDepth,
              HandBack, Requeue, Release, Defer, SetAside
<1>8. CASE \/ MarkRequeued(g) \/ AnnounceRetry(g) \/ BillExcluded(g)
           \/ WriteOrphanStatus(g) \/ DropOrphanPayload(g) \/ EmitOrphanEnd(g)
           \/ RemoveStranded(g)
  BY <1>8 DEF MarkRequeued, AnnounceRetry, BillExcluded, WriteOrphanStatus,
              DropOrphanPayload, EmitOrphanEnd, RemoveStranded, Release, Defer,
              SetAside
<1> QED
  BY <1>1, <1>2, <1>3, <1>4, <1>5, <1>6, <1>7, <1>8
     DEF ReaperStep, ReaperChance

\* A claim is set where there was none, and dropped by the reap it is for, or
\* when it expires.
LEMMA ClaimMoves ==
  ASSUME TypeOK, NEW g \in Gateways, ReaperStep(g) \/ ReaperChance(g)
  PROVE  \A e \in Entries :
           \/ claim'[e] = claim[e]
           \/ TakeClaim(g) /\ claim[e] = None
           \/ e = Held(g) /\ (Release(g) \/ Defer(g) \/ SetAside(g))
           \/ ClaimExpires(e)
<1> USE DEF TypeOK, RedisTypeOK
<1>1. CASE TakeClaim(g)
  BY <1>1 DEF TakeClaim
<1>2. CASE Release(g)
  BY <1>2 DEF Release, ForgetClaim
<1>3. CASE SetAside(g)
  BY <1>3 DEF SetAside, ForgetClaim
<1>4. CASE Defer(g)
  BY <1>4 DEF Defer
<1>5. CASE \E e \in Entries : ClaimExpires(e)
  BY <1>5 DEF ClaimExpires
<1>6. CASE ~ TakeClaim(g) /\ ~ Release(g) /\ ~ SetAside(g) /\ ~ Defer(g)
           /\ ~ \E e \in Entries : ClaimExpires(e)
  <2>1. UNCHANGED claim
    BY <1>6 DEF ReaperStep, ReadTail, CheckRequeued, Fence, ReadPhase,
       FetchStranded, CheckDepth, CountRetry, HandBack, Requeue, MarkRequeued,
       AnnounceRetry, BillExcluded, WriteOrphanStatus, DropOrphanPayload,
       EmitOrphanEnd, RemoveStranded, ReaperChance, FindDeadList, GatewayDies,
       ReapBlip, redisVars
  <2> QED
    BY <2>1
<1> QED
  BY <1>1, <1>2, <1>3, <1>4, <1>5, <1>6

LEMMA NextClaimHeld ==
  ASSUME MaxFaults["stall"] = 0
  PROVE  IInv /\ ClaimHeld /\ [Next]_vars => ClaimHeld'
<1> SUFFICES ASSUME IInv, ClaimHeld, [Next]_vars PROVE ClaimHeld'
  OBVIOUS
<1>t. TypeOK /\ TypeOK' /\ faults["stall"] \in Nat
  BY NextIInv DEF IInv, TypeOK, HistoryTypeOK, FaultKinds
<1>n. ~ Fault("stall")
  BY <1>t DEF Fault
<1>1. ASSUME NEW g \in Gateways, ReaperStep(g) \/ ReaperChance(g)
      PROVE  ClaimHeld'
  <2> SUFFICES ASSUME NEW h \in Gateways, rp'[h].pc \in ReapPCs
               PROVE  claim'[rp'[h].entry] = h
    BY DEF ClaimHeld, Held
  <2>1. CASE TakeClaim(g) /\ h = g
    <3>1. rp[g].entry \in Entries /\ g # None
      BY <1>t, <2>1, NoneAssumption
         DEF TakeClaim, TypeOK, ReaperTypeOK, ReaperShape
    <3>2. ~ Rest(g)
      BY <1>t, <2>1, ReaperMoves DEF ReapPCs
    <3>3. claim' = [claim EXCEPT ![Held(g)] = g] /\ Step(g, "check")
      BY <2>1, <3>2 DEF TakeClaim
    <3>4. claim \in [Entries -> Gateways \cup {None}]
      BY <1>t DEF TypeOK, RedisTypeOK
    <3> QED
      BY <1>t, <2>1, <3>1, <3>3, <3>4, ReaperMoves DEF Held
  <2>2. CASE ~ (TakeClaim(g) /\ h = g)
    <3>1. rp[h].pc \in ReapPCs /\ rp'[h].entry = rp[h].entry
      BY <1>t, <1>1, <2>2, ReapEntered, OtherReapersKept
    <3>2. rp[h].entry \in Entries
      BY <1>t, <3>1 DEF TypeOK, ReaperTypeOK, ReaperShape, ReapPCs
    <3>3. claim[rp[h].entry] = h /\ h # None
      BY <3>1, NoneAssumption DEF ClaimHeld, Held
    <3>4. ~ ClaimExpires(rp[h].entry)
      BY <1>n, <3>1, <3>3 DEF ClaimExpires, Reaping, Held
    <3>5. rp[h].entry = Held(g) => ~ Release(g) /\ ~ SetAside(g)
                                   /\ (Defer(g) => claim'[Held(g)] = claim[Held(g)])
      <4> SUFFICES ASSUME rp[h].entry = Held(g)
                   PROVE  ~ Release(g) /\ ~ SetAside(g)
                          /\ (Defer(g) => claim'[Held(g)] = claim[Held(g)])
        OBVIOUS
      <4>1. CASE rp[g].pc \in ReapPCs
        <5>1. g = h
          BY <3>3, <4>1 DEF ClaimHeld, Held
        <5>2. ~ TakeClaim(g)
          BY <4>1 DEF TakeClaim, ReapPCs
        <5>3. ~ Release(g) /\ ~ SetAside(g) /\ (Defer(g) => rp'[g].pc = "setaside")
          BY <1>t, <1>1, <5>1, <5>2, ReapEntered
        <5>4. Defer(g) => ~ Rest(g)
          BY <1>t, <5>3, ReaperMoves
        <5> QED
          BY <5>3, <5>4 DEF Defer
      <4>2. CASE rp[g].pc \notin ReapPCs
        BY <4>2 DEF Release, SetAside, Defer, ReapPCs
      <4> QED
        BY <4>1, <4>2
    <3>6. claim'[rp[h].entry] = claim[rp[h].entry]
      BY <1>t, <1>1, <3>2, <3>3, <3>4, <3>5, ClaimMoves
    <3> QED
      BY <3>1, <3>3, <3>6
  <2> QED
    BY <2>1, <2>2
<1>2. ASSUME UNCHANGED <<rp, claim>> PROVE ClaimHeld'
  BY <1>2 DEF ClaimHeld, Held
<1>3. ASSUME NEW w \in Workers, Pop(w) \/ WorkerStep(w) \/ WorkerChance(w)
      PROVE  ClaimHeld'
  <2>1. UNCHANGED <<rp, claim>>
    BY <1>3 DEF Pop, WorkerStep, FetchPayload, StartJob, PrologueRaises,
       CheckCancelled, ClaimExecuting, SubmitPrompt, SubmitRaises, PromptEnds,
       RunRaises, CheckOwner, BillSubmitter, WriteStatus, EmitTerminal,
       RemoveEntry, DropPayload, CrashOut, Deregister, workerElse, WorkerChance,
       Heartbeat, HeartbeatExpires, Die, Retire, HeartbeatLapses, WorkerBlip,
       redisVars
  <2> QED
    BY <1>2, <2>1
<1>4. ASSUME NEW j \in Jobs, SubmitStep(j) PROVE ClaimHeld'
  BY <1>2, <1>4 DEF SubmitStep, Enqueue, WriteState, SubmitDies, Cancel, submitElse
<1>5. CASE UNCHANGED vars
  BY <1>2, <1>5 DEF vars, redisVars
<1>6. ASSUME NEW e \in Entries, ClaimExpires(e) PROVE ClaimHeld'
  <2>1. claim[e] \in Gateways
    BY <1>t, <1>6 DEF ClaimExpires, TypeOK, RedisTypeOK
  <2> QED
    BY <1>1, <1>6, <2>1 DEF ReaperChance
<1>7. CASE Progress
  BY <1>1, <1>3, <1>4, <1>6, <1>7
     DEF Progress, WorkerChance, ReaperChance, SubmitStep
<1>8. CASE Misfortune
  BY <1>1, <1>3, <1>4, <1>8
     DEF Misfortune, WorkerChance, ReaperChance, SubmitStep
<1> QED
  BY <1>5, <1>7, <1>8 DEF Next

\* As long as no replica stalls past REAP_CLAIM_TTL inside a reap, two replicas
\* are never inside the reap of one entry at once, whatever else dies, lapses
\* or errors (reap_processing_list's claim).
THEOREM ReapsExclude ==
  ASSUME MaxFaults["stall"] = 0
  PROVE  Spec => []ReapExclusive
<1>1. Init => ClaimHeld
  BY DEF Init, IdleReaper, ClaimHeld, ReapPCs
<1>2. ClaimHeld => ReapExclusive
  BY DEF ClaimHeld, ReapExclusive
<1> QED
  BY <1>1, <1>2, NextClaimHeld, Invariance, PTL DEF Spec
=============================================================================
