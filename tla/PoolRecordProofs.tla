--------------------------- MODULE PoolRecordProofs ---------------------------
(***************************************************************************)
(* That the record of a job, and the workflow a queued entry names, are    *)
(* still there when they are needed: for any number of jobs, workers,      *)
(* replicas and deaths, with at most one retry, no heartbeat lapse of a    *)
(* live worker and no reaper that outlives its claim.                      *)
(***************************************************************************)
EXTENDS PoolHandoverProofs

-----------------------------------------------------------------------------
(* Every step is one of these *)

LEMMA StepKinds ==
  ASSUME TypeOK, [Next]_vars
  PROVE  \/ \E w \in Workers : Pop(w)
         \/ \E w \in Workers : WorkerStep(w) \/ WorkerChance(w)
         \/ \E g \in Gateways : ReaperStep(g) \/ ReaperChance(g)
         \/ \E j \in Jobs : SubmitStep(j)
         \/ UNCHANGED vars
<1>1. ASSUME NEW e \in Entries, ClaimExpires(e)
      PROVE  \E g \in Gateways : ReaperChance(g)
  <2>1. claim[e] \in Gateways
    BY <1>1 DEF ClaimExpires, TypeOK, RedisTypeOK
  <2> QED
    BY <1>1, <2>1 DEF ReaperChance
<1>2. CASE Progress
  BY <1>1, <1>2 DEF Progress, WorkerChance, ReaperChance, SubmitStep
<1>3. CASE Misfortune
  BY <1>3 DEF Misfortune, WorkerChance, ReaperChance, SubmitStep
<1> QED
  BY <1>2, <1>3 DEF Next

LEMMA NeverHappens ==
  ASSUME TypeOK, NEW k \in FaultKinds, MaxFaults[k] = 0
  PROVE  ~ Fault(k)
<1>1. faults[k] \in Nat
  BY DEF TypeOK, HistoryTypeOK
<1> QED
  BY <1>1 DEF Fault

-----------------------------------------------------------------------------
(* How a worker moves *)

\* From one step of its job to another, and from its job to nothing.
Moves(w, from, to) ==
  wk[w].pc \in from /\ wk'[w].pc \in to /\ wk'[w].entry = wk[w].entry

Frees(w, from, to) ==
  wk[w].pc \in from /\ wk'[w].pc \in to /\ wk'[w].entry = None

\* A worker opens a job, and goes on with it until it finds the job is not its
\* own or has said how it ended.
JobTable(w) ==
  \/ FetchPayload(w) /\ Moves(w, {"popped"}, {"start"})
  \/ FetchPayload(w) /\ Moves(w, {"popped"}, {"report"}) /\ JobOf(w) \notin payload
  \/ StartJob(w) /\ Moves(w, {"start"}, {"prologue"})
  \/ CheckCancelled(w) /\ Moves(w, {"prologue"}, {"claim", "report"})
  \/ PrologueRaises(w) /\ Moves(w, {"prologue"}, {"report"})
  \/ ClaimExecuting(w) /\ Moves(w, {"claim"}, {"submit"})
  \/ ClaimExecuting(w) /\ Moves(w, {"claim"}, {"remove"}) /\ ~ StillOurs(w)
  \/ SubmitPrompt(w) /\ Moves(w, {"submit"}, {"running"})
  \/ SubmitRaises(w) /\ Moves(w, {"submit"}, {"report"})
  \/ PromptEnds(w) /\ Moves(w, {"running"}, {"report"})
  \/ RunRaises(w) /\ Moves(w, {"running"}, {"report"})
  \/ CheckOwner(w) /\ Moves(w, {"report"}, {"bill"})
  \/ CheckOwner(w) /\ Moves(w, {"report"}, {"remove"}) /\ ~ StillOurs(w)
  \/ BillSubmitter(w) /\ Moves(w, {"bill"}, {"status"})
  \/ WriteStatus(w) /\ Moves(w, {"status"}, {"emit"})
  \/ EmitTerminal(w) /\ Moves(w, {"emit"}, {"remove"})

\* What it does with the entry, and with itself.
EndTable(w) ==
  \/ RemoveEntry(w) /\ Moves(w, {"remove"}, {"drop"})
  \/ RemoveEntry(w) /\ Frees(w, {"remove"}, {"idle"})
  \/ DropPayload(w) /\ Frees(w, {"drop"}, {"idle"})
  \/ CrashOut(w) /\ Frees(w, {"crash"}, {"exit"})
  \/ Deregister(w) /\ Frees(w, {"exit"}, {"gone"})
  \/ Die(w) /\ Frees(w, WorkerPCs \ {"gone", "dead"}, {"dead"})
  \/ Retire(w) /\ Frees(w, {"idle"}, {"exit"})
  \/ (Heartbeat(w) \/ HeartbeatExpires(w) \/ HeartbeatLapses(w)) /\ wk' = wk

\* An error of Redis.
BlipTable(w) ==
  WorkerBlip(w) /\ \/ Moves(w, {"start", "claim", "report", "status", "emit"},
                            {"remove", "report"})
                   \/ Moves(w, {"popped", "report", "status", "emit"}, {"crash"})
                   \/ Moves(w, {"bill"}, {"status"})
                   \/ Frees(w, {"remove", "drop"}, {"idle"})

IsJobStep(w) ==
  \/ FetchPayload(w) \/ StartJob(w) \/ CheckCancelled(w) \/ PrologueRaises(w)
  \/ ClaimExecuting(w) \/ SubmitPrompt(w) \/ SubmitRaises(w) \/ PromptEnds(w)
  \/ RunRaises(w) \/ CheckOwner(w) \/ BillSubmitter(w) \/ WriteStatus(w)
  \/ EmitTerminal(w)

IsEndStep(w) ==
  \/ RemoveEntry(w) \/ DropPayload(w) \/ CrashOut(w) \/ Deregister(w)
  \/ Die(w) \/ Retire(w) \/ Heartbeat(w) \/ HeartbeatExpires(w)
  \/ HeartbeatLapses(w)

LEMMA JobSteps ==
  ASSUME TypeOK, NEW w \in Workers
  PROVE  IsJobStep(w) => JobTable(w)
<1> USE WorkerMoves DEF Moves, JobTable
<1>1. ASSUME FetchPayload(w) PROVE JobTable(w)
  <2>1. wk[w] \in WorkerLocals /\ w \in DOMAIN wk /\ wk[w].pc = "popped"
    BY <1>1 DEF FetchPayload, TypeOK, WorkerTypeOK
  <2>2. CASE wk' = [wk EXCEPT ![w] = [@ EXCEPT !.pc = "start", !.known = TRUE]]
    <3>1. wk'[w] = [wk[w] EXCEPT !.pc = "start", !.known = TRUE]
      BY <2>1, <2>2
    <3> QED
      BY <1>1, <2>1, <3>1 DEF WorkerLocals
  <2>3. CASE Conclude(w, "failed", TRUE) /\ JobOf(w) \notin payload
    BY <1>1, <2>1, <2>3
  <2> QED
    BY <1>1, <2>2, <2>3 DEF FetchPayload
<1>2. StartJob(w) => JobTable(w)
  BY DEF StartJob
<1>3. CheckCancelled(w) \/ PrologueRaises(w) => JobTable(w)
  BY DEF CheckCancelled, PrologueRaises
<1>4. ClaimExecuting(w) => JobTable(w)
  BY DEF ClaimExecuting
<1>5. SubmitPrompt(w) \/ SubmitRaises(w) => JobTable(w)
  BY DEF SubmitPrompt, SubmitRaises
<1>6. PromptEnds(w) \/ RunRaises(w) => JobTable(w)
  BY DEF PromptEnds, RunRaises
<1>7. CheckOwner(w) => JobTable(w)
  BY DEF CheckOwner
<1>8. BillSubmitter(w) \/ WriteStatus(w) \/ EmitTerminal(w) => JobTable(w)
  BY DEF BillSubmitter, WriteStatus, EmitTerminal
<1> QED
  BY <1>1, <1>2, <1>3, <1>4, <1>5, <1>6, <1>7, <1>8 DEF IsJobStep

LEMMA EndSteps ==
  ASSUME TypeOK, NEW w \in Workers
  PROVE  /\ IsEndStep(w) => EndTable(w)
         /\ WorkerBlip(w) => BlipTable(w)
<1> USE WorkerMoves DEF Moves, Frees, EndTable
<1>1. RemoveEntry(w) \/ DropPayload(w) => EndTable(w)
  BY DEF RemoveEntry, DropPayload
<1>2. CrashOut(w) \/ Deregister(w) => EndTable(w)
  BY DEF CrashOut, Deregister
<1>3. Die(w) \/ Retire(w) => EndTable(w)
  BY DEF Die, Retire, TypeOK, WorkerTypeOK, WorkerLocals
<1>4. Heartbeat(w) \/ HeartbeatExpires(w) \/ HeartbeatLapses(w) => EndTable(w)
  BY DEF Heartbeat, HeartbeatExpires, HeartbeatLapses
<1>5. WorkerBlip(w) => BlipTable(w)
  BY DEF WorkerBlip, BlipTable
<1> QED
  BY <1>1, <1>2, <1>3, <1>4, <1>5 DEF IsEndStep

LEMMA WorkerTable ==
  ASSUME TypeOK, NEW w \in Workers, WorkerStep(w) \/ WorkerChance(w)
  PROVE  JobTable(w) \/ EndTable(w) \/ BlipTable(w)
<1>1. IsJobStep(w) \/ IsEndStep(w) \/ WorkerBlip(w)
  BY DEF WorkerStep, WorkerChance, IsJobStep, IsEndStep
<1> QED
  BY <1>1, JobSteps, EndSteps

\* It never comes to hold another entry that way.
LEMMA WorkerHolder ==
  ASSUME TypeOK, NEW w \in Workers, WorkerStep(w) \/ WorkerChance(w)
  PROVE  wk'[w].entry \in {wk[w].entry, None}
BY WorkerTable DEF JobTable, EndTable, BlipTable, Moves, Frees

-----------------------------------------------------------------------------
(* How a reaper moves *)

RMoves(g, from, to) ==
  /\ rp[g].pc \in from /\ rp'[g].pc \in to
  /\ rp'[g].entry = rp[g].entry /\ rp'[g].list = rp[g].list

Rests(g) == rp'[g].pc = "idle" /\ rp'[g].entry = None

\* A reaper finds a list of a dead worker, and reads entries off it.
FindTable(g) ==
  \/ \E w \in Workers \ alive : /\ FindDeadList(g, w)
                                /\ rp'[g].pc = "list" /\ rp'[g].list = w
                                /\ rp'[g].entry = None
  \/ ReadTail(g) /\ Rests(g)
  \/ ReadTail(g) /\ /\ rp[g].pc = "list" /\ rp'[g].pc = "claim"
                    /\ rp'[g].list = rp[g].list
                    /\ rp'[g].entry \in proc[rp[g].list]
  \/ TakeClaim(g) /\ RMoves(g, {"claim"}, {"check"})
  \/ TakeClaim(g) /\ Rests(g)
  \/ Release(g) /\ /\ rp[g].pc = "release" /\ rp'[g].pc = "list"
                   /\ rp'[g].list = rp[g].list /\ rp'[g].entry = None

\* It takes the entry through a reap.
ReapTable(g) ==
  \/ CheckRequeued(g) /\ RMoves(g, {"check"}, {"remove"})
       /\ state[Stranded(g)].requeuedFrom = rp[g].entry
  \/ CheckRequeued(g) /\ RMoves(g, {"check"}, {"fence"})
       /\ state[Stranded(g)].requeuedFrom # rp[g].entry
  \/ Fence(g) /\ RMoves(g, {"fence"}, {"decide"})
  \/ ReadPhase(g) /\ RMoves(g, {"decide"}, {"fetch", "bill"})
  \/ FetchStranded(g) /\ RMoves(g, {"fetch"}, {"depth", "bill"})
  \/ CheckDepth(g) /\ RMoves(g, {"depth"}, {"count", "bill"})
  \/ CountRetry(g) /\ RMoves(g, {"count"}, {"requeue", "handback"})
  \/ HandBack(g) /\ RMoves(g, {"handback"}, {"bill"})
  \/ Requeue(g) /\ RMoves(g, {"requeue"}, {"handback"}) /\ QueueFull
  \/ Requeue(g) /\ RMoves(g, {"requeue"}, {"mark"}) /\ ~ QueueFull
  \/ MarkRequeued(g) /\ RMoves(g, {"mark"}, {"announce"})
  \/ AnnounceRetry(g) /\ RMoves(g, {"announce"}, {"remove"})
  \/ BillExcluded(g) /\ RMoves(g, {"bill"}, {"status"})
  \/ WriteOrphanStatus(g) /\ RMoves(g, {"status"}, {"drop"})
  \/ DropOrphanPayload(g) /\ RMoves(g, {"drop"}, {"emit"})
  \/ EmitOrphanEnd(g) /\ RMoves(g, {"emit"}, {"remove"})
  \/ RemoveStranded(g) /\ RMoves(g, {"remove"}, {"release"})

\* It gives up, or is given up.
StopTable(g) ==
  \/ Defer(g) /\ RMoves(g, {"defer"}, {"setaside"})
  \/ Defer(g) /\ Rests(g)
  \/ SetAside(g) /\ Rests(g)
  \/ GatewayDies(g) /\ Rests(g)
  \/ ReapBlip(g) /\ RMoves(g, ReapPCs, {"defer"})
  \/ ReapBlip(g) /\ RMoves(g, {"bill"}, {"status"})
  \/ ReapBlip(g) /\ Rests(g)
  \/ (\E e \in Entries : ClaimExpires(e)) /\ rp' = rp

IsFindStep(g) ==
  \/ \E w \in Workers : FindDeadList(g, w)
  \/ ReadTail(g) \/ TakeClaim(g) \/ Release(g)

IsReapStep(g) ==
  \/ CheckRequeued(g) \/ Fence(g) \/ ReadPhase(g) \/ FetchStranded(g)
  \/ CheckDepth(g) \/ CountRetry(g) \/ HandBack(g) \/ Requeue(g)
  \/ MarkRequeued(g) \/ AnnounceRetry(g) \/ BillExcluded(g)
  \/ WriteOrphanStatus(g) \/ DropOrphanPayload(g) \/ EmitOrphanEnd(g)
  \/ RemoveStranded(g)

IsStopStep(g) ==
  \/ Defer(g) \/ SetAside(g) \/ GatewayDies(g) \/ ReapBlip(g)
  \/ \E e \in Entries : ClaimExpires(e)

LEMMA ReaperUpdates ==
  ASSUME TypeOK, NEW g \in Gateways
  PROVE  /\ \A pc : Step(g, pc) => /\ rp'[g].pc = pc
                                   /\ rp'[g].entry = rp[g].entry
                                   /\ rp'[g].list = rp[g].list
         /\ \A out : Decide(g, out) => /\ rp'[g].pc = "bill"
                                       /\ rp'[g].entry = rp[g].entry
                                       /\ rp'[g].list = rp[g].list
         /\ Rest(g) => Rests(g)
<1>1. rp \in [Gateways -> ReaperLocals]
  BY DEF TypeOK, ReaperTypeOK
<1>2. ASSUME NEW pc, Step(g, pc)
      PROVE  /\ rp'[g].pc = pc
             /\ rp'[g].entry = rp[g].entry
             /\ rp'[g].list = rp[g].list
  <2>1. rp'[g] = [rp[g] EXCEPT !.pc = pc]
    BY <1>1, <1>2 DEF Step
  <2> QED
    BY <1>1, <2>1 DEF ReaperLocals
<1>3. ASSUME NEW out, Decide(g, out)
      PROVE  /\ rp'[g].pc = "bill"
             /\ rp'[g].entry = rp[g].entry
             /\ rp'[g].list = rp[g].list
  <2>1. rp'[g] = [rp[g] EXCEPT !.pc = "bill", !.out = out]
    BY <1>1, <1>3 DEF Decide
  <2> QED
    BY <1>1, <2>1 DEF ReaperLocals
<1>4. Rest(g) => Rests(g)
  BY <1>1 DEF Rest, IdleReaper, Rests
<1> QED
  BY <1>2, <1>3, <1>4

LEMMA FindSteps ==
  ASSUME TypeOK, NEW g \in Gateways, IsFindStep(g)
  PROVE  FindTable(g)
<1>1. rp \in [Gateways -> ReaperLocals]
  BY DEF TypeOK, ReaperTypeOK
<1>2. ASSUME NEW w \in Workers, FindDeadList(g, w) PROVE FindTable(g)
  <2>1. rp'[g] = [IdleReaper EXCEPT !.pc = "list", !.list = w] /\ w \notin alive
    BY <1>1, <1>2 DEF FindDeadList
  <2> QED
    BY <1>2, <2>1 DEF FindTable, IdleReaper
<1>3. CASE ReadTail(g)
  <2>1. CASE Rest(g)
    BY <1>3, <2>1, ReaperUpdates DEF FindTable
  <2>2. ASSUME NEW e \in proc[rp[g].list], rp[g].pc = "list",
               rp' = [rp EXCEPT ![g] = [@ EXCEPT !.pc = "claim", !.entry = e]]
        PROVE  FindTable(g)
    <3>1. rp'[g] = [rp[g] EXCEPT !.pc = "claim", !.entry = e]
      BY <1>1, <2>2
    <3>2. rp'[g].pc = "claim" /\ rp'[g].entry = e /\ rp'[g].list = rp[g].list
      BY <1>1, <3>1 DEF ReaperLocals
    <3> QED
      BY <1>3, <2>2, <3>2 DEF FindTable
  <2> QED
    BY <1>3, <2>1, <2>2 DEF ReadTail
<1>4. CASE TakeClaim(g)
  BY <1>4, ReaperUpdates DEF TakeClaim, FindTable, RMoves
<1>5. CASE Release(g)
  <2>1. rp'[g] = [IdleReaper EXCEPT !.pc = "list", !.list = rp[g].list]
        /\ rp[g].pc = "release"
    BY <1>1, <1>5 DEF Release
  <2> QED
    BY <1>5, <2>1 DEF FindTable, IdleReaper
<1> QED
  BY <1>2, <1>3, <1>4, <1>5 DEF IsFindStep

LEMMA ReapSteps ==
  ASSUME TypeOK, NEW g \in Gateways, IsReapStep(g)
  PROVE  ReapTable(g)
<1> USE ReaperUpdates DEF RMoves, ReapTable
<1>1. CheckRequeued(g) => ReapTable(g)
  BY DEF CheckRequeued, Held
<1>2. Fence(g) \/ ReadPhase(g) => ReapTable(g)
  BY DEF Fence, ReadPhase
<1>3. FetchStranded(g) \/ CheckDepth(g) => ReapTable(g)
  BY DEF FetchStranded, CheckDepth
<1>4. CountRetry(g) => ReapTable(g)
  <2> SUFFICES ASSUME CountRetry(g) PROVE ReapTable(g)
    OBVIOUS
  <2>1. rp[g] \in ReaperLocals /\ g \in DOMAIN rp /\ rp[g].pc = "count"
    BY DEF CountRetry, TypeOK, ReaperTypeOK
  <2>2. PICK n, pc : /\ rp'[g] = [rp[g] EXCEPT !.attempt = n, !.pc = pc]
                     /\ pc \in {"requeue", "handback"}
    BY <2>1 DEF CountRetry
  <2>3. /\ rp'[g].pc \in {"requeue", "handback"}
        /\ rp'[g].entry = rp[g].entry /\ rp'[g].list = rp[g].list
    BY <2>1, <2>2 DEF ReaperLocals
  <2> QED
    BY <2>1, <2>3
<1>5. HandBack(g) \/ Requeue(g) => ReapTable(g)
  BY DEF HandBack, Requeue
<1>6. MarkRequeued(g) \/ AnnounceRetry(g) => ReapTable(g)
  BY DEF MarkRequeued, AnnounceRetry
<1>7. BillExcluded(g) \/ WriteOrphanStatus(g) => ReapTable(g)
  BY DEF BillExcluded, WriteOrphanStatus
<1>8. DropOrphanPayload(g) \/ EmitOrphanEnd(g) \/ RemoveStranded(g) => ReapTable(g)
  BY DEF DropOrphanPayload, EmitOrphanEnd, RemoveStranded
<1> QED
  BY <1>1, <1>2, <1>3, <1>4, <1>5, <1>6, <1>7, <1>8 DEF IsReapStep

LEMMA StopSteps ==
  ASSUME TypeOK, NEW g \in Gateways, IsStopStep(g)
  PROVE  StopTable(g)
<1> USE ReaperUpdates DEF RMoves, StopTable
<1>1. Defer(g) \/ SetAside(g) => StopTable(g)
  BY DEF Defer, SetAside
<1>2. GatewayDies(g) => StopTable(g)
  BY DEF GatewayDies
<1>3. ReapBlip(g) => StopTable(g)
  BY DEF ReapBlip
<1>4. (\E e \in Entries : ClaimExpires(e)) => StopTable(g)
  BY DEF ClaimExpires
<1> QED
  BY <1>1, <1>2, <1>3, <1>4 DEF IsStopStep

LEMMA ReaperTable ==
  ASSUME TypeOK, NEW g \in Gateways, ReaperStep(g) \/ ReaperChance(g)
  PROVE  FindTable(g) \/ ReapTable(g) \/ StopTable(g)
<1>1. IsFindStep(g) \/ IsReapStep(g) \/ IsStopStep(g)
  BY DEF ReaperStep, ReaperChance, IsFindStep, IsReapStep, IsStopStep
<1> QED
  BY <1>1, FindSteps, ReapSteps, StopSteps

-----------------------------------------------------------------------------
(* What a step of a worker leaves alone *)

LEMMA AppendEnds ==
  ASSUME TypeOK, NEW j \in Jobs, NEW x \in TerminalTypes \cup {"retry"},
         stream' = [stream EXCEPT ![j] = Append(@, x)]
  PROVE  /\ \A i \in Jobs : Ended(i) => Ended(i)'
         /\ x \in TerminalTypes => Ended(j)'
<1>1. /\ stream \in [Jobs -> Seq(TerminalTypes \cup {"retry"})]
      /\ stream'[j] = Append(stream[j], x)
      /\ \A i \in Jobs \ {j} : stream'[i] = stream[i]
  BY DEF TypeOK, RedisTypeOK
<1>2. /\ Len(stream'[j]) = Len(stream[j]) + 1
      /\ stream'[j][Len(stream[j]) + 1] = x
      /\ \A i \in 1 .. Len(stream[j]) : stream'[j][i] = stream[j][i]
      /\ Len(stream[j]) \in Nat
  BY <1>1
<1>3. Ended(j) => Ended(j)'
  BY <1>2 DEF Ended
<1>4. x \in TerminalTypes => Ended(j)'
  BY <1>2 DEF Ended
<1>5. \A i \in Jobs \ {j} : Ended(i) => Ended(i)'
  BY <1>1 DEF Ended
<1> QED
  BY <1>3, <1>4, <1>5

LEMMA WorkerHolds ==
  ASSUME TypeOK, NEW w \in Workers, wk[w].pc \notin FreePCs
  PROVE  wk[w].entry \in Entries /\ wk[w].entry # None /\ JobOf(w) \in Jobs
BY EntryIsItsParts, NoneAssumption DEF TypeOK, WorkerTypeOK, WorkerShape, JobOf

LEMMA WorkerFields ==
  ASSUME TypeOK, NEW w \in Workers, WorkerStep(w) \/ WorkerChance(w)
  PROVE  \A j \in Jobs :
           /\ state'[j].requeuedFrom = state[j].requeuedFrom
           /\ \/ state'[j].owner = state[j].owner
              \/ StartJob(w) /\ j = JobOf(w) /\ state'[j].owner = w
<1> USE DEF TypeOK, RedisTypeOK, JobStates
<1>1. CASE StartJob(w)
  BY <1>1 DEF StartJob, HSet
<1>2. CASE ClaimExecuting(w)
  <2>1. CASE state' = [state EXCEPT ![JobOf(w)].phase = "executing"]
    BY <2>1
  <2> QED
    BY <1>2, <2>1 DEF ClaimExecuting
<1>3. CASE BillSubmitter(w)
  BY <1>3 DEF BillSubmitter, Accrue
<1>4. CASE WriteStatus(w)
  BY <1>4 DEF WriteStatus
<1>5. CASE ~ StartJob(w) /\ ~ ClaimExecuting(w) /\ ~ BillSubmitter(w)
           /\ ~ WriteStatus(w)
  <2>1. UNCHANGED state
    BY <1>5 DEF WorkerStep, FetchPayload, PrologueRaises, CheckCancelled,
       SubmitPrompt, SubmitRaises, PromptEnds, RunRaises, CheckOwner,
       EmitTerminal, RemoveEntry, DropPayload, CrashOut, Deregister,
       WorkerChance, Heartbeat, HeartbeatExpires, Die, Retire, HeartbeatLapses,
       WorkerBlip, redisVars
  <2> QED
    BY <2>1
<1> QED
  BY <1>1, <1>2, <1>3, <1>4, <1>5

LEMMA WorkerFrame ==
  ASSUME TypeOK, NEW w \in Workers, WorkerStep(w) \/ WorkerChance(w)
  PROVE  /\ ~ RemoveEntry(w) /\ ~ CrashOut(w) => UNCHANGED proc
         /\ ~ DropPayload(w) => UNCHANGED payload
         /\ ~ EmitTerminal(w) => UNCHANGED stream
         /\ \/ UNCHANGED alive
            \/ Heartbeat(w) \/ HeartbeatExpires(w) \/ HeartbeatLapses(w)
            \/ Deregister(w)
BY DEF WorkerStep, FetchPayload, StartJob, PrologueRaises, CheckCancelled,
       ClaimExecuting, SubmitPrompt, SubmitRaises, PromptEnds, RunRaises,
       CheckOwner, BillSubmitter, WriteStatus, EmitTerminal, RemoveEntry,
       DropPayload, CrashOut, Deregister, workerElse, WorkerChance, Heartbeat,
       HeartbeatExpires, Die, Retire, HeartbeatLapses, WorkerBlip, redisVars

\* A worker takes its own entry off its own list.
LEMMA WorkerParks ==
  ASSUME TypeOK, NEW w \in Workers, WorkerStep(w) \/ WorkerChance(w)
  PROVE  \A v \in Workers, e \in Entries :
           /\ e \in proc'[v] => e \in proc[v]
           /\ \/ e \in proc[v] => e \in proc'[v]
              \/ v = w /\ e = wk[w].entry /\ (RemoveEntry(w) \/ CrashOut(w))
           /\ RemoveEntry(w) => wk[w].entry \notin proc'[w]
<1>1. CASE RemoveEntry(w) \/ CrashOut(w)
  <2>1. proc' = [proc EXCEPT ![w] = @ \ {wk[w].entry}]
    BY <1>1 DEF RemoveEntry, CrashOut
  <2> QED
    BY <1>1, <2>1 DEF TypeOK, RedisTypeOK
<1>2. CASE ~ RemoveEntry(w) /\ ~ CrashOut(w)
  BY <1>2, WorkerFrame
<1> QED
  BY <1>1, <1>2

LEMMA WorkerStream ==
  ASSUME TypeOK, NEW w \in Workers, WorkerStep(w) \/ WorkerChance(w)
  PROVE  /\ \A j \in Jobs : Ended(j) => Ended(j)'
         /\ EmitTerminal(w) => Ended(JobOf(w))'
<1>1. CASE EmitTerminal(w)
  <2>1. JobOf(w) \in Jobs /\ wk[w].out \in TerminalTypes
    BY <1>1, WorkerHolds
       DEF EmitTerminal, FreePCs, TypeOK, WorkerTypeOK, WorkerShape
  <2>2. stream' = [stream EXCEPT ![JobOf(w)] = Append(@, wk[w].out)]
    BY <1>1 DEF EmitTerminal
  <2>3. PICK x \in TerminalTypes : x = wk[w].out
    BY <2>1
  <2>4. PICK j \in Jobs : j = JobOf(w)
    BY <2>1
  <2>5. (\A i \in Jobs : Ended(i) => Ended(i)') /\ Ended(j)'
    BY <2>2, <2>3, <2>4, AppendEnds
  <2>6. JobOf(w)' = j
    BY <1>1, <2>4, WorkerMoves DEF EmitTerminal, JobOf
  <2> QED
    BY <2>5, <2>6
<1>2. CASE ~ EmitTerminal(w)
  BY <1>2, WorkerFrame DEF Ended
<1> QED
  BY <1>1, <1>2

-----------------------------------------------------------------------------
(* What a step of a reaper leaves alone *)

LEMMA ReaperHolds ==
  ASSUME TypeOK, NEW g \in Gateways, rp[g].pc \notin {"idle", "list"}
  PROVE  /\ rp[g].entry \in Entries /\ rp[g].entry # None
         /\ Stranded(g) \in Jobs /\ Stranded(g) = rp[g].entry.job
         /\ rp[g].list \in Workers
BY EntryIsItsParts, NoneAssumption DEF TypeOK, ReaperTypeOK, ReaperShape, Stranded

LEMMA ReaperFields ==
  ASSUME TypeOK, NEW g \in Gateways, ReaperStep(g) \/ ReaperChance(g)
  PROVE  \A j \in Jobs :
           /\ \/ state'[j].requeuedFrom = state[j].requeuedFrom
              \/ /\ MarkRequeued(g) /\ j = Stranded(g)
                 /\ state'[j].requeuedFrom = rp[g].entry
           /\ \/ state'[j].owner = state[j].owner
              \/ Fence(g) /\ j = Stranded(g)
<1> USE DEF TypeOK, RedisTypeOK, JobStates
<1>1. CASE CountRetry(g)
  BY <1>1 DEF CountRetry
<1>2. CASE HandBack(g)
  BY <1>2 DEF HandBack
<1>3. CASE BillExcluded(g)
  BY <1>3 DEF BillExcluded, Accrue
<1>4. CASE WriteOrphanStatus(g)
  BY <1>4 DEF WriteOrphanStatus
<1>5. CASE Fence(g)
  BY <1>5 DEF Fence
<1>6. CASE MarkRequeued(g)
  BY <1>6 DEF MarkRequeued, HSet, Held
<1>7. CASE ~ CountRetry(g) /\ ~ HandBack(g) /\ ~ BillExcluded(g)
           /\ ~ WriteOrphanStatus(g) /\ ~ Fence(g) /\ ~ MarkRequeued(g)
  <2>1. UNCHANGED state
    BY <1>7 DEF ReaperStep, ReadTail, TakeClaim, CheckRequeued, ReadPhase,
       FetchStranded, CheckDepth, Requeue, AnnounceRetry, DropOrphanPayload,
       EmitOrphanEnd, RemoveStranded, Release, Defer, SetAside, redisVars,
       ReaperChance, FindDeadList, GatewayDies, ReapBlip, ClaimExpires
  <2> QED
    BY <2>1
<1> QED
  BY <1>1, <1>2, <1>3, <1>4, <1>5, <1>6, <1>7

LEMMA ReaperFrame ==
  ASSUME TypeOK, NEW g \in Gateways, ReaperStep(g) \/ ReaperChance(g)
  PROVE  /\ UNCHANGED alive
         /\ ~ RemoveStranded(g) /\ ~ SetAside(g) => UNCHANGED proc
         /\ ~ Requeue(g) /\ ~ DropOrphanPayload(g) => UNCHANGED payload
         /\ ~ AnnounceRetry(g) /\ ~ EmitOrphanEnd(g) => UNCHANGED stream
BY DEF ReaperStep, ReadTail, TakeClaim, CheckRequeued, Fence, ReadPhase,
       FetchStranded, CheckDepth, CountRetry, HandBack, Requeue, MarkRequeued,
       AnnounceRetry, BillExcluded, WriteOrphanStatus, DropOrphanPayload,
       EmitOrphanEnd, RemoveStranded, Release, Defer, SetAside, reaperElse,
       redisVars, ReaperChance, FindDeadList, GatewayDies, ReapBlip,
       ClaimExpires

\* Parked on a processing list or set aside.
Parked(e) == e \in Aside \/ \E w \in Workers : e \in proc[w]

\* A reaper takes the entry it holds off a list, or moves one aside.
LEMMA ReaperParks ==
  ASSUME TypeOK, NEW g \in Gateways, ReaperStep(g) \/ ReaperChance(g)
  PROVE  \A e \in Entries :
           /\ \A v \in Workers : e \in proc'[v] => e \in proc[v]
           /\ e \in Aside => e \in Aside'
           /\ \A v \in Workers : e \in proc[v] =>
                \/ e \in proc'[v]
                \/ /\ v = rp[g].list /\ rp[g].pc # "idle"
                   /\ \/ e \in Aside'
                      \/ RemoveStranded(g) /\ e = rp[g].entry
<1>1. CASE RemoveStranded(g)
  <2>1. proc' = [proc EXCEPT ![rp[g].list] = @ \ {rp[g].entry}]
        /\ Aside' = Aside /\ rp[g].pc # "idle"
    BY <1>1 DEF RemoveStranded, Held, Aside, history
  <2> QED
    BY <1>1, <2>1 DEF TypeOK, RedisTypeOK
<1>2. CASE SetAside(g)
  <2>0. rp[g].pc # "idle"
    BY <1>2 DEF SetAside
  <2>1. CASE proc' = proc /\ Aside' = Aside
    BY <2>1
  <2>2. ASSUME NEW x,
               proc' = [proc EXCEPT ![rp[g].list] = @ \ {x}],
               Aside' = Aside \cup {x}
        PROVE  \A e \in Entries :
                 /\ \A v \in Workers : e \in proc'[v] => e \in proc[v]
                 /\ e \in Aside => e \in Aside'
                 /\ \A v \in Workers : e \in proc[v] =>
                      e \in proc'[v] \/ (v = rp[g].list /\ e \in Aside')
    BY <2>2 DEF TypeOK, RedisTypeOK
  <2>3. \/ proc' = proc /\ Aside' = Aside
        \/ \E x : /\ proc' = [proc EXCEPT ![rp[g].list] = @ \ {x}]
                  /\ Aside' = Aside \cup {x}
    <3>1. CASE UNCHANGED <<proc, undeliverable, trimmed>>
      BY <3>1 DEF Aside
    <3> QED
      BY <1>2, <3>1, SetAsideSets, PutAsideSets
  <2> QED
    BY <2>0, <2>1, <2>2, <2>3
<1>3. CASE ~ RemoveStranded(g) /\ ~ SetAside(g)
  BY <1>3, ReaperFrame, ReaperKeepsRest DEF Aside
<1> QED
  BY <1>1, <1>2, <1>3

LEMMA ReaperStream ==
  ASSUME TypeOK, NEW g \in Gateways, ReaperStep(g) \/ ReaperChance(g)
  PROVE  /\ \A j \in Jobs : Ended(j) => Ended(j)'
         /\ EmitOrphanEnd(g) => Ended(Stranded(g))'
<1>1. CASE EmitOrphanEnd(g)
  <2>1. Stranded(g) \in Jobs /\ rp[g].out \in TerminalTypes
    BY <1>1, ReaperHolds DEF EmitOrphanEnd, TypeOK, ReaperTypeOK, ReaperShape
  <2>2. stream' = [stream EXCEPT ![Stranded(g)] = Append(@, rp[g].out)]
    BY <1>1 DEF EmitOrphanEnd
  <2>3. PICK x \in TerminalTypes : x = rp[g].out
    BY <2>1
  <2>4. PICK j \in Jobs : j = Stranded(g)
    BY <2>1
  <2>5. (\A i \in Jobs : Ended(i) => Ended(i)') /\ Ended(j)'
    BY <2>2, <2>3, <2>4, AppendEnds
  <2>6. Stranded(g)' = j
    BY <1>1, <2>4, ReaperMoves DEF EmitOrphanEnd, Stranded
  <2> QED
    BY <2>5, <2>6
<1>2. CASE AnnounceRetry(g)
  <2>1. Stranded(g) \in Jobs
    BY <1>2, ReaperHolds DEF AnnounceRetry
  <2>2. stream' = [stream EXCEPT ![Stranded(g)] = Append(@, "retry")]
    BY <1>2 DEF AnnounceRetry
  <2>3. ~ EmitOrphanEnd(g)
    BY <1>2 DEF AnnounceRetry, EmitOrphanEnd
  <2>4. PICK j \in Jobs : j = Stranded(g)
    BY <2>1
  <2>5. \A i \in Jobs : Ended(i) => Ended(i)'
    BY <2>2, <2>4, AppendEnds
  <2> QED
    BY <2>3, <2>5
<1>3. CASE ~ AnnounceRetry(g) /\ ~ EmitOrphanEnd(g)
  BY <1>3, ReaperFrame DEF Ended
<1> QED
  BY <1>1, <1>2, <1>3

\* What a submission touches.
LEMMA SubmitFrame ==
  ASSUME TypeOK, NEW j \in Jobs, SubmitStep(j)
  PROVE  /\ UNCHANGED <<stream, proc, undeliverable, trimmed, wk, rp, alive,
                        requeues, fenced>>
         /\ \A i \in Jobs : /\ state'[i].requeuedFrom = state[i].requeuedFrom
                            /\ state'[i].owner = state[i].owner
         /\ payload \subseteq payload'
         /\ ~ Enqueue(j) => UNCHANGED <<queue, payload>>
<1> USE DEF TypeOK, RedisTypeOK, JobStates
<1>1. CASE Enqueue(j)
  BY <1>1 DEF Enqueue, FairEnqueue, submitElse
<1>2. CASE WriteState(j)
  BY <1>2 DEF WriteState, HSet, submitElse, Enqueue
<1>3. CASE SubmitDies(j)
  BY <1>3 DEF SubmitDies, submitElse
<1>4. CASE Cancel(j)
  BY <1>4 DEF Cancel, submitElse
<1> QED
  BY <1>1, <1>2, <1>3, <1>4 DEF SubmitStep

-----------------------------------------------------------------------------
(* What is known of every step *)

\* What holds under any faults, with one retry and no stalled reaper.
Ground == IInv /\ HRest /\ Placed /\ ClaimHeld

LEMMA NextGround ==
  ASSUME MaxJobRetries <= 1, MaxFaults["stall"] = 0
  PROVE  Ground /\ [Next]_vars => Ground'
BY NextIInv, NextHInv, NextClaimHeld DEF Ground

\* The entry of the submission, and the one that is the job's last so far.
First(j) == Entry(j, 0)
Current(j) == Entry(j, IF requeues[j] > 0 THEN 1 ELSE 0)

LEMMA EntryKinds ==
  ASSUME MaxJobRetries <= 1, NEW e \in Entries
  PROVE  /\ e.job \in Jobs
         /\ e = First(e.job) \/ (e = Entry(e.job, 1) /\ e.attempt > 0)
<1>1. e.job \in Jobs /\ e.attempt \in 0 .. MaxJobRetries
  BY EntryIsItsParts
<1>2. e.attempt = 0 \/ e.attempt > 0
  BY <1>1, BoundsAssumption
<1> QED
  BY <1>1, <1>2, FirstAttempt DEF First

LEMMA EntriesDiffer == \A i, j : First(i) # Entry(j, 1)
BY DEF First, Entry

LEMMA FirstsDiffer == \A i, j : First(i).job = i /\ (First(i) = First(j) => i = j)
BY DEF First, Entry

-----------------------------------------------------------------------------
(* Only the lists of the dead are reaped, and a live worker's entry stays    *)
(* parked until it takes it off itself                                       *)

DeadLists ==
  /\ \A w \in Workers \ alive : wk[w].pc \in {"gone", "dead"}
  /\ \A g \in Gateways : rp[g].pc # "idle" => rp[g].list \notin alive

\* A worker at "drop" has removed its entry; any other that holds one has it
\* on its list.
HeldParked ==
  \A w \in Workers :
    /\ wk[w].pc \in FreePCs => wk[w].entry = None
    /\ wk[w].entry # None =>
         IF wk[w].pc = "drop" THEN \A v \in Workers : wk[w].entry \notin proc[v]
                              ELSE wk[w].entry \in proc[w]

LEMMA WorkerDeadLists ==
  ASSUME TypeOK, DeadLists, MaxFaults["lapse"] = 0,
         NEW w \in Workers, WorkerStep(w) \/ WorkerChance(w)
  PROVE  DeadLists'
<1>1. UNCHANGED rp /\ \A v \in Workers \ {w} : wk'[v] = wk[v]
  BY WorkerKeepsRest, OtherWorkersKept
<1>2. ~ HeartbeatLapses(w)
  BY NeverHappens DEF HeartbeatLapses, FaultKinds
<1>3. ~ Heartbeat(w)
  BY DEF Heartbeat, Running, DeadLists
<1>4. CASE Deregister(w)
  <2>1. wk'[w].pc = "gone" /\ alive' = alive \ {w}
    BY <1>4, WorkerMoves DEF Deregister
  <2> QED
    BY <1>1, <2>1 DEF DeadLists
<1>5. CASE HeartbeatExpires(w)
  BY <1>5 DEF HeartbeatExpires, DeadLists
<1>6. CASE ~ Deregister(w) /\ ~ HeartbeatExpires(w)
  <2>1. UNCHANGED alive
    BY <1>2, <1>3, <1>6, WorkerFrame
  <2>2. wk[w].pc \notin {"gone", "dead"}
    BY <1>2, <1>3, <1>6, WorkerTable
       DEF JobTable, EndTable, BlipTable, Moves, Frees
  <2> QED
    BY <1>1, <2>1, <2>2 DEF DeadLists
<1> QED
  BY <1>4, <1>5, <1>6

LEMMA ReaperDeadLists ==
  ASSUME TypeOK, DeadLists, NEW g \in Gateways, ReaperStep(g) \/ ReaperChance(g)
  PROVE  DeadLists'
<1>1. UNCHANGED <<wk, alive>> /\ \A h \in Gateways \ {g} : rp'[h] = rp[h]
  BY ReaperKeepsRest, ReaperFrame, OtherReapersKept
<1>2. \/ rp'[g].pc = "idle"
      \/ rp'[g].list \notin alive
      \/ rp'[g].list = rp[g].list /\ rp[g].pc # "idle"
      \/ rp' = rp
  <2>1. CASE FindTable(g)
    BY <2>1 DEF FindTable, RMoves, Rests
  <2>2. CASE ReapTable(g)
    BY <2>2 DEF ReapTable, RMoves
  <2>3. CASE StopTable(g)
    BY <2>3 DEF StopTable, RMoves, Rests, ReapPCs
  <2> QED
    BY <2>1, <2>2, <2>3, ReaperTable
<1> QED
  BY <1>1, <1>2 DEF DeadLists

LEMMA PopDeadLists ==
  ASSUME TypeOK, DeadLists, NEW w \in Workers, Pop(w)
  PROVE  DeadLists'
<1>1. UNCHANGED <<rp, alive>>
  BY DEF Pop, workerElse
<1> QED
  BY <1>1, PopMoves DEF DeadLists

LEMMA NextDeadLists ==
  ASSUME TypeOK, MaxFaults["lapse"] = 0
  PROVE  DeadLists /\ [Next]_vars => DeadLists'
<1> SUFFICES ASSUME DeadLists, [Next]_vars PROVE DeadLists'
  OBVIOUS
<1>1. ASSUME NEW j \in Jobs, SubmitStep(j) PROVE DeadLists'
  BY <1>1, SubmitFrame DEF DeadLists
<1>2. CASE UNCHANGED vars
  BY <1>2 DEF vars, redisVars, DeadLists
<1> QED
  BY <1>1, <1>2, StepKinds, PopDeadLists, WorkerDeadLists, ReaperDeadLists

\* Two workers that hold entries hold different ones, and the lists they lie
\* on are different lists.
LEMMA WorkerHeldParked ==
  ASSUME TypeOK, HeldParked, Placed, NEW w \in Workers,
         WorkerStep(w) \/ WorkerChance(w)
  PROVE  HeldParked'
<1>1. \A v \in Workers \ {w} : wk'[v] = wk[v]
  BY OtherWorkersKept
<1>2. \A v \in Workers : wk[v].entry \in Entries \cup {None}
  BY DEF TypeOK, WorkerTypeOK, WorkerLocals
<1>3. \A v \in Workers : proc'[v] \subseteq proc[v]
  BY WorkerProcShrinks
<1>4. \A v \in Workers \ {w}, e \in Entries : e \in proc[v] => e \in proc'[v]
  BY WorkerParks
<1>5. ASSUME NEW v \in Workers \ {w}
      PROVE  /\ wk'[v].pc \in FreePCs => wk'[v].entry = None
             /\ wk'[v].entry # None =>
                  IF wk'[v].pc = "drop"
                    THEN \A u \in Workers : wk'[v].entry \notin proc'[u]
                    ELSE wk'[v].entry \in proc'[v]
  BY <1>1, <1>2, <1>3, <1>4, <1>5 DEF HeldParked
<1>6. CASE wk'[w].entry = None
  BY <1>5, <1>6 DEF HeldParked
<1>7. CASE wk'[w].entry # None
  <2>1. CASE RemoveEntry(w) /\ Moves(w, {"remove"}, {"drop"})
    <3>1. /\ wk[w].pc = "remove" /\ wk'[w].pc = "drop"
          /\ wk'[w].entry = wk[w].entry /\ wk[w].entry \in Entries
      BY <1>2, <1>7, <2>1 DEF Moves
    <3>2. wk[w].entry \in proc[w]
      BY <1>7, <3>1 DEF HeldParked
    <3>3. wk[w].entry \notin proc'[w]
      BY <2>1, <3>1, WorkerParks
    <3>4. \A u \in Workers \ {w} : wk[w].entry \notin proc'[u]
      BY <1>3, <3>2 DEF Placed, EntryInOnePlace
    <3> QED
      BY <1>5, <3>1, <3>3, <3>4 DEF HeldParked, FreePCs
  <2>2. CASE ~ (RemoveEntry(w) /\ Moves(w, {"remove"}, {"drop"}))
    <3>1. /\ wk'[w].entry = wk[w].entry
          /\ \/ wk'[w].pc \notin FreePCs /\ wk'[w].pc # "drop"
                /\ wk[w].pc # "drop" /\ ~ RemoveEntry(w) /\ ~ CrashOut(w)
             \/ wk' = wk /\ ~ RemoveEntry(w) /\ ~ CrashOut(w)
      <4>1. CASE JobTable(w)
        BY <1>7, <4>1 DEF JobTable, Moves, FreePCs, RemoveEntry, CrashOut
      <4>2. CASE BlipTable(w)
        BY <1>7, <4>2 DEF BlipTable, Moves, Frees, FreePCs, RemoveEntry, CrashOut
      <4>3. CASE EndTable(w)
        <5>1. (Heartbeat(w) \/ HeartbeatExpires(w) \/ HeartbeatLapses(w)) /\ wk' = wk
          BY <1>7, <2>2, <4>3 DEF EndTable, Moves, Frees
        <5>2. UNCHANGED proc
          BY <5>1 DEF Heartbeat, HeartbeatExpires, HeartbeatLapses
        <5>3. ~ RemoveEntry(w) /\ ~ CrashOut(w)
          <6>1. UNCHANGED wk
            BY <5>1
          <6>2. CrashOut(w) => wk[w].pc = "crash" /\ wk'[w].pc = "exit"
            BY WorkerMoves DEF CrashOut
          <6>3. RemoveEntry(w) => wk'[w].pc # wk[w].pc
            BY WorkerMoves DEF RemoveEntry
          <6> QED
            BY <6>1, <6>2, <6>3
        <5> QED
          BY <5>1, <5>3
      <4> QED
        BY <4>1, <4>2, <4>3, WorkerTable
    <3>2. UNCHANGED proc
      BY <3>1, WorkerFrame
    <3>3. wk'[w].pc \in FreePCs => wk'[w].entry = None
      BY <3>1 DEF HeldParked
    <3>4. IF wk'[w].pc = "drop"
            THEN \A u \in Workers : wk'[w].entry \notin proc'[u]
            ELSE wk'[w].entry \in proc'[w]
      BY <1>7, <3>1, <3>2 DEF HeldParked
    <3> QED
      BY <1>5, <3>3, <3>4 DEF HeldParked
  <2> QED
    BY <2>1, <2>2
<1> QED
  BY <1>6, <1>7

LEMMA PopHeldParked ==
  ASSUME TypeOK, HeldParked, Placed, NEW w \in Workers, Pop(w)
  PROVE  HeldParked'
<1>1. PICK e \in queue :
        /\ wk'[w].pc = "popped" /\ wk'[w].entry = e
        /\ \A v \in Workers \ {w} : wk'[v] = wk[v]
        /\ proc'[w] = proc[w] \cup {e}
        /\ \A v \in Workers \ {w} : proc'[v] = proc[v]
  BY PopMoves
<1>2. \A v \in Workers : wk[v].entry # None => wk[v].entry # e
  BY DEF Placed, OneHolder
<1> QED
  BY <1>1, <1>2 DEF HeldParked, FreePCs

LEMMA ReaperHeldParked ==
  ASSUME TypeOK, DeadLists, HeldParked, NEW g \in Gateways,
         ReaperStep(g) \/ ReaperChance(g)
  PROVE  HeldParked'
<1>1. UNCHANGED wk
  BY ReaperKeepsRest
<1>2. \A v \in Workers : proc'[v] \subseteq proc[v]
  BY ReaperProcShrinks
<1>3. ASSUME NEW w \in Workers, wk[w].entry # None, wk[w].pc # "drop"
      PROVE  wk[w].entry \in proc'[w]
  <2>1. wk[w].entry \in Entries /\ wk[w].entry \in proc[w]
    BY <1>3 DEF HeldParked, TypeOK, WorkerTypeOK, WorkerLocals
  <2>2. w \in alive
    BY <1>3 DEF DeadLists, HeldParked, FreePCs
  <2>3. ~ (w = rp[g].list /\ rp[g].pc # "idle")
    BY <2>2 DEF DeadLists
  <2> QED
    BY <2>1, <2>3, ReaperParks
<1> QED
  BY <1>1, <1>2, <1>3 DEF HeldParked

LEMMA NextHeldParked ==
  ASSUME TypeOK, DeadLists, Placed
  PROVE  HeldParked /\ [Next]_vars => HeldParked'
<1> SUFFICES ASSUME HeldParked, [Next]_vars PROVE HeldParked'
  OBVIOUS
<1>1. ASSUME NEW j \in Jobs, SubmitStep(j) PROVE HeldParked'
  BY <1>1, SubmitFrame DEF HeldParked
<1>2. CASE UNCHANGED vars
  BY <1>2 DEF vars, redisVars, HeldParked
<1> QED
  BY <1>1, <1>2, StepKinds, PopHeldParked, WorkerHeldParked, ReaperHeldParked

-----------------------------------------------------------------------------
(* What a reap has looked at is in no worker's hands, nor waits for one *)

InReap(e) == e \in fenced \/ \E g \in Gateways : rp[g].entry = e

Apart ==
  \A e \in Entries :
    InReap(e) => e \notin queue /\ \A w \in Workers : wk[w].entry # e

\* What lies on a list of the dead is held by no worker and not queued.
LEMMA DeadIsApart ==
  ASSUME TypeOK, DeadLists, HeldParked, Placed, NEW v \in Workers \ alive,
         NEW e \in proc[v]
  PROVE  e \notin queue /\ \A w \in Workers : wk[w].entry # e
<1>1. e \notin queue
  BY DEF Placed, EntryInOnePlace
<1>2. ASSUME NEW w \in Workers, wk[w].entry = e PROVE FALSE
  <2>1. wk[w].entry # None
    BY <1>2, NoneAssumption DEF TypeOK, RedisTypeOK
  <2>2. wk[w].pc # "drop" /\ e \in proc[w]
    BY <1>2, <2>1 DEF HeldParked
  <2>3. w = v
    BY <2>2 DEF Placed, EntryInOnePlace
  <2>4. wk[v].pc \in FreePCs
    BY DEF DeadLists, FreePCs
  <2> QED
    BY <2>1, <2>3, <2>4 DEF HeldParked
<1> QED
  BY <1>1, <1>2

LEMMA WorkerApart ==
  ASSUME TypeOK, Apart, NEW w \in Workers, WorkerStep(w) \/ WorkerChance(w)
  PROVE  Apart'
<1>1. UNCHANGED <<queue, fenced, rp>>
  BY WorkerKeepsRest
<1>2. \A v \in Workers : wk'[v].entry \in {wk[v].entry, None}
  BY WorkerHolder, OtherWorkersKept
<1>3. \A e \in Entries : e # None
  BY NoneAssumption
<1> QED
  BY <1>1, <1>2, <1>3 DEF Apart, InReap

LEMMA PopApart ==
  ASSUME TypeOK, Apart, NEW w \in Workers, Pop(w)
  PROVE  Apart'
<1>1. UNCHANGED <<fenced, rp>>
  BY DEF Pop, workerElse, history
<1> QED
  BY <1>1, PopMoves DEF Apart, InReap

LEMMA ReaperApart ==
  ASSUME TypeOK, RetriesPromised, Issued, Placed, DeadLists, HeldParked, Apart,
         MaxJobRetries <= 1, NEW g \in Gateways, ReaperStep(g) \/ ReaperChance(g)
  PROVE  Apart'
<1>1. UNCHANGED wk /\ \A h \in Gateways \ {g} : rp'[h] = rp[h]
  BY ReaperKeepsRest, OtherReapersKept
<1>2. \A e \in Entries : InReap(e)' =>
        e \notin queue /\ \A w \in Workers : wk[w].entry # e
  <2> SUFFICES ASSUME NEW e \in Entries, InReap(e)', ~ InReap(e)
               PROVE  e \notin queue /\ \A w \in Workers : wk[w].entry # e
    BY DEF Apart
  <2>1. e \notin fenced'
    <3>1. CASE Fence(g)
      BY <3>1 DEF Fence, Held, InReap
    <3>2. CASE ~ Fence(g)
      BY <3>2, ReaperKeepsRest DEF InReap
    <3> QED
      BY <3>1, <3>2
  <2>2. rp'[g].entry = e /\ rp[g].entry # e /\ e # None
    BY <1>1, <2>1, NoneAssumption DEF InReap
  <2>3. PICK v \in Workers \ alive : e \in proc[v]
    <3>1. rp[g].pc = "list" /\ rp'[g].entry \in proc[rp[g].list]
      <4>1. FindTable(g)
        BY <2>2, ReaperTable DEF ReapTable, StopTable, RMoves, Rests
      <4> QED
        BY <2>2, <4>1 DEF FindTable, RMoves, Rests
    <3>2. rp[g].list \in Workers \ alive
      BY <3>1 DEF DeadLists, TypeOK, ReaperTypeOK, ReaperShape
    <3> QED
      BY <2>2, <3>1, <3>2
  <2> QED
    BY <2>3, DeadIsApart
<1>3. \A e \in Entries : InReap(e)' /\ e \in queue' => e \in queue
  <2>1. CASE Requeue(g) /\ ~ QueueFull
    <3>1. queue' = queue \cup {Entry(Stranded(g), 1)}
      BY <2>1, RequeueFresh
    <3>2. ~ InReap(Entry(Stranded(g), 1))
      BY <2>1, RequeueFresh DEF Traced, InReap
    <3>3. \A e : InReap(e)' => InReap(e)
      <4>1. rp'[g].entry = rp[g].entry /\ UNCHANGED fenced
        BY <2>1, ReaperMoves DEF Requeue
      <4> QED
        BY <1>1, <4>1 DEF InReap
    <3> QED
      BY <3>1, <3>2, <3>3
  <2>2. CASE ~ Requeue(g) \/ QueueFull
    <3>1. UNCHANGED queue
      BY <2>2, ReaperKeepsRest DEF Requeue
    <3> QED
      BY <3>1
  <2> QED
    BY <2>1, <2>2
<1> QED
  BY <1>1, <1>2, <1>3 DEF Apart

LEMMA SubmitApart ==
  ASSUME TypeOK, Issued, Apart, NEW j \in Jobs, SubmitStep(j)
  PROVE  Apart'
<1>1. UNCHANGED <<wk, rp, fenced>>
  BY SubmitFrame
<1>2. CASE Enqueue(j) /\ ~ QueueFull
  <2>1. queue' = queue \cup {Entry(j, 0)}
    BY <1>2, EnqueueFresh
  <2>2. ~ InReap(Entry(j, 0)) /\ \A w \in Workers : wk[w].entry # Entry(j, 0)
    BY <1>2, EnqueueFresh DEF Traced, InReap
  <2> QED
    BY <1>1, <2>1, <2>2 DEF Apart, InReap
<1>3. CASE ~ Enqueue(j) \/ QueueFull
  <2>1. UNCHANGED queue
    BY <1>3, SubmitFrame DEF Enqueue
  <2> QED
    BY <1>1, <2>1 DEF Apart, InReap
<1> QED
  BY <1>2, <1>3

LEMMA NextApart ==
  ASSUME Ground, DeadLists, HeldParked, MaxJobRetries <= 1
  PROVE  Apart /\ [Next]_vars => Apart'
<1> SUFFICES ASSUME Apart, [Next]_vars PROVE Apart'
  OBVIOUS
<1>1. TypeOK /\ RetriesPromised /\ Issued /\ Placed
  BY DEF Ground, IInv, RetriesOK, HRest
<1>2. CASE UNCHANGED vars
  BY <1>2 DEF vars, redisVars, history, Apart, InReap
<1> QED
  BY <1>1, <1>2, StepKinds, PopApart, WorkerApart, ReaperApart, SubmitApart

\* So an entry some worker may still start is the job's last.
LEMMA LiveIsCurrent ==
  ASSUME TypeOK, Issued, Apart, MaxJobRetries <= 1, NEW e \in Entries,
         e \in queue \/ \E w \in Workers : wk[w].entry = e
  PROVE  e = Current(e.job)
<1>1. Traced(e) /\ ~ InReap(e)
  BY DEF Traced, Apart
<1>2. CASE e = First(e.job)
  <2>1. ~ (requeues[e.job] > 0)
    BY <1>1, <1>2, EntryKinds DEF Issued, InReap, First
  <2> QED
    BY <1>2, <2>1 DEF Current, First
<1>3. CASE e = Entry(e.job, 1) /\ e.attempt > 0
  BY <1>1, <1>3 DEF Issued, Current
<1> QED
  BY <1>2, <1>3, EntryKinds

-----------------------------------------------------------------------------
(* The mark says which entry was retried *)

RequeueMarks ==
  /\ \A j \in Jobs : state[j].requeuedFrom # None =>
       state[j].requeuedFrom = First(j) /\ requeues[j] > 0
  /\ \A g \in Gateways : rp[g].pc = "mark" =>
       rp[g].entry = First(Stranded(g)) /\ requeues[Stranded(g)] > 0

\* A reap goes past its first look only with an entry not retried yet.
UnmarkedPCs == {"fence", "decide", "fetch", "depth", "count", "handback",
                "requeue", "bill", "status", "drop", "emit"}
Unmarked ==
  \A g \in Gateways : rp[g].pc \in UnmarkedPCs =>
    state[Stranded(g)].requeuedFrom # rp[g].entry

Marks == RequeueMarks /\ Unmarked

LEMMA RequeueIsFirst ==
  ASSUME TypeOK, RetriesPromised, Issued, MaxJobRetries <= 1,
         NEW g \in Gateways, Requeue(g), ~ QueueFull
  PROVE  rp[g].entry = First(Stranded(g))
<1>1. rp[g].pc = "requeue"
  BY DEF Requeue
<1>2. rp[g].entry \in Entries /\ Stranded(g) = rp[g].entry.job
  BY <1>1, ReaperHolds
<1>3. requeues[Stranded(g)] = 0
  BY RequeueFresh
<1>4. Traced(rp[g].entry)
  BY DEF Traced
<1>5. ~ (rp[g].entry.attempt > 0)
  BY <1>2, <1>3, <1>4 DEF Issued
<1> QED
  BY <1>2, <1>5, EntryKinds

\* Outside the reapers nothing moves that the marks are about.
LEMMA StillMarks ==
  ASSUME TypeOK, Marks, UNCHANGED <<rp, requeues>>,
         \A j \in Jobs : state'[j].requeuedFrom = state[j].requeuedFrom
  PROVE  Marks'
<1>1. \A g \in Gateways : Stranded(g)' = Stranded(g)
  BY DEF Stranded
<1>2. RequeueMarks'
  BY <1>1 DEF Marks, RequeueMarks, First
<1>3. \A g \in Gateways : rp[g].pc \in UnmarkedPCs => Stranded(g) \in Jobs
  BY ReaperHolds DEF UnmarkedPCs
<1>4. Unmarked'
  BY <1>1, <1>3 DEF Marks, Unmarked
<1> QED
  BY <1>2, <1>4 DEF Marks

LEMMA RequeueMarked ==
  ASSUME TypeOK, RetriesPromised, Issued, Marks, MaxJobRetries <= 1,
         NEW g \in Gateways, ReaperStep(g) \/ ReaperChance(g)
  PROVE  RequeueMarks'
<1>1. \A h \in Gateways \ {g} : rp'[h] = rp[h]
  BY OtherReapersKept
<1>2. \A j \in Jobs : requeues[j] > 0 => requeues'[j] > 0
  <2>1. CASE Requeue(g) /\ ~ QueueFull
    BY <2>1, RequeueFresh DEF TypeOK, HistoryTypeOK
  <2>2. CASE ~ Requeue(g) \/ QueueFull
    <3>1. UNCHANGED requeues
      BY <2>2, ReaperKeepsRest DEF Requeue
    <3> QED
      BY <3>1
  <2> QED
    BY <2>1, <2>2
<1>3. ASSUME NEW j \in Jobs, state'[j].requeuedFrom # None
      PROVE  state'[j].requeuedFrom = First(j) /\ requeues'[j] > 0
  <2>1. CASE state'[j].requeuedFrom = state[j].requeuedFrom
    BY <1>2, <1>3, <2>1 DEF Marks, RequeueMarks
  <2>2. CASE /\ MarkRequeued(g) /\ j = Stranded(g)
             /\ state'[j].requeuedFrom = rp[g].entry
    <3>1. rp[g].pc = "mark"
      BY <2>2 DEF MarkRequeued
    <3> QED
      BY <1>2, <2>2, <3>1 DEF Marks, RequeueMarks
  <2> QED
    BY <2>1, <2>2, ReaperFields
<1>4. ASSUME NEW h \in Gateways, rp'[h].pc = "mark"
      PROVE  rp'[h].entry = First(rp'[h].entry.job) /\ requeues'[rp'[h].entry.job] > 0
  <2>1. CASE rp'[h] = rp[h]
    <3>1. Stranded(h) \in Jobs
      BY <1>4, <2>1, ReaperHolds
    <3> QED
      BY <1>2, <1>4, <2>1, <3>1 DEF Marks, RequeueMarks, Stranded
  <2>2. CASE h = g /\ rp'[g] # rp[g]
    <3>1. RMoves(g, {"requeue"}, {"mark"}) /\ Requeue(g) /\ ~ QueueFull
      <4>1. CASE FindTable(g)
        BY <1>4, <2>2, <4>1 DEF FindTable, RMoves, Rests
      <4>2. CASE ReapTable(g)
        BY <1>4, <2>2, <4>2 DEF ReapTable, RMoves
      <4>3. CASE StopTable(g)
        BY <1>4, <2>2, <4>3 DEF StopTable, RMoves, Rests
      <4> QED
        BY <4>1, <4>2, <4>3, ReaperTable
    <3>2. rp[g].entry = First(Stranded(g)) /\ Stranded(g) \in Jobs
      BY <3>1, RequeueFresh, RequeueIsFirst
    <3>3. requeues'[Stranded(g)] > 0
      BY <3>1, RequeueFresh DEF TypeOK, HistoryTypeOK
    <3> QED
      BY <2>2, <3>1, <3>2, <3>3 DEF RMoves, Stranded
  <2> QED
    BY <1>1, <2>1, <2>2
<1> QED
  BY <1>3, <1>4 DEF RequeueMarks, Stranded, First

LEMMA ReapStaysUnmarked ==
  ASSUME TypeOK, Marks, ClaimHeld, NEW g \in Gateways,
         ReaperStep(g) \/ ReaperChance(g)
  PROVE  Unmarked'
<1>1. \A h \in Gateways \ {g} : rp'[h] = rp[h]
  BY OtherReapersKept
<1> SUFFICES ASSUME NEW h \in Gateways, rp'[h].pc \in UnmarkedPCs
             PROVE  state'[rp'[h].entry.job].requeuedFrom # rp'[h].entry
  BY DEF Unmarked, Stranded
<1>2. /\ rp'[h].entry = rp[h].entry /\ rp[h].pc \in UnmarkedPCs \cup {"check"}
      /\ state[rp[h].entry.job].requeuedFrom # rp[h].entry
  <2>1. CASE rp'[h] = rp[h]
    BY <2>1 DEF Marks, Unmarked, Stranded
  <2>2. CASE h = g /\ rp'[g] # rp[g]
    <3>1. CASE FindTable(g)
      BY <2>2, <3>1 DEF FindTable, RMoves, Rests, UnmarkedPCs
    <3>2. CASE ReapTable(g)
      <4>1. CASE RMoves(g, UnmarkedPCs, ReaperPCs)
        BY <2>2, <4>1 DEF RMoves, Marks, Unmarked, Stranded
      <4>2. CASE /\ RMoves(g, {"check"}, {"fence"})
                 /\ state[Stranded(g)].requeuedFrom # rp[g].entry
        BY <2>2, <4>2 DEF RMoves, Stranded
      <4> QED
        BY <2>2, <3>2, <4>1, <4>2
           DEF ReapTable, RMoves, UnmarkedPCs, ReaperPCs, ReapPCs
    <3>3. CASE StopTable(g)
      <4>1. RMoves(g, {"bill"}, {"status"})
        BY <2>2, <3>3 DEF StopTable, RMoves, Rests, UnmarkedPCs
      <4> QED
        BY <2>2, <4>1 DEF RMoves, Marks, Unmarked, Stranded, UnmarkedPCs
    <3> QED
      BY <3>1, <3>2, <3>3, ReaperTable
  <2> QED
    BY <1>1, <2>1, <2>2
<1>3. rp[h].pc \in ReapPCs /\ rp[h].pc # "mark"
  BY <1>2 DEF UnmarkedPCs, ReapPCs
<1>4. rp[h].entry \in Entries /\ rp[h].entry.job \in Jobs
  BY <1>3, ReaperHolds DEF ReapPCs
<1>5. CASE MarkRequeued(g)
  <2>1. rp[g].pc = "mark" /\ rp[g].pc \in ReapPCs
    BY <1>5 DEF MarkRequeued, ReapPCs
  <2>2. rp[g].entry # rp[h].entry
    BY <1>3, <2>1 DEF ClaimHeld, Held
  <2> QED
    BY <1>2, <1>4, <2>2, ReaperFields
<1>6. CASE ~ MarkRequeued(g)
  BY <1>2, <1>4, <1>6, ReaperFields
<1> QED
  BY <1>5, <1>6

LEMMA NextMarks ==
  ASSUME Ground, MaxJobRetries <= 1
  PROVE  Marks /\ [Next]_vars => Marks'
<1> SUFFICES ASSUME Marks, [Next]_vars PROVE Marks'
  OBVIOUS
<1>1. TypeOK /\ RetriesPromised /\ Issued /\ ClaimHeld
  BY DEF Ground, IInv, RetriesOK, HRest
<1>2. ASSUME NEW w \in Workers, Pop(w) PROVE Marks'
  <2>1. UNCHANGED <<rp, requeues, state>>
    BY <1>2 DEF Pop, workerElse, history
  <2> QED
    BY <1>1, <2>1, StillMarks
<1>3. ASSUME NEW w \in Workers, WorkerStep(w) \/ WorkerChance(w) PROVE Marks'
  BY <1>1, <1>3, StillMarks, WorkerKeepsRest, WorkerFields
<1>4. ASSUME NEW g \in Gateways, ReaperStep(g) \/ ReaperChance(g) PROVE Marks'
  BY <1>1, <1>4, RequeueMarked, ReapStaysUnmarked DEF Marks
<1>5. ASSUME NEW j \in Jobs, SubmitStep(j) PROVE Marks'
  BY <1>1, <1>5, StillMarks, SubmitFrame
<1>6. CASE UNCHANGED vars
  <2>1. UNCHANGED <<rp, requeues, state>>
    BY <1>6 DEF vars, redisVars, history
  <2> QED
    BY <1>1, <2>1, StillMarks
<1> QED
  BY <1>1, <1>2, <1>3, <1>4, <1>5, <1>6, StepKinds

-----------------------------------------------------------------------------
(* The workflow of a job that somebody will fetch                            *)

\* The job's retry is on the queue or past it, and no mark will ever say so:
\* the gateway died, or its reap failed, between the two.
Fallback(j) ==
  /\ requeues[j] > 0
  /\ state[j].requeuedFrom = None
  /\ \A g \in Gateways : rp[g].pc = "mark" => rp[g].entry # First(j)

\* A worker will fetch the workflow.
ToFetch(j) ==
  \/ Current(j) \in queue
  \/ \E w \in Workers : wk[w].pc = "popped" /\ wk[w].entry = Current(j)

PayloadKept == \A j \in Jobs : ToFetch(j) => j \in payload \/ Fallback(j)

\* Once that has happened to a job it cannot be undone: there is no second
\* retry to mark.
LEMMA FallbackStays ==
  ASSUME TypeOK, RetriesPromised, Issued, Marks, MaxJobRetries <= 1,
         [Next]_vars, NEW j \in Jobs, Fallback(j)
  PROVE  Fallback(j)'
<1>1. ASSUME UNCHANGED <<rp, requeues>>,
             \A i \in Jobs : state'[i].requeuedFrom = state[i].requeuedFrom
      PROVE  Fallback(j)'
  BY <1>1 DEF Fallback, First
<1>2. ASSUME NEW w \in Workers, Pop(w) PROVE Fallback(j)'
  <2>1. UNCHANGED <<rp, requeues, state>>
    BY <1>2 DEF Pop, workerElse, history
  <2> QED
    BY <1>1, <2>1
<1>3. ASSUME NEW w \in Workers, WorkerStep(w) \/ WorkerChance(w)
      PROVE  Fallback(j)'
  BY <1>1, <1>3, WorkerKeepsRest, WorkerFields
<1>4. ASSUME NEW g \in Gateways, ReaperStep(g) \/ ReaperChance(g)
      PROVE  Fallback(j)'
  <2>1. ~ (MarkRequeued(g) /\ j = Stranded(g))
    BY DEF MarkRequeued, Marks, RequeueMarks, Fallback
  <2>2. state'[j].requeuedFrom = None
    BY <1>4, <2>1, ReaperFields DEF Fallback
  <2>3. requeues'[j] > 0
    <3>1. CASE Requeue(g) /\ ~ QueueFull
      BY <3>1, RequeueFresh DEF Fallback, TypeOK, HistoryTypeOK
    <3>2. CASE ~ Requeue(g) \/ QueueFull
      BY <1>4, <3>2, ReaperKeepsRest DEF Requeue, Fallback
    <3> QED
      BY <3>1, <3>2
  <2>4. ASSUME NEW h \in Gateways, rp'[h].pc = "mark", rp'[h].entry = First(j)
        PROVE  FALSE
    <3>1. h = g /\ rp'[g] # rp[g]
      BY <1>4, <2>4, OtherReapersKept DEF Fallback
    <3>2. RMoves(g, {"requeue"}, {"mark"}) /\ Requeue(g) /\ ~ QueueFull
      <4>1. CASE FindTable(g)
        BY <2>4, <3>1, <4>1 DEF FindTable, RMoves, Rests
      <4>2. CASE ReapTable(g)
        BY <2>4, <3>1, <4>2 DEF ReapTable, RMoves
      <4>3. CASE StopTable(g)
        BY <2>4, <3>1, <4>3 DEF StopTable, RMoves, Rests
      <4> QED
        BY <1>4, <4>1, <4>2, <4>3, ReaperTable
    <3>3. Stranded(g) = j
      BY <2>4, <3>1, <3>2, FirstsDiffer DEF RMoves, Stranded
    <3>4. requeues[j] = 0
      BY <3>2, <3>3, RequeueFresh
    <3> QED
      BY <3>4 DEF Fallback
  <2> QED
    BY <2>2, <2>3, <2>4 DEF Fallback, First
<1>5. ASSUME NEW i \in Jobs, SubmitStep(i) PROVE Fallback(j)'
  BY <1>1, <1>5, SubmitFrame
<1>6. CASE UNCHANGED vars
  <2>1. UNCHANGED <<rp, requeues, state>>
    BY <1>6 DEF vars, redisVars, history
  <2> QED
    BY <1>1, <2>1
<1> QED
  BY <1>2, <1>3, <1>4, <1>5, <1>6, StepKinds

\* A worker deletes the workflow under an entry it has removed, which was the
\* last of its job: nobody else is to fetch it.
LEMMA WorkerDropsOwn ==
  ASSUME TypeOK, Issued, Placed, Apart, MaxJobRetries <= 1,
         NEW w \in Workers, DropPayload(w)
  PROVE  ~ ToFetch(JobOf(w))
<1>1. wk[w].pc = "drop" /\ wk[w].entry \in Entries /\ wk[w].entry # None
  BY WorkerHolds DEF DropPayload, FreePCs
<1>2. wk[w].entry = Current(JobOf(w))
  BY <1>1, LiveIsCurrent DEF JobOf
<1>3. wk[w].entry \notin queue
  BY <1>1 DEF Placed, OneHolder
<1>4. \A v \in Workers : wk[v].pc = "popped" => wk[v].entry # wk[w].entry
  BY <1>1 DEF Placed, OneHolder
<1> QED
  BY <1>2, <1>3, <1>4 DEF ToFetch

\* A reap that gives an entry up deletes the workflow under it; if there is
\* another entry to fetch it for, that entry was never marked.
LEMMA ReaperDropsOwn ==
  ASSUME TypeOK, Issued, Apart, Marks, ClaimHeld, MaxJobRetries <= 1,
         NEW g \in Gateways, DropOrphanPayload(g)
  PROVE  ToFetch(Stranded(g)) => Fallback(Stranded(g))
<1>1. /\ rp[g].pc = "drop" /\ rp[g].entry \in Entries
      /\ Stranded(g) \in Jobs /\ Stranded(g) = rp[g].entry.job
  BY ReaperHolds DEF DropOrphanPayload
<1> SUFFICES ASSUME ToFetch(Stranded(g)) PROVE Fallback(Stranded(g))
  OBVIOUS
<1>2. InReap(rp[g].entry) /\ Traced(rp[g].entry)
  BY DEF InReap, Traced
<1>3. rp[g].entry # Current(Stranded(g))
  BY <1>1, <1>2 DEF ToFetch, Apart
<1>4. rp[g].entry = First(Stranded(g)) /\ requeues[Stranded(g)] > 0
  <2>1. CASE rp[g].entry = Entry(Stranded(g), 1) /\ rp[g].entry.attempt > 0
    BY <1>1, <1>2, <1>3, <2>1 DEF Issued, Current
  <2>2. CASE rp[g].entry = First(Stranded(g))
    BY <1>3, <2>2 DEF Current, First
  <2> QED
    BY <1>1, <2>1, <2>2, EntryKinds
<1>5. state[Stranded(g)].requeuedFrom = None
  BY <1>1, <1>4 DEF Marks, Unmarked, RequeueMarks, UnmarkedPCs
<1>6. ASSUME NEW h \in Gateways, rp[h].pc = "mark", rp[h].entry = First(Stranded(g))
      PROVE  FALSE
  <2>1. rp[h].pc \in ReapPCs /\ rp[g].pc \in ReapPCs
    BY <1>1, <1>6 DEF ReapPCs
  <2>2. g = h
    BY <1>4, <1>6, <2>1 DEF ClaimHeld, Held
  <2> QED
    BY <1>1, <1>6, <2>2
<1> QED
  BY <1>4, <1>5, <1>6 DEF Fallback

LEMMA NextPayloadKept ==
  ASSUME Ground, Apart, Marks, MaxJobRetries <= 1
  PROVE  PayloadKept /\ [Next]_vars => PayloadKept'
<1> SUFFICES ASSUME PayloadKept, [Next]_vars, NEW j \in Jobs, ToFetch(j)',
                    ~ Fallback(j)'
             PROVE  j \in payload'
  BY DEF PayloadKept
<1>0. TypeOK /\ RetriesPromised /\ Issued /\ Placed /\ ClaimHeld
  BY DEF Ground, IInv, RetriesOK, HRest
<1>f. ~ Fallback(j)
  BY <1>0, FallbackStays
<1>1. ASSUME ToFetch(j), payload \subseteq payload' PROVE j \in payload'
  BY <1>f, <1>1 DEF PayloadKept
<1>2. ASSUME NEW w \in Workers, Pop(w) PROVE j \in payload'
  <2>1. UNCHANGED <<payload, requeues>>
    BY <1>2 DEF Pop, workerElse, history
  <2>2. ToFetch(j)
    BY <1>0, <1>2, <2>1, PopMoves DEF ToFetch, Current
  <2> QED
    BY <1>1, <2>1, <2>2
<1>3. ASSUME NEW w \in Workers, WorkerStep(w) \/ WorkerChance(w)
      PROVE  j \in payload'
  <2>1. \A v \in Workers : wk'[v].pc = "popped" => wk'[v] = wk[v]
    <3>1. wk'[w].pc = "popped" => wk'[w] = wk[w]
      BY <1>0, <1>3, WorkerTable DEF JobTable, EndTable, BlipTable, Moves, Frees
    <3> QED
      BY <1>0, <1>3, <3>1, OtherWorkersKept
  <2>2. UNCHANGED <<queue, requeues>>
    BY <1>3, WorkerKeepsRest
  <2>3. ToFetch(j)
    BY <2>1, <2>2 DEF ToFetch, Current
  <2>4. CASE DropPayload(w)
    <3>1. JobOf(w) # j
      BY <1>0, <2>3, <2>4, WorkerDropsOwn
    <3> QED
      BY <1>f, <2>3, <2>4, <3>1 DEF DropPayload, PayloadKept
  <2>5. CASE ~ DropPayload(w)
    BY <1>0, <1>1, <1>3, <2>3, <2>5, WorkerFrame
  <2> QED
    BY <2>4, <2>5
<1>4. ASSUME NEW g \in Gateways, ReaperStep(g) \/ ReaperChance(g)
      PROVE  j \in payload'
  <2>1. CASE Requeue(g) /\ ~ QueueFull
    <3>1. payload' = payload \cup {Stranded(g)}
      BY <2>1 DEF Requeue, FairEnqueue, Entry, Stranded
    <3>2. CASE j # Stranded(g)
      <4>1. UNCHANGED wk /\ requeues'[j] = requeues[j]
        BY <1>0, <1>4, <2>1, <3>2, ReaperKeepsRest, RequeueFresh
           DEF TypeOK, HistoryTypeOK
      <4>2. queue' = queue \cup {Entry(Stranded(g), 1)}
        BY <1>0, <2>1, RequeueFresh
      <4>3. Current(j)' = Current(j) /\ Current(j) # Entry(Stranded(g), 1)
        BY <3>2, <4>1 DEF Current, Entry
      <4>4. ToFetch(j)
        BY <4>1, <4>2, <4>3 DEF ToFetch
      <4> QED
        BY <1>1, <3>1, <4>4
    <3> QED
      BY <3>1, <3>2
  <2>2. CASE ~ Requeue(g) \/ QueueFull
    <3>1. UNCHANGED <<wk, queue, requeues>>
      BY <1>4, <2>2, ReaperKeepsRest DEF Requeue
    <3>2. ToFetch(j)
      BY <3>1 DEF ToFetch, Current
    <3>3. CASE DropOrphanPayload(g)
      <4>1. Stranded(g) # j
        BY <1>0, <1>f, <3>2, <3>3, ReaperDropsOwn
      <4> QED
        BY <1>f, <3>2, <3>3, <4>1 DEF DropOrphanPayload, PayloadKept
    <3>4. CASE ~ DropOrphanPayload(g)
      <4>1. payload' = payload
        BY <1>0, <1>4, <2>2, <3>4, ReaperFrame DEF Requeue
      <4> QED
        BY <1>1, <3>2, <4>1
    <3> QED
      BY <3>3, <3>4
  <2> QED
    BY <2>1, <2>2
<1>5. ASSUME NEW i \in Jobs, SubmitStep(i) PROVE j \in payload'
  <2>1. UNCHANGED <<wk, requeues>> /\ payload \subseteq payload'
    BY <1>0, <1>5, SubmitFrame
  <2>2. CASE Enqueue(i) /\ ~ QueueFull
    <3>1. payload' = payload \cup {i} /\ queue' = queue \cup {Entry(i, 0)}
      BY <2>2 DEF Enqueue, FairEnqueue, Entry
    <3>2. CASE j # i
      <4>1. Current(j)' = Current(j) /\ Current(j) # Entry(i, 0)
        BY <2>1, <3>2 DEF Current, Entry
      <4>2. ToFetch(j)
        BY <2>1, <3>1, <4>1 DEF ToFetch
      <4> QED
        BY <1>1, <2>1, <4>2
    <3> QED
      BY <3>1, <3>2
  <2>3. CASE ~ Enqueue(i) \/ QueueFull
    <3>1. UNCHANGED queue
      BY <1>0, <1>5, <2>3, SubmitFrame DEF Enqueue
    <3>2. ToFetch(j)
      BY <2>1, <3>1 DEF ToFetch, Current
    <3> QED
      BY <1>1, <2>1, <3>2
  <2> QED
    BY <2>2, <2>3
<1>6. CASE UNCHANGED vars
  <2>1. UNCHANGED <<payload, wk, queue, requeues>>
    BY <1>6 DEF vars, redisVars, history
  <2>2. ToFetch(j)
    BY <2>1 DEF ToFetch, Current
  <2> QED
    BY <1>1, <2>1, <2>2
<1> QED
  BY <1>0, <1>2, <1>3, <1>4, <1>5, <1>6, StepKinds

-----------------------------------------------------------------------------
(* The invariant so far *)

FetchInv == Ground /\ DeadLists /\ HeldParked /\ Apart /\ Marks /\ PayloadKept

LEMMA InitFetchInv == Init => FetchInv
<1> SUFFICES ASSUME Init PROVE FetchInv
  OBVIOUS
<1>1. IInv /\ HRest /\ Placed
  BY InitIInv, InitHInv
<1>2. ClaimHeld /\ DeadLists
  BY DEF Init, ClaimHeld, DeadLists, IdleReaper, ReapPCs
<1>3. HeldParked
  BY DEF Init, HeldParked, IdleWorker
<1>4. Apart
  BY NoneAssumption DEF Init, Apart, InReap, IdleReaper
<1>5. Marks
  BY DEF Init, Marks, RequeueMarks, Unmarked, UnmarkedPCs, IdleReaper, NewJob
<1>6. PayloadKept
  BY DEF Init, PayloadKept, ToFetch, IdleWorker
<1> QED
  BY <1>1, <1>2, <1>3, <1>4, <1>5, <1>6 DEF FetchInv, Ground

LEMMA NextFetchInv ==
  ASSUME MaxJobRetries <= 1, MaxFaults["lapse"] = 0, MaxFaults["stall"] = 0
  PROVE  FetchInv /\ [Next]_vars => FetchInv'
<1> SUFFICES ASSUME FetchInv, [Next]_vars PROVE FetchInv'
  OBVIOUS
<1> USE DEF FetchInv
<1>1. Ground' /\ TypeOK /\ Placed
  BY NextGround DEF Ground, IInv
<1>2. DeadLists' /\ HeldParked'
  BY <1>1, NextDeadLists, NextHeldParked
<1>3. Apart' /\ Marks' /\ PayloadKept'
  BY NextApart, NextMarks, NextPayloadKept
<1> QED
  BY <1>1, <1>2, <1>3

-----------------------------------------------------------------------------
(* A workflow for every entry on the queue *)

Unbroken == \A j \in Jobs : ~ Fallback(j)

\* Only a gateway's death or an error of its reap leaves a retry unmarked.
LEMMA NextUnbroken ==
  ASSUME TypeOK, RetriesPromised, Issued, MaxJobRetries <= 1,
         MaxFaults["gateway"] = 0, MaxFaults["reapblip"] = 0
  PROVE  Unbroken /\ [Next]_vars => Unbroken'
<1> SUFFICES ASSUME Unbroken, [Next]_vars, NEW j \in Jobs, Fallback(j)'
             PROVE  FALSE
  BY DEF Unbroken
<1>1. ASSUME UNCHANGED <<rp, requeues>>,
             \A i \in Jobs : state'[i].requeuedFrom = state[i].requeuedFrom
      PROVE  FALSE
  BY <1>1 DEF Fallback, First, Unbroken
<1>2. ASSUME NEW w \in Workers, Pop(w) PROVE FALSE
  <2>1. UNCHANGED <<rp, requeues, state>>
    BY <1>2 DEF Pop, workerElse, history
  <2> QED
    BY <1>1, <2>1
<1>3. ASSUME NEW w \in Workers, WorkerStep(w) \/ WorkerChance(w) PROVE FALSE
  BY <1>1, <1>3, WorkerKeepsRest, WorkerFields
<1>4. ASSUME NEW g \in Gateways, ReaperStep(g) \/ ReaperChance(g) PROVE FALSE
  <2>1. CASE Requeue(g) /\ ~ QueueFull /\ j = Stranded(g)
    <3>1. rp'[g].pc = "mark" /\ rp'[g].entry = First(j)
      BY <2>1, ReaperMoves, RequeueIsFirst DEF Requeue
    <3> QED
      BY <3>1 DEF Fallback, First
  <2>2. CASE ~ (Requeue(g) /\ ~ QueueFull /\ j = Stranded(g))
    <3>1. requeues'[j] = requeues[j]
      <4>1. CASE Requeue(g) /\ ~ QueueFull
        BY <2>2, <4>1, RequeueFresh DEF TypeOK, HistoryTypeOK
      <4>2. CASE ~ Requeue(g) \/ QueueFull
        BY <1>4, <4>2, ReaperKeepsRest DEF Requeue
      <4> QED
        BY <4>1, <4>2
    <3>2. state[j].requeuedFrom = None
      <4>1. CASE MarkRequeued(g) /\ j = Stranded(g)
        <5>1. rp[g].entry # None
          BY <4>1, ReaperHolds DEF MarkRequeued
        <5>2. state'[j].requeuedFrom = rp[g].entry
          BY <4>1 DEF MarkRequeued, HSet, Held, TypeOK, RedisTypeOK, JobStates
        <5> QED
          BY <5>1, <5>2 DEF Fallback
      <4>2. CASE ~ (MarkRequeued(g) /\ j = Stranded(g))
        BY <1>4, <4>2, ReaperFields DEF Fallback
      <4> QED
        BY <4>1, <4>2
    <3>3. PICK h \in Gateways : rp[h].pc = "mark" /\ rp[h].entry = First(j)
      BY <3>1, <3>2 DEF Unbroken, Fallback
    <3>4. h = g /\ rp'[g] # rp[g]
      BY <1>4, <3>3, OtherReapersKept DEF Fallback, First
    <3>5. MarkRequeued(g)
      <4>1. ~ GatewayDies(g) /\ ~ ReapBlip(g)
        BY NeverHappens DEF GatewayDies, ReapBlip, FaultKinds
      <4>2. CASE FindTable(g)
        BY <3>3, <3>4, <4>2 DEF FindTable, FindDeadList, ReadTail, TakeClaim, RMoves
      <4>3. CASE ReapTable(g)
        BY <3>3, <3>4, <4>3 DEF ReapTable, RMoves
      <4>4. CASE StopTable(g)
        BY <3>3, <3>4, <4>1, <4>4 DEF StopTable, RMoves, Defer, SetAside
      <4> QED
        BY <1>4, <4>2, <4>3, <4>4, ReaperTable
    <3>6. j = Stranded(g)
      BY <3>3, <3>4, FirstsDiffer DEF Stranded
    <3>7. rp[g].entry # None
      BY <3>5, ReaperHolds DEF MarkRequeued
    <3>8. state'[j].requeuedFrom = rp[g].entry
      BY <3>5, <3>6 DEF MarkRequeued, HSet, Held, TypeOK, RedisTypeOK, JobStates
    <3> QED
      BY <3>7, <3>8 DEF Fallback
  <2> QED
    BY <2>1, <2>2
<1>5. ASSUME NEW i \in Jobs, SubmitStep(i) PROVE FALSE
  BY <1>1, <1>5, SubmitFrame
<1>6. CASE UNCHANGED vars
  <2>1. UNCHANGED <<rp, requeues, state>>
    BY <1>6 DEF vars, redisVars, history
  <2> QED
    BY <1>1, <2>1
<1> QED
  BY <1>2, <1>3, <1>4, <1>5, <1>6, StepKinds

\* What a queued entry names is in Redis, or the job's mark can never come.
LEMMA WorkflowOrUnmarked ==
  ASSUME FetchInv, MaxJobRetries <= 1, NEW e \in queue
  PROVE  e.job \in Jobs /\ (e.job \in payload \/ Fallback(e.job))
<1>1. TypeOK /\ Issued /\ Apart /\ e \in Entries
  BY DEF FetchInv, Ground, IInv, HRest, TypeOK, RedisTypeOK
<1>2. e = Current(e.job) /\ e.job \in Jobs
  BY <1>1, LiveIsCurrent, EntryKinds
<1> QED
  BY <1>2 DEF FetchInv, PayloadKept, ToFetch

\* With at most one retry allowed, heartbeats that stop only with their worker
\* and claims that outlive their reaps, the one way to a queued entry without
\* its workflow is requeue_orphaned_job()'s: a retry on the queue whose mark
\* will never be written, because the gateway died or its reap failed between
\* the two.  Any deaths and any errors of Redis are allowed.
THEOREM OnlyUnmarkedRetriesLose ==
  ASSUME MaxJobRetries <= 1, MaxFaults["lapse"] = 0, MaxFaults["stall"] = 0
  PROVE  Spec => [](\A e \in queue : e.job \in payload \/ Fallback(e.job))
<1>1. FetchInv => \A e \in queue : e.job \in payload \/ Fallback(e.job)
  BY WorkflowOrUnmarked
<1> QED
  BY <1>1, InitFetchInv, NextFetchInv, PTL DEF Spec

\* With at most one retry allowed and gateways that neither die nor err inside
\* a reap, the workflow every entry on the queue names is in Redis, whichever
\* workers die or meet errors of Redis, and for any number of them: neither a
\* worker's clean-up nor a reap deletes a payload a retry is waiting for
\* (fair_enqueue_call, main's clean-up, fail_orphaned_job).
THEOREM QueuedHavePayload ==
  ASSUME MaxJobRetries <= 1,
         MaxFaults["lapse"] = 0, MaxFaults["stall"] = 0,
         MaxFaults["gateway"] = 0, MaxFaults["reapblip"] = 0
  PROVE  Spec => []PayloadForQueued
<1>1. Init => FetchInv /\ Unbroken
  <2>1. Init => Unbroken
    BY DEF Init, Unbroken, Fallback, Zero
  <2> QED
    BY <2>1, InitFetchInv
<1>2. FetchInv /\ Unbroken /\ [Next]_vars => (FetchInv /\ Unbroken)'
  BY NextFetchInv, NextUnbroken DEF FetchInv, Ground, IInv, RetriesOK, HRest
<1>3. FetchInv /\ Unbroken => PayloadForQueued
  BY WorkflowOrUnmarked DEF Unbroken, PayloadForQueued
<1> QED
  BY <1>1, <1>2, <1>3, PTL DEF Spec

-----------------------------------------------------------------------------
(* What a reap has looked at stays parked until the job has ended or its     *)
(* retry is marked                                                           *)

RemovalDue ==
  \A g \in Gateways :
    /\ rp[g].pc = "announce" => state[Stranded(g)].requeuedFrom = rp[g].entry
    /\ rp[g].pc = "remove" => \/ Ended(Stranded(g))
                              \/ state[Stranded(g)].requeuedFrom = rp[g].entry

StillParked ==
  \A e \in Entries :
    InReap(e) => Ended(e.job) \/ state[e.job].requeuedFrom = e \/ Parked(e)

\* Every mark of a job names the same entry.
LEMMA MarkedStays ==
  ASSUME TypeOK, Marks, [Next]_vars, NEW e \in Entries,
         state[e.job].requeuedFrom = e
  PROVE  state'[e.job].requeuedFrom = e
<1>1. e.job \in Jobs /\ e # None
  BY EntryIsItsParts, NoneAssumption
<1>2. e = First(e.job)
  BY <1>1 DEF Marks, RequeueMarks
<1>3. ASSUME NEW g \in Gateways, ReaperStep(g) \/ ReaperChance(g)
      PROVE  state'[e.job].requeuedFrom = e
  <2>1. CASE MarkRequeued(g) /\ e.job = Stranded(g)
    <3>1. rp[g].entry = First(e.job)
      BY <2>1 DEF MarkRequeued, Marks, RequeueMarks
    <3> QED
      BY <1>1, <1>2, <1>3, <3>1, ReaperFields
  <2>2. CASE ~ (MarkRequeued(g) /\ e.job = Stranded(g))
    BY <1>1, <1>3, <2>2, ReaperFields
  <2> QED
    BY <2>1, <2>2
<1>4. ASSUME NEW w \in Workers, Pop(w) PROVE state'[e.job].requeuedFrom = e
  BY <1>4 DEF Pop
<1>5. ASSUME NEW w \in Workers, WorkerStep(w) \/ WorkerChance(w)
      PROVE  state'[e.job].requeuedFrom = e
  BY <1>1, <1>5, WorkerFields
<1>6. ASSUME NEW j \in Jobs, SubmitStep(j) PROVE state'[e.job].requeuedFrom = e
  BY <1>1, <1>6, SubmitFrame
<1>7. CASE UNCHANGED vars
  BY <1>7 DEF vars, redisVars
<1> QED
  BY <1>3, <1>4, <1>5, <1>6, <1>7, StepKinds

\* An end, once on the stream, stays.
LEMMA EndedStays ==
  ASSUME TypeOK, [Next]_vars, NEW j \in Jobs, Ended(j)
  PROVE  Ended(j)'
<1>1. ASSUME UNCHANGED stream PROVE Ended(j)'
  BY <1>1 DEF Ended
<1>2. ASSUME NEW w \in Workers, Pop(w) PROVE Ended(j)'
  BY <1>1, <1>2 DEF Pop
<1>3. ASSUME NEW i \in Jobs, SubmitStep(i) PROVE Ended(j)'
  BY <1>1, <1>3, SubmitFrame
<1>4. CASE UNCHANGED vars
  BY <1>1, <1>4 DEF vars, redisVars
<1> QED
  BY <1>2, <1>3, <1>4, StepKinds, WorkerStream, ReaperStream

LEMMA NextRemovalDue ==
  ASSUME TypeOK, Marks
  PROVE  RemovalDue /\ [Next]_vars => RemovalDue'
<1> SUFFICES ASSUME RemovalDue, [Next]_vars, NEW h \in Gateways
             PROVE  /\ rp'[h].pc = "announce" =>
                         state'[rp'[h].entry.job].requeuedFrom = rp'[h].entry
                    /\ rp'[h].pc = "remove" =>
                         \/ Ended(Stranded(h))'
                         \/ state'[rp'[h].entry.job].requeuedFrom = rp'[h].entry
  BY DEF RemovalDue, Stranded
\* A reaper that does not move.
<1>1. ASSUME rp'[h] = rp[h]
      PROVE  /\ rp'[h].pc = "announce" =>
                  state'[rp'[h].entry.job].requeuedFrom = rp'[h].entry
             /\ rp'[h].pc = "remove" =>
                  \/ Ended(Stranded(h))'
                  \/ state'[rp'[h].entry.job].requeuedFrom = rp'[h].entry
  <2> SUFFICES ASSUME rp[h].pc \in {"announce", "remove"}
               PROVE  \/ state'[rp[h].entry.job].requeuedFrom = rp[h].entry
                      \/ rp[h].pc = "remove" /\ Ended(Stranded(h))'
    BY <1>1
  <2>1. rp[h].entry \in Entries /\ Stranded(h) \in Jobs
        /\ Stranded(h) = rp[h].entry.job /\ Stranded(h)' = Stranded(h)
    BY <1>1, ReaperHolds DEF Stranded
  <2>2. CASE state[Stranded(h)].requeuedFrom = rp[h].entry
    BY <2>1, <2>2, MarkedStays
  <2>3. CASE Ended(Stranded(h)) /\ rp[h].pc = "remove"
    <3>1. PICK j \in Jobs : j = Stranded(h)
      BY <2>1
    <3>2. Ended(j)'
      BY <2>3, <3>1, EndedStays
    <3> QED
      BY <2>1, <2>3, <3>1, <3>2
  <2> QED
    BY <2>2, <2>3 DEF RemovalDue
\* The reaper that steps.
<1>2. ASSUME ReaperStep(h) \/ ReaperChance(h), rp'[h] # rp[h],
             rp'[h].pc \in {"announce", "remove"}
      PROVE  \/ state'[rp'[h].entry.job].requeuedFrom = rp'[h].entry
             \/ rp'[h].pc = "remove" /\ Ended(Stranded(h))'
  <2>1. ReapTable(h)
    BY <1>2, ReaperTable DEF FindTable, StopTable, RMoves, Rests
  <2>2. rp'[h].entry = rp[h].entry
    BY <2>1 DEF ReapTable, RMoves
  <2>3. rp[h].entry \in Entries /\ Stranded(h) \in Jobs
        /\ Stranded(h) = rp[h].entry.job
    BY <1>2, <2>1, ReaperHolds DEF ReapTable, RMoves
  <2>4. CASE MarkRequeued(h)
    BY <2>2, <2>3, <2>4
       DEF MarkRequeued, HSet, Held, TypeOK, RedisTypeOK, JobStates
  <2>5. CASE AnnounceRetry(h)
    <3>1. state[Stranded(h)].requeuedFrom = rp[h].entry
      BY <2>5 DEF AnnounceRetry, RemovalDue
    <3> QED
      BY <2>2, <2>3, <3>1, MarkedStays
  <2>6. CASE EmitOrphanEnd(h)
    <3>1. rp'[h].pc = "remove"
      BY <2>6, ReaperMoves DEF EmitOrphanEnd
    <3> QED
      BY <1>2, <2>6, <3>1, ReaperStream
  <2>7. CASE CheckRequeued(h) /\ state[Stranded(h)].requeuedFrom = rp[h].entry
    BY <2>2, <2>3, <2>7, MarkedStays
  <2> QED
    BY <1>2, <2>1, <2>4, <2>5, <2>6, <2>7 DEF ReapTable, RMoves
<1>3. \/ rp'[h] = rp[h]
      \/ ReaperStep(h) \/ ReaperChance(h)
  <2>1. ASSUME NEW g \in Gateways, ReaperStep(g) \/ ReaperChance(g)
        PROVE  rp'[h] = rp[h] \/ ReaperStep(h) \/ ReaperChance(h)
    BY <2>1, OtherReapersKept
  <2>2. ASSUME NEW w \in Workers, Pop(w) PROVE rp' = rp
    BY <2>2 DEF Pop, workerElse
  <2>3. ASSUME NEW w \in Workers, WorkerStep(w) \/ WorkerChance(w)
        PROVE  rp' = rp
    BY <2>3, WorkerKeepsRest
  <2>4. ASSUME NEW j \in Jobs, SubmitStep(j) PROVE rp' = rp
    BY <2>4, SubmitFrame
  <2>5. CASE UNCHANGED vars
    BY <2>5 DEF vars
  <2> QED
    BY <2>1, <2>2, <2>3, <2>4, <2>5, StepKinds
<1> QED
  BY <1>1, <1>2, <1>3

LEMMA NextStillParked ==
  ASSUME Ground, DeadLists, Apart, Marks, RemovalDue
  PROVE  StillParked /\ [Next]_vars => StillParked'
<1> SUFFICES ASSUME StillParked, [Next]_vars, NEW e \in Entries, InReap(e)'
             PROVE  Ended(e.job)' \/ state'[e.job].requeuedFrom = e \/ Parked(e)'
  BY DEF StillParked
<1>0. TypeOK /\ e.job \in Jobs
  BY EntryIsItsParts DEF Ground, IInv
<1>1. CASE Ended(e.job)
  <2>1. PICK j \in Jobs : j = e.job
    BY <1>0
  <2>2. Ended(j)'
    BY <1>0, <1>1, <2>1, EndedStays
  <2> QED
    BY <2>1, <2>2
<1>2. CASE state[e.job].requeuedFrom = e
  BY <1>0, <1>2, MarkedStays
<1>3. CASE Parked(e) /\ ~ Ended(e.job) /\ state[e.job].requeuedFrom # e
  <2>1. ASSUME NEW w \in Workers, Pop(w) PROVE Parked(e)'
    <3>1. Aside' = Aside
      BY <2>1 DEF Pop, workerElse, history, Aside
    <3> QED
      BY <1>0, <1>3, <2>1, <3>1, PopMoves DEF Parked
  <2>2. ASSUME NEW w \in Workers, WorkerStep(w) \/ WorkerChance(w)
        PROVE  Parked(e)'
    <3>1. Aside' = Aside /\ UNCHANGED <<fenced, rp>>
      BY <2>2, WorkerKeepsRest DEF Aside
    <3>2. wk[w].entry # e
      BY <3>1 DEF InReap, Apart
    <3>3. \A v \in Workers : e \in proc[v] => e \in proc'[v]
      BY <1>0, <2>2, <3>2, WorkerParks
    <3> QED
      BY <1>3, <3>1, <3>3 DEF Parked
  <2>3. ASSUME NEW g \in Gateways, ReaperStep(g) \/ ReaperChance(g)
        PROVE  Parked(e)'
    <3>1. ~ (RemoveStranded(g) /\ e = rp[g].entry)
      BY <1>3 DEF RemoveStranded, RemovalDue, Stranded
    <3> QED
      BY <1>0, <1>3, <2>3, <3>1, ReaperParks DEF Parked
  <2>4. ASSUME NEW j \in Jobs, SubmitStep(j) PROVE Parked(e)'
    BY <1>0, <1>3, <2>4, SubmitFrame DEF Parked, Aside
  <2>5. CASE UNCHANGED vars
    BY <1>3, <2>5 DEF vars, redisVars, history, Parked, Aside
  <2> QED
    BY <1>0, <2>1, <2>2, <2>3, <2>4, <2>5, StepKinds
\* An entry just read was on a list.
<1>4. CASE ~ InReap(e)
  <2>1. PICK g \in Gateways : ReaperStep(g) \/ ReaperChance(g)
    <3>1. ASSUME UNCHANGED <<rp, fenced>> PROVE FALSE
      BY <1>4, <3>1 DEF InReap
    <3>2. ASSUME NEW w \in Workers, Pop(w) PROVE FALSE
      BY <3>1, <3>2 DEF Pop, workerElse, history
    <3>3. ASSUME NEW w \in Workers, WorkerStep(w) \/ WorkerChance(w)
          PROVE  FALSE
      BY <3>1, <3>3, WorkerKeepsRest
    <3>4. ASSUME NEW j \in Jobs, SubmitStep(j) PROVE FALSE
      BY <1>0, <3>1, <3>4, SubmitFrame
    <3>5. CASE UNCHANGED vars
      BY <3>1, <3>5 DEF vars, history
    <3> QED
      BY <1>0, <3>2, <3>3, <3>4, <3>5, StepKinds
  <2>2. ReadTail(g) /\ rp[g].pc = "list" /\ e \in proc[rp[g].list]
    <3>1. ~ (Fence(g) /\ rp[g].entry = e)
      BY <1>4 DEF InReap
    <3>2. fenced' = fenced \/ fenced' = fenced \cup {rp[g].entry}
      BY <2>1, ReaperKeepsRest DEF Fence, Held
    <3>3. e \notin fenced'
      BY <1>4, <3>2 DEF InReap
    <3>4. rp'[g].entry = e /\ rp[g].entry # e /\ e # None
      BY <1>0, <1>4, <2>1, <3>3, OtherReapersKept, NoneAssumption DEF InReap
    <3>5. FindTable(g)
      BY <1>0, <2>1, <3>4, ReaperTable DEF ReapTable, StopTable, RMoves, Rests
    <3> QED
      BY <3>4, <3>5 DEF FindTable, RMoves, Rests
  <2>3. rp[g].list \in Workers /\ UNCHANGED proc
    BY <1>0, <2>2 DEF ReadTail, redisVars, TypeOK, ReaperTypeOK, ReaperShape
  <2> QED
    BY <2>2, <2>3 DEF Parked
<1> QED
  BY <1>1, <1>2, <1>3, <1>4 DEF StillParked

-----------------------------------------------------------------------------
(* Why a worker finds that a job is not its own                              *)

OpenPCs == {"prologue", "claim", "submit", "running", "report"}

\* A live worker that has lost its job lost it to the reap of the job's other
\* entry, after a retry that will never be marked; and no worker crashes out.
Disowned ==
  \A w \in Workers :
    /\ wk[w].pc # "crash"
    /\ wk[w].pc \in OpenPCs /\ state[JobOf(w)].owner \notin {None, w} =>
         Ended(JobOf(w)) \/ Fallback(JobOf(w))

\* One worker has the job in hand.
LEMMA OneWorkerPerJob ==
  ASSUME TypeOK, Issued, Placed, Apart, MaxJobRetries <= 1,
         NEW v \in Workers, NEW w \in Workers,
         wk[v].pc \notin FreePCs, wk[w].pc \notin FreePCs, JobOf(v) = JobOf(w)
  PROVE  v = w
<1>1. /\ wk[v].entry \in Entries /\ wk[v].entry # None
      /\ wk[w].entry \in Entries /\ wk[w].entry # None
  BY WorkerHolds
<1>2. wk[v].entry = wk[w].entry
  <2>1. wk[v].entry = Current(JobOf(v))
    BY <1>1, LiveIsCurrent DEF JobOf
  <2>2. wk[w].entry = Current(JobOf(w))
    BY <1>1, LiveIsCurrent DEF JobOf
  <2> QED
    BY <2>1, <2>2
<1> QED
  BY <1>1, <1>2 DEF Placed, OneHolder

LEMMA WorkerDisowned ==
  ASSUME FetchInv, Disowned, MaxJobRetries <= 1, MaxFaults["workerblip"] = 0,
         [Next]_vars, NEW w \in Workers, WorkerStep(w) \/ WorkerChance(w)
  PROVE  Disowned'
<1>0. /\ TypeOK /\ RetriesPromised /\ Issued /\ Placed /\ Marks /\ Apart
      /\ PayloadKept
  BY DEF FetchInv, Ground, IInv, RetriesOK, HRest
<1>1. ~ WorkerBlip(w)
  BY <1>0, NeverHappens DEF WorkerBlip, FaultKinds
<1>2. JobTable(w) \/ EndTable(w)
  BY <1>0, <1>1, WorkerTable DEF BlipTable
<1>3. \A v \in Workers \ {w} : wk'[v] = wk[v]
  BY <1>0, OtherWorkersKept
<1>4. \A v \in Workers : wk'[v].pc # "crash"
  BY <1>2, <1>3 DEF JobTable, EndTable, Moves, Frees, Disowned
<1>5. ASSUME NEW v \in Workers, wk'[v].pc \in OpenPCs,
             state'[JobOf(v)'].owner \notin {None, v}
      PROVE  Ended(JobOf(v))' \/ Fallback(JobOf(v))'
  <2>1. wk[v].pc \notin FreePCs /\ wk'[v].entry = wk[v].entry
    <3>1. CASE v # w
      BY <1>3, <1>5, <3>1 DEF OpenPCs, FreePCs
    <3>2. CASE v = w
      BY <1>2, <1>5, <3>2
         DEF JobTable, EndTable, Moves, Frees, OpenPCs, FreePCs
    <3> QED
      BY <3>1, <3>2
  <2>2. PICK j \in Jobs : j = JobOf(v)
    BY <1>0, <2>1, WorkerHolds
  <2>3. JobOf(v)' = j
    BY <2>1, <2>2 DEF JobOf
  <2>4. Ended(j) \/ Fallback(j)
    <3>1. CASE StartJob(w)
      <4>1. v # w
        <5>1. CASE v = w
          BY <1>0, <1>5, <2>2, <2>3, <3>1, <5>1, StartMoves
        <5> QED
          BY <5>1
      <4>2. wk[w].pc \notin FreePCs
        BY <3>1 DEF StartJob, FreePCs
      <4>3. JobOf(w) # j
        BY <1>0, <2>1, <2>2, <4>1, <4>2, OneWorkerPerJob
      <4>4. state'[j].owner = state[j].owner
        BY <1>0, <4>3, WorkerFields
      <4>5. wk[v].pc \in OpenPCs
        BY <1>3, <1>5, <4>1
      <4> QED
        BY <1>5, <2>2, <2>3, <4>4, <4>5 DEF Disowned
    <3>2. CASE ~ StartJob(w)
      <4>1. state'[j].owner = state[j].owner
        BY <1>0, <3>2, WorkerFields
      <4>2. CASE wk[v].pc \in OpenPCs
        BY <1>5, <2>2, <2>3, <4>1, <4>2 DEF Disowned
      <4>3. CASE wk[v].pc \notin OpenPCs
        <5>1. v = w /\ wk[w].pc = "popped" /\ j \notin payload
          <6>1. v = w
            BY <1>3, <1>5, <4>3
          <6> QED
            BY <1>2, <1>5, <2>2, <3>2, <4>3, <6>1
               DEF JobTable, EndTable, Moves, Frees, OpenPCs
        <5>2. wk[w].entry = Current(j)
          BY <1>0, <2>2, <5>1, WorkerHolds, LiveIsCurrent DEF JobOf, FreePCs
        <5> QED
          BY <1>0, <5>1, <5>2 DEF PayloadKept, ToFetch
      <4> QED
        BY <4>2, <4>3
    <3> QED
      BY <3>1, <3>2
  <2>5. Ended(j)' \/ Fallback(j)'
    BY <1>0, <2>4, EndedStays, FallbackStays
  <2> QED
    BY <2>3, <2>5
<1> QED
  BY <1>4, <1>5 DEF Disowned

LEMMA ReaperDisowned ==
  ASSUME FetchInv, Disowned, MaxJobRetries <= 1, [Next]_vars,
         NEW g \in Gateways, ReaperStep(g) \/ ReaperChance(g)
  PROVE  Disowned'
<1>0. /\ TypeOK /\ RetriesPromised /\ Issued /\ Marks /\ Apart /\ ClaimHeld
  BY DEF FetchInv, Ground, IInv, RetriesOK, HRest
<1>1. UNCHANGED wk
  BY ReaperKeepsRest
<1>2. ASSUME NEW w \in Workers, wk[w].pc \in OpenPCs,
             state'[JobOf(w)].owner \notin {None, w}
      PROVE  Ended(JobOf(w))' \/ Fallback(JobOf(w))'
  <2>1. wk[w].entry \in Entries
    BY <1>0, <1>2, WorkerHolds DEF OpenPCs, FreePCs
  <2>2. PICK j \in Jobs : j = JobOf(w)
    BY <1>0, <1>2, WorkerHolds DEF OpenPCs, FreePCs
  <2>3. Ended(j) \/ Fallback(j)
    <3>1. CASE state'[j].owner = state[j].owner
      BY <1>2, <2>2, <3>1 DEF Disowned
    <3>2. CASE Fence(g) /\ j = Stranded(g)
      <4>1. /\ rp[g].pc = "fence" /\ rp[g].entry \in Entries
            /\ Stranded(g) = rp[g].entry.job
        BY <1>0, <3>2, ReaperHolds DEF Fence
      <4>2. rp[g].entry # wk[w].entry
        BY <1>0, <4>1 DEF Apart, InReap
      <4>3. wk[w].entry = Current(j)
        BY <1>0, <2>1, <2>2, LiveIsCurrent DEF JobOf
      <4>4. rp[g].entry = First(j) /\ requeues[j] > 0
        <5>1. CASE rp[g].entry = First(j)
          BY <4>2, <4>3, <5>1 DEF Current, First
        <5>2. CASE rp[g].entry = Entry(j, 1) /\ rp[g].entry.attempt > 0
          <6>1. Traced(rp[g].entry)
            BY DEF Traced
          <6> QED
            BY <1>0, <3>2, <4>1, <4>2, <4>3, <5>2, <6>1 DEF Issued, Current
        <5> QED
          BY <3>2, <4>1, <5>1, <5>2, EntryKinds
      <4>5. state[j].requeuedFrom = None
        BY <1>0, <3>2, <4>1, <4>4 DEF Marks, Unmarked, RequeueMarks, UnmarkedPCs
      <4>6. ASSUME NEW h \in Gateways, rp[h].pc = "mark", rp[h].entry = First(j)
            PROVE  FALSE
        <5>1. rp[h].pc \in ReapPCs /\ rp[g].pc \in ReapPCs
          BY <4>1, <4>6 DEF ReapPCs
        <5>2. g = h
          BY <1>0, <4>4, <4>6, <5>1 DEF ClaimHeld, Held
        <5> QED
          BY <4>1, <4>6, <5>2
      <4> QED
        BY <4>4, <4>5, <4>6 DEF Fallback
    <3> QED
      BY <1>0, <3>1, <3>2, ReaperFields
  <2>4. Ended(j)' \/ Fallback(j)'
    BY <1>0, <2>3, EndedStays, FallbackStays
  <2>5. JobOf(w)' = j
    BY <1>1, <2>2 DEF JobOf
  <2> QED
    BY <2>4, <2>5
<1> QED
  BY <1>1, <1>2 DEF Disowned, JobOf

LEMMA NextDisowned ==
  ASSUME FetchInv, MaxJobRetries <= 1, MaxFaults["workerblip"] = 0
  PROVE  Disowned /\ [Next]_vars => Disowned'
<1> SUFFICES ASSUME Disowned, [Next]_vars PROVE Disowned'
  OBVIOUS
<1>0. TypeOK /\ RetriesPromised /\ Issued /\ Marks
  BY DEF FetchInv, Ground, IInv, RetriesOK, HRest
\* Nobody's owner has changed.
<1>1. ASSUME \A w \in Workers : \/ wk'[w] = wk[w]
                                \/ wk'[w].pc \notin OpenPCs \cup {"crash"},
             \A j \in Jobs : state'[j].owner = state[j].owner
      PROVE  Disowned'
  <2>1. ASSUME NEW w \in Workers, wk'[w].pc \in OpenPCs,
               state'[JobOf(w)'].owner \notin {None, w}
        PROVE  Ended(JobOf(w))' \/ Fallback(JobOf(w))'
    <3>1. wk'[w] = wk[w]
      BY <1>1, <2>1
    <3>2. PICK j \in Jobs : j = JobOf(w)
      BY <1>0, <2>1, <3>1, WorkerHolds DEF OpenPCs, FreePCs
    <3>5. JobOf(w)' = j
      BY <3>1, <3>2 DEF JobOf
    <3>3. Ended(j) \/ Fallback(j)
      BY <1>1, <2>1, <3>1, <3>2 DEF Disowned, JobOf
    <3>4. Ended(j)' \/ Fallback(j)'
      BY <1>0, <3>3, EndedStays, FallbackStays
    <3> QED
      BY <3>4, <3>5
  <2> QED
    BY <1>1, <2>1 DEF Disowned, JobOf
<1>2. ASSUME NEW w \in Workers, Pop(w) PROVE Disowned'
  <2>1. UNCHANGED state
    BY <1>2 DEF Pop
  <2> QED
    BY <1>0, <1>1, <1>2, <2>1, PopMoves DEF OpenPCs
<1>3. ASSUME NEW j \in Jobs, SubmitStep(j) PROVE Disowned'
  BY <1>0, <1>1, <1>3, SubmitFrame
<1>4. CASE UNCHANGED vars
  BY <1>1, <1>4 DEF vars, redisVars
<1> QED
  BY <1>0, <1>2, <1>3, <1>4, StepKinds, WorkerDisowned, ReaperDisowned

-----------------------------------------------------------------------------
(* A job's last entry is kept until the job has ended                        *)

\* On the queue, set aside, or on the list of a worker not about to remove it.
Safe(j) ==
  \/ Current(j) \in queue \cup Aside
  \/ \E w \in Workers : /\ Current(j) \in proc[w]
                        /\ wk[w].entry = Current(j) => wk[w].pc # "remove"

Kept == \A j \in Jobs : Submitted(j) => Ended(j) \/ Safe(j) \/ Fallback(j)

LEMMA WorkerKeepsSafe ==
  ASSUME FetchInv, Disowned, MaxJobRetries <= 1, MaxFaults["workerblip"] = 0,
         [Next]_vars, NEW w \in Workers, WorkerStep(w) \/ WorkerChance(w),
         NEW j \in Jobs, Safe(j)
  PROVE  Ended(j)' \/ Safe(j)' \/ Fallback(j)'
<1>0. TypeOK /\ RetriesPromised /\ Issued /\ Marks
  BY DEF FetchInv, Ground, IInv, RetriesOK, HRest
<1>1. /\ UNCHANGED <<queue, requeues>> /\ Aside' = Aside
      /\ Current(j)' = Current(j)
  BY WorkerKeepsRest DEF Current, Aside
<1>2. \A v \in Workers \ {w} : wk'[v] = wk[v]
  BY <1>0, OtherWorkersKept
<1>3. JobTable(w) \/ EndTable(w)
  <2>1. ~ WorkerBlip(w)
    BY <1>0, NeverHappens DEF WorkerBlip, FaultKinds
  <2> QED
    BY <1>0, <2>1, WorkerTable DEF BlipTable
<1>4. CASE Current(j) \in queue \cup Aside
  BY <1>1, <1>4 DEF Safe
<1>5. ASSUME NEW v \in Workers, Current(j) \in proc[v],
             wk[v].entry = Current(j) => wk[v].pc # "remove"
      PROVE  Ended(j)' \/ Safe(j)' \/ Fallback(j)'
  <2>0. Current(j) \in Entries
    BY <1>0, <1>5 DEF TypeOK, RedisTypeOK
  <2>1. CASE v # w
    BY <1>0, <1>1, <1>2, <1>5, <2>0, <2>1, WorkerParks DEF Safe
  <2>2. CASE v = w /\ wk[w].entry # Current(j)
    <3>1. Current(j) \in proc'[w]
      BY <1>0, <1>5, <2>0, <2>2, WorkerParks
    <3>2. wk'[w].entry # Current(j)
      BY <1>0, <2>0, <2>2, WorkerHolder, NoneAssumption
    <3> QED
      BY <1>1, <3>1, <3>2 DEF Safe
  <2>3. CASE v = w /\ wk[w].entry = Current(j)
    <3>1. JobOf(w) = j /\ wk[w].pc # "remove" /\ wk[w].pc # "crash"
      BY <1>5, <2>3 DEF JobOf, Current, Entry, Disowned
    <3>2. Current(j) \in proc'[w]
      BY <1>0, <1>5, <2>0, <2>3, <3>1, WorkerParks DEF RemoveEntry, CrashOut
    <3>3. CASE wk'[w].entry = Current(j) => wk'[w].pc # "remove"
      BY <1>1, <3>2, <3>3 DEF Safe
    <3>4. CASE wk'[w].pc = "remove" /\ wk'[w].entry = Current(j)
      <4>1. \/ EmitTerminal(w) /\ wk'[w].entry = wk[w].entry
            \/ wk[w].pc \in {"claim", "report"} /\ ~ StillOurs(w)
        <5>1. CASE wk' # wk
          BY <1>3, <3>4, <5>1 DEF JobTable, EndTable, Moves, Frees
        <5>2. CASE wk' = wk
          BY <3>1, <3>4, <5>2
        <5> QED
          BY <5>1, <5>2
      <4>2. CASE EmitTerminal(w) /\ wk'[w].entry = wk[w].entry
        <5>1. Ended(JobOf(w))' /\ JobOf(w)' = j
          BY <1>0, <3>1, <4>2, WorkerStream DEF JobOf
        <5> QED
          BY <5>1
      <4>3. CASE wk[w].pc \in {"claim", "report"} /\ ~ StillOurs(w)
        <5>1. Ended(j) \/ Fallback(j)
          BY <3>1, <4>3 DEF Disowned, OpenPCs, StillOurs
        <5> QED
          BY <1>0, <5>1, EndedStays, FallbackStays
      <4> QED
        BY <4>1, <4>2, <4>3
    <3> QED
      BY <3>3, <3>4
  <2> QED
    BY <2>1, <2>2, <2>3
<1> QED
  BY <1>4, <1>5 DEF Safe

LEMMA ReaperKeepsSafe ==
  ASSUME FetchInv, RemovalDue, MaxJobRetries <= 1, [Next]_vars,
         NEW g \in Gateways, ReaperStep(g) \/ ReaperChance(g),
         NEW j \in Jobs, Safe(j)
  PROVE  Ended(j)' \/ Safe(j)'
<1>0. TypeOK /\ RetriesPromised /\ Issued /\ Marks
  BY DEF FetchInv, Ground, IInv, RetriesOK, HRest
<1>1. UNCHANGED wk
  BY ReaperKeepsRest
<1>2. CASE Requeue(g) /\ ~ QueueFull /\ j = Stranded(g)
  <2>1. queue' = queue \cup {Entry(j, 1)} /\ requeues'[j] > 0
    BY <1>0, <1>2, RequeueFresh DEF TypeOK, HistoryTypeOK
  <2> QED
    BY <2>1 DEF Safe, Current
<1>3. CASE ~ (Requeue(g) /\ ~ QueueFull /\ j = Stranded(g))
  <2>1. requeues'[j] = requeues[j] /\ queue \subseteq queue'
    <3>1. CASE Requeue(g) /\ ~ QueueFull
      BY <1>0, <1>3, <3>1, RequeueFresh DEF TypeOK, HistoryTypeOK
    <3>2. CASE ~ Requeue(g) \/ QueueFull
      BY <3>2, ReaperKeepsRest DEF Requeue
    <3> QED
      BY <3>1, <3>2
  <2>2. Current(j)' = Current(j)
    BY <2>1 DEF Current
  <2>3. CASE Current(j) \in queue
    BY <2>1, <2>2, <2>3 DEF Safe
  <2>4. CASE Current(j) \in Aside
    <3>1. Current(j) \in Entries
      BY <1>0, <2>4 DEF Aside, TypeOK, RedisTypeOK, HistoryTypeOK
    <3> QED
      BY <1>0, <2>2, <2>4, <3>1, ReaperParks DEF Safe
  <2>5. ASSUME NEW v \in Workers, Current(j) \in proc[v],
               wk[v].entry = Current(j) => wk[v].pc # "remove"
        PROVE  Ended(j)' \/ Safe(j)'
    <3>1. Current(j) \in Entries
      BY <1>0, <2>5 DEF TypeOK, RedisTypeOK
    <3>2. \/ Current(j) \in proc'[v]
          \/ Current(j) \in Aside'
          \/ RemoveStranded(g) /\ Current(j) = rp[g].entry
      BY <1>0, <2>5, <3>1, ReaperParks
    <3>3. CASE Current(j) \in proc'[v] \/ Current(j) \in Aside'
      BY <1>1, <2>2, <2>5, <3>3 DEF Safe
    <3>4. CASE RemoveStranded(g) /\ Current(j) = rp[g].entry
      <4>1. rp[g].pc = "remove" /\ Stranded(g) = j
        BY <3>4 DEF RemoveStranded, Stranded, Current, Entry
      <4>2. state[j].requeuedFrom # Current(j)
        <5>1. CASE state[j].requeuedFrom = Current(j)
          <6>1. Current(j) # None
            BY <3>1, NoneAssumption
          <6>2. Current(j) = First(j) /\ requeues[j] > 0
            BY <1>0, <5>1, <6>1 DEF Marks, RequeueMarks
          <6> QED
            BY <6>2, EntriesDiffer DEF Current
        <5> QED
          BY <5>1
      <4>3. Ended(j)
        BY <3>4, <4>1, <4>2 DEF RemovalDue
      <4> QED
        BY <1>0, <4>3, EndedStays
    <3> QED
      BY <3>2, <3>3, <3>4
  <2> QED
    BY <2>3, <2>4, <2>5 DEF Safe
<1> QED
  BY <1>2, <1>3

LEMMA NextKept ==
  ASSUME FetchInv, RemovalDue, Disowned, MaxJobRetries <= 1,
         MaxFaults["workerblip"] = 0
  PROVE  Kept /\ [Next]_vars => Kept'
<1> SUFFICES ASSUME Kept, [Next]_vars, NEW j \in Jobs, Submitted(j)'
             PROVE  Ended(j)' \/ Safe(j)' \/ Fallback(j)'
  BY DEF Kept
<1>0. TypeOK /\ RetriesPromised /\ Issued /\ Marks
  BY DEF FetchInv, Ground, IInv, RetriesOK, HRest
\* A job just submitted is on the queue.
<1>1. CASE ~ Submitted(j)
  <2>1. PICK i \in Jobs : SubmitStep(i)
    <3>1. sub' # sub
      BY <1>1 DEF Submitted
    <3>2. ASSUME NEW w \in Workers, Pop(w) PROVE FALSE
      BY <3>1, <3>2 DEF Pop, workerElse
    <3>3. ASSUME NEW w \in Workers, WorkerStep(w) \/ WorkerChance(w) PROVE FALSE
      BY <3>1, <3>3, WorkerKeepsRest
    <3>4. ASSUME NEW g \in Gateways, ReaperStep(g) \/ ReaperChance(g) PROVE FALSE
      BY <3>1, <3>4, ReaperKeepsRest
    <3>5. CASE UNCHANGED vars
      BY <3>1, <3>5 DEF vars
    <3> QED
      BY <1>0, <3>2, <3>3, <3>4, <3>5, StepKinds
  <2>2. Enqueue(i) /\ ~ QueueFull /\ i = j
    BY <1>0, <1>1, <2>1 DEF SubmitStep, Enqueue, WriteState, SubmitDies, Cancel,
       Submitted, TypeOK, HistoryTypeOK
  <2>3. queue' = queue \cup {Entry(j, 0)} /\ sub[j] = "new" /\ UNCHANGED requeues
    BY <1>0, <2>1, <2>2, EnqueueFresh, SubmitFrame
  <2>4. ~ (requeues[j] > 0)
    <3>1. CASE requeues[j] > 0
      <4>1. Entry(j, 0) \in Entries /\ Entry(j, 0).job = j
        BY EntryIsItsParts, BoundsAssumption
      <4>2. Traced(Entry(j, 0))
        BY <1>0, <3>1 DEF Issued, Traced
      <4> QED
        BY <1>0, <2>3, <4>1, <4>2 DEF Issued, Untaken
    <3> QED
      BY <3>1
  <2> QED
    BY <2>3, <2>4 DEF Safe, Current
<1>2. CASE Ended(j) \/ Fallback(j)
  BY <1>0, <1>2, EndedStays, FallbackStays
<1>3. CASE Safe(j)
  <2>1. ASSUME NEW w \in Workers, Pop(w) PROVE Safe(j)'
    <3>1. PICK e \in queue :
            /\ queue' = queue \ {e}
            /\ wk'[w].pc = "popped" /\ wk'[w].entry = e
            /\ wk[w].pc = "idle"
            /\ \A v \in Workers \ {w} : wk'[v] = wk[v]
            /\ proc'[w] = proc[w] \cup {e}
            /\ \A v \in Workers \ {w} : proc'[v] = proc[v]
      BY <1>0, <2>1, PopMoves
    <3>2. UNCHANGED requeues /\ Aside' = Aside /\ Current(j)' = Current(j)
      BY <2>1 DEF Pop, workerElse, history, Current, Aside
    <3> QED
      BY <1>3, <3>1, <3>2 DEF Safe
  <2>2. ASSUME NEW i \in Jobs, SubmitStep(i) PROVE Safe(j)'
    <3>1. UNCHANGED <<proc, wk, requeues>> /\ Aside' = Aside
      BY <1>0, <2>2, SubmitFrame DEF Aside
    <3>2. queue \subseteq queue'
      BY <1>0, <2>2, SubmitFrame DEF Enqueue, FairEnqueue
    <3> QED
      BY <1>3, <3>1, <3>2 DEF Safe, Current
  <2>3. CASE UNCHANGED vars
    BY <1>3, <2>3 DEF vars, redisVars, history, Safe, Current, Aside
  <2> QED
    BY <1>0, <1>3, <2>1, <2>2, <2>3, StepKinds, WorkerKeepsSafe, ReaperKeepsSafe
<1> QED
  BY <1>1, <1>2, <1>3 DEF Kept

-----------------------------------------------------------------------------
(* The operator's list                                                       *)

\* It never exceeds its cap, and only a full one has lost entries.
AsideCapped ==
  /\ IsFiniteSet(undeliverable)
  /\ Cardinality(undeliverable) <= ReapUndeliverableMax
  /\ trimmed # {} => Cardinality(undeliverable) = ReapUndeliverableMax

LEMMA PutAsideCapped ==
  ASSUME AsideCapped, NEW e, PutAside(e)
  PROVE  AsideCapped'
<1> DEFINE U == undeliverable
<1>0. IsFiniteSet(U) /\ Cardinality(U) \in Nat
  BY FS_CardinalityType DEF AsideCapped
<1>1. /\ IsFiniteSet(U \cup {e})
      /\ Cardinality(U \cup {e}) = IF e \in U THEN Cardinality(U)
                                             ELSE Cardinality(U) + 1
  BY <1>0, FS_AddElement
<1>2. CASE Cardinality(U \cup {e}) <= ReapUndeliverableMax
  <2>1. undeliverable' = U \cup {e} /\ trimmed' = trimmed
    BY <1>2 DEF PutAside
  <2> QED
    BY <1>0, <1>1, <1>2, <2>1, BoundsAssumption DEF AsideCapped
<1>3. CASE ~ (Cardinality(U \cup {e}) <= ReapUndeliverableMax)
  <2>1. e \notin U /\ Cardinality(U) = ReapUndeliverableMax
    BY <1>0, <1>1, <1>3, BoundsAssumption DEF AsideCapped
  <2>2. PICK oldest \in U \ {e} : undeliverable' = (U \ {oldest}) \cup {e}
    BY <1>3 DEF PutAside
  <2>3. /\ IsFiniteSet(U \ {oldest})
        /\ Cardinality(U \ {oldest}) = Cardinality(U) - 1
    BY <1>0, <2>2, FS_RemoveElement
  <2>4. /\ IsFiniteSet(undeliverable')
        /\ Cardinality(undeliverable') = Cardinality(U \ {oldest}) + 1
    BY <2>1, <2>2, <2>3, FS_AddElement
  <2> QED
    BY <1>0, <2>1, <2>3, <2>4 DEF AsideCapped
<1> QED
  BY <1>2, <1>3

LEMMA NextAsideCapped ==
  ASSUME TypeOK
  PROVE  AsideCapped /\ [Next]_vars => AsideCapped'
<1> SUFFICES ASSUME AsideCapped, [Next]_vars PROVE AsideCapped'
  OBVIOUS
<1>1. CASE UNCHANGED <<undeliverable, trimmed>>
  BY <1>1 DEF AsideCapped
<1>2. ASSUME NEW g \in Gateways, SetAside(g) PROVE AsideCapped'
  BY <1>1, <1>2, SetAsideSets, PutAsideCapped
<1>3. ASSUME NEW g \in Gateways, ReaperStep(g) \/ ReaperChance(g)
      PROVE  AsideCapped'
  BY <1>1, <1>2, <1>3, ReaperKeepsRest
<1>4. ASSUME NEW w \in Workers, Pop(w) PROVE AsideCapped'
  BY <1>1, <1>4 DEF Pop, workerElse, history
<1>5. ASSUME NEW w \in Workers, WorkerStep(w) \/ WorkerChance(w)
      PROVE  AsideCapped'
  BY <1>1, <1>5, WorkerKeepsRest
<1>6. ASSUME NEW j \in Jobs, SubmitStep(j) PROVE AsideCapped'
  BY <1>1, <1>6, SubmitFrame
<1>7. CASE UNCHANGED vars
  BY <1>1, <1>7 DEF vars, redisVars, history
<1> QED
  BY <1>3, <1>4, <1>5, <1>6, <1>7, StepKinds

RecordInv ==
  FetchInv /\ RemovalDue /\ StillParked /\ Disowned /\ Kept /\ AsideCapped

LEMMA InitRecordInv == Init => RecordInv
<1> SUFFICES ASSUME Init PROVE RecordInv
  OBVIOUS
<1>1. FetchInv
  BY InitFetchInv
<1>2. RemovalDue
  BY DEF Init, RemovalDue, IdleReaper
<1>3. StillParked
  BY NoneAssumption DEF Init, StillParked, InReap, IdleReaper
<1>4. Disowned
  BY DEF Init, Disowned, IdleWorker, OpenPCs
<1>5. Kept
  BY DEF Init, Kept, Submitted
<1>6. AsideCapped
  BY FS_EmptySet, BoundsAssumption DEF Init, AsideCapped
<1> QED
  BY <1>1, <1>2, <1>3, <1>4, <1>5, <1>6 DEF RecordInv

LEMMA NextRecordInv ==
  ASSUME MaxJobRetries <= 1, MaxFaults["lapse"] = 0, MaxFaults["stall"] = 0,
         MaxFaults["workerblip"] = 0
  PROVE  RecordInv /\ [Next]_vars => RecordInv'
<1> SUFFICES ASSUME RecordInv, [Next]_vars PROVE RecordInv'
  OBVIOUS
<1>1. TypeOK /\ Ground /\ DeadLists /\ Apart /\ Marks
  BY DEF RecordInv, FetchInv, Ground, IInv
<1>2. FetchInv'
  BY NextFetchInv DEF RecordInv
<1>3. RemovalDue' /\ StillParked'
  BY <1>1, NextRemovalDue, NextStillParked DEF RecordInv
<1>4. Disowned' /\ Kept'
  BY NextDisowned, NextKept DEF RecordInv
<1>5. AsideCapped'
  BY <1>1, NextAsideCapped DEF RecordInv
<1> QED
  BY <1>2, <1>3, <1>4, <1>5 DEF RecordInv

\* With at most one retry allowed, heartbeats that stop only with their worker
\* and claims that outlive their reaps, no job without a terminal event loses
\* its last record, whatever workers and gateways die and whatever reaps meet
\* an error, for any number of them, unless the operator's list, full with
\* REAP_UNDELIVERABLE_MAX other entries, pushed it out (reap_processing_list,
\* main's clean-up, requeue_orphaned_job, defer_stranded_entry).
THEOREM NoJobIsLost ==
  ASSUME MaxJobRetries <= 1, MaxFaults["lapse"] = 0, MaxFaults["stall"] = 0,
         MaxFaults["workerblip"] = 0
  PROVE  Spec => []NoLostJob
<1>1. RecordInv => NoLostJob
  <2> SUFFICES ASSUME RecordInv, NEW j \in Jobs, Submitted(j), ~ Ended(j)
               PROVE  Recorded(j) \/ PushedOut(j)
    BY DEF NoLostJob
  <2>0. ASSUME NEW e \in Aside, e.job = j PROVE Recorded(j) \/ PushedOut(j)
    BY <2>0 DEF Aside, Recorded, PushedOut, RecordInv, AsideCapped
  <2>1. CASE Safe(j)
    <3>1. Current(j).job = j
      BY DEF Current, Entry
    <3> QED
      BY <2>0, <2>1, <3>1 DEF Safe, Recorded
  <2>2. CASE Fallback(j)
    <3>1. First(j) \in fenced /\ First(j) \in Entries /\ First(j).job = j
      BY <2>2, EntryIsItsParts, BoundsAssumption
         DEF Fallback, First, RecordInv, FetchInv, Ground, HRest, Issued
    <3>2. state[j].requeuedFrom # First(j)
      BY <2>2, <3>1, NoneAssumption DEF Fallback
    <3>3. Parked(First(j))
      BY <3>1, <3>2 DEF RecordInv, StillParked, InReap
    <3> QED
      BY <2>0, <3>1, <3>3 DEF Parked, Recorded
  <2> QED
    BY <2>1, <2>2 DEF RecordInv, Kept
<1> QED
  BY <1>1, InitRecordInv, NextRecordInv, PTL DEF Spec
=============================================================================
