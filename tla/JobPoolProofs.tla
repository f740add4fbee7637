--------------------------- MODULE JobPoolProofs ---------------------------
(***************************************************************************)
(* What holds of the pool for every number of jobs, workers, replicas,     *)
(* retries and faults.                                                     *)
(*                                                                         *)
(* The invariant IInv has three parts: the types, with the shape of the    *)
(* locals at each program counter; RetriesOK, that attempt_count covers    *)
(* the retries spent and those a reap still holds; and ClocksAccounted,    *)
(* that a clock still running is not one already billed.  Types come       *)
(* first, action by action, because attempt_count stays a natural only     *)
(* where RetriesOK says that a hand-back has something to hand back.  The   *)
(* queue's ceiling has an invariant of its own, at the end.                *)
(***************************************************************************)
EXTENDS JobPool, TLAPS, FiniteSetTheorems

-----------------------------------------------------------------------------
(* Local updates keep the locals well formed *)

LEMMA WorkerUpdate ==
  ASSUME WorkerTypeOK, NEW w \in Workers, NEW l \in WorkerLocals,
         WorkerShape(l), wk' = [wk EXCEPT ![w] = l]
  PROVE  WorkerTypeOK'
<1>1. wk' \in [Workers -> WorkerLocals]
  BY DEF WorkerTypeOK
<1>2. \A v \in Workers : wk'[v] = IF v = w THEN l ELSE wk[v]
  BY DEF WorkerTypeOK
<1> QED
  BY <1>1, <1>2 DEF WorkerTypeOK, WorkerShape

LEMMA ReaperUpdate ==
  ASSUME ReaperTypeOK, NEW g \in Gateways, NEW l \in ReaperLocals,
         ReaperShape(l), rp' = [rp EXCEPT ![g] = l]
  PROVE  ReaperTypeOK'
<1>1. rp' \in [Gateways -> ReaperLocals]
  BY DEF ReaperTypeOK
<1>2. \A h \in Gateways : rp'[h] = IF h = g THEN l ELSE rp[h]
  BY DEF ReaperTypeOK
<1> QED
  BY <1>1, <1>2 DEF ReaperTypeOK, ReaperShape

LEMMA GotoTypes ==
  ASSUME WorkerTypeOK, NEW w \in Workers, NEW pc \in WorkerPCs, Goto(w, pc),
         wk[w].entry \in Entries,
         pc \in {"report", "bill", "status", "emit"} => wk[w].out \in TerminalTypes
  PROVE  WorkerTypeOK'
<1> DEFINE l == [wk[w] EXCEPT !.pc = pc]
<1>1. l \in WorkerLocals /\ l.pc = pc /\ l.entry = wk[w].entry /\ l.out = wk[w].out
  BY DEF WorkerTypeOK, WorkerLocals
<1>2. WorkerShape(l)
  BY <1>1 DEF WorkerShape
<1>3. wk' = [wk EXCEPT ![w] = l]
  BY DEF Goto
<1> QED
  BY <1>1, <1>2, <1>3, WorkerUpdate

LEMMA ConcludeTypes ==
  ASSUME WorkerTypeOK, NEW w \in Workers, NEW out \in TerminalTypes,
         NEW final \in BOOLEAN, Conclude(w, out, final), wk[w].entry \in Entries
  PROVE  WorkerTypeOK'
<1> DEFINE l == [wk[w] EXCEPT !.pc = "report", !.out = out, !.final = final]
<1>1. l \in WorkerLocals /\ l.entry = wk[w].entry /\ l.out = out
  BY DEF WorkerTypeOK, WorkerLocals, WorkerPCs
<1>2. WorkerShape(l)
  BY <1>1 DEF WorkerShape
<1>3. wk' = [wk EXCEPT ![w] = l]
  BY DEF Conclude
<1> QED
  BY <1>1, <1>2, <1>3, WorkerUpdate

LEMMA StepTypes ==
  ASSUME ReaperTypeOK, NEW g \in Gateways, NEW pc \in ReaperPCs, Step(g, pc),
         rp[g].list \in Workers, rp[g].entry \in Entries,
         pc # "requeue",
         pc \in {"bill", "status", "drop", "emit"} => rp[g].out \in TerminalTypes
  PROVE  ReaperTypeOK'
<1> DEFINE l == [rp[g] EXCEPT !.pc = pc]
<1>1. l \in ReaperLocals /\ l.pc = pc /\ l.entry = rp[g].entry
        /\ l.out = rp[g].out /\ l.list = rp[g].list
  BY DEF ReaperTypeOK, ReaperLocals
<1>2. ReaperShape(l)
  BY <1>1 DEF ReaperShape
<1>3. rp' = [rp EXCEPT ![g] = l]
  BY DEF Step
<1> QED
  BY <1>1, <1>2, <1>3, ReaperUpdate

LEMMA DecideTypes ==
  ASSUME ReaperTypeOK, NEW g \in Gateways, NEW out \in TerminalTypes,
         Decide(g, out), rp[g].list \in Workers, rp[g].entry \in Entries
  PROVE  ReaperTypeOK'
<1> DEFINE l == [rp[g] EXCEPT !.pc = "bill", !.out = out]
<1>1. l \in ReaperLocals /\ l.pc = "bill" /\ l.entry = rp[g].entry
        /\ l.out = out /\ l.list = rp[g].list
  BY DEF ReaperTypeOK, ReaperLocals, ReaperPCs, ReapPCs
<1>2. ReaperShape(l)
  BY <1>1 DEF ReaperShape
<1>3. rp' = [rp EXCEPT ![g] = l]
  BY DEF Decide
<1> QED
  BY <1>1, <1>2, <1>3, ReaperUpdate

LEMMA RestTypes ==
  ASSUME ReaperTypeOK, NEW g \in Gateways, Rest(g)
  PROVE  ReaperTypeOK'
<1>1. IdleReaper \in ReaperLocals /\ ReaperShape(IdleReaper)
  BY DEF IdleReaper, ReaperLocals, ReaperPCs, ReaperShape
<1> QED
  BY <1>1, ReaperUpdate DEF Rest

-----------------------------------------------------------------------------
(* Writes to a job's state hash and event stream *)

CountersKept == \A i \in Jobs : /\ state'[i].count = state[i].count
                                /\ state'[i].clock = state[i].clock

LEMMA HSetTypes ==
  ASSUME RedisTypeOK, NEW j \in Jobs, NEW r \in JobStates, HSet(j, r)
  PROVE  /\ state' \in [Jobs -> JobStates]
         /\ \A i \in Jobs : state'[i] = IF i = j THEN r ELSE state[i]
  BY DEF RedisTypeOK, HSet

LEMMA StatusTypes ==
  ASSUME RedisTypeOK, NEW j \in Jobs, NEW s \in TerminalTypes,
         state' = [state EXCEPT ![j].status = s]
  PROVE  state' \in [Jobs -> JobStates] /\ CountersKept
<1>1. state' \in [Jobs -> JobStates]
  BY DEF RedisTypeOK, JobStates, Statuses
<1>2. CountersKept
  BY DEF RedisTypeOK, JobStates, CountersKept
<1> QED
  BY <1>1, <1>2

LEMMA PhaseTypes ==
  ASSUME RedisTypeOK, NEW j \in Jobs, NEW p \in Phases,
         state' = [state EXCEPT ![j].phase = p]
  PROVE  state' \in [Jobs -> JobStates] /\ CountersKept
<1>1. state' \in [Jobs -> JobStates]
  BY DEF RedisTypeOK, JobStates
<1>2. CountersKept
  BY DEF RedisTypeOK, JobStates, CountersKept
<1> QED
  BY <1>1, <1>2

LEMMA OwnerTypes ==
  ASSUME RedisTypeOK, NEW j \in Jobs, state' = [state EXCEPT ![j].owner = Reaped]
  PROVE  state' \in [Jobs -> JobStates] /\ CountersKept
<1>1. state' \in [Jobs -> JobStates]
  BY DEF RedisTypeOK, JobStates
<1>2. CountersKept
  BY DEF RedisTypeOK, JobStates, CountersKept
<1> QED
  BY <1>1, <1>2

LEMMA CancelTypes ==
  ASSUME RedisTypeOK, NEW j \in Jobs, state' = [state EXCEPT ![j].cancel = TRUE]
  PROVE  state' \in [Jobs -> JobStates] /\ CountersKept
<1>1. state' \in [Jobs -> JobStates]
  BY DEF RedisTypeOK, JobStates
<1>2. CountersKept
  BY DEF RedisTypeOK, JobStates, CountersKept
<1> QED
  BY <1>1, <1>2

LEMMA CountTypes ==
  ASSUME RedisTypeOK, NEW j \in Jobs, NEW n \in Nat, state' = [state EXCEPT ![j].count = n]
  PROVE  /\ state' \in [Jobs -> JobStates]
         /\ \A i \in Jobs : /\ state'[i].clock = state[i].clock
                            /\ state'[i].count = IF i = j THEN n ELSE state[i].count
<1>1. state' \in [Jobs -> JobStates]
  BY DEF RedisTypeOK, JobStates
<1>2. \A i \in Jobs : state'[i].clock = state[i].clock
  BY DEF RedisTypeOK, JobStates
<1>3. \A i \in Jobs : state'[i].count = IF i = j THEN n ELSE state[i].count
  BY DEF RedisTypeOK, JobStates
<1> QED
  BY <1>1, <1>2, <1>3

LEMMA AccrueTypes ==
  ASSUME RedisTypeOK, HistoryTypeOK, NEW j \in Jobs, Accrue(j)
  PROVE  /\ state' \in [Jobs -> JobStates]
         /\ bills' \in [Jobs -> Nat]
         /\ \A i \in Jobs : /\ state'[i].count = state[i].count
                            /\ state'[i].clock = (i # j /\ state[i].clock)
                            /\ bills'[i] = IF i = j /\ state[i].clock THEN bills[i] + 1 ELSE bills[i]
<1>1. state' = [state EXCEPT ![j].clock = FALSE]
  BY DEF Accrue
<1>2. state' \in [Jobs -> JobStates]
  BY <1>1 DEF RedisTypeOK, JobStates
<1>3. bills' \in [Jobs -> Nat]
  BY DEF RedisTypeOK, HistoryTypeOK, JobStates, Accrue
<1>4. \A i \in Jobs : state'[i].count = state[i].count
  BY <1>1 DEF RedisTypeOK, JobStates
<1>5. \A i \in Jobs : state'[i].clock = (i # j /\ state[i].clock)
  BY <1>1 DEF RedisTypeOK, JobStates
<1>6. \A i \in Jobs : bills'[i] = IF i = j /\ state[i].clock THEN bills[i] + 1 ELSE bills[i]
  BY DEF RedisTypeOK, HistoryTypeOK, JobStates, Accrue
<1> QED
  BY <1>2, <1>3, <1>4, <1>5, <1>6

LEMMA EmitTypes ==
  ASSUME RedisTypeOK, NEW j \in Jobs, NEW t \in TerminalTypes \cup {"retry"},
         stream' = [stream EXCEPT ![j] = Append(@, t)]
  PROVE  stream' \in [Jobs -> Seq(TerminalTypes \cup {"retry"})]
<1>1. Append(stream[j], t) \in Seq(TerminalTypes \cup {"retry"})
  BY DEF RedisTypeOK
<1> QED
  BY <1>1 DEF RedisTypeOK

-----------------------------------------------------------------------------
(* Every step of a worker keeps the types *)

\* What a busy worker holds.
LEMMA HeldByWorker ==
  ASSUME TypeOK, NEW w \in Workers, wk[w].pc \notin FreePCs
  PROVE  /\ wk[w].entry \in Entries
         /\ JobOf(w) \in Jobs
         /\ wk[w].pc \in {"report", "bill", "status", "emit"} =>
              wk[w].out \in TerminalTypes
  BY DEF TypeOK, WorkerTypeOK, WorkerShape, JobOf, Entries

LEMMA IdleWorkerTypes ==
  ASSUME WorkerTypeOK, NEW w \in Workers, NEW pc \in FreePCs,
         wk' = [wk EXCEPT ![w] = [IdleWorker EXCEPT !.pc = pc]]
  PROVE  WorkerTypeOK'
<1> DEFINE l == [IdleWorker EXCEPT !.pc = pc]
<1>1. l \in WorkerLocals /\ WorkerShape(l)
  BY DEF IdleWorker, WorkerLocals, WorkerPCs, WorkerShape, FreePCs
<1> QED
  BY <1>1, WorkerUpdate

LEMMA ResetTypes ==
  ASSUME WorkerTypeOK, NEW w \in Workers, wk' = [wk EXCEPT ![w] = IdleWorker]
  PROVE  WorkerTypeOK'
<1>1. IdleWorker \in WorkerLocals /\ WorkerShape(IdleWorker)
  BY DEF IdleWorker, WorkerLocals, WorkerPCs, WorkerShape, FreePCs
<1> QED
  BY <1>1, WorkerUpdate

LEMMA WorkerStepTypes ==
  ASSUME TypeOK, NEW w \in Workers, WorkerStep(w)
  PROVE  TypeOK'
<1> USE DEF TypeOK
<1> DEFINE j == JobOf(w)
<1>0. ReaperTypeOK'
  BY DEF WorkerStep, FetchPayload, StartJob, PrologueRaises, CheckCancelled,
         ClaimExecuting, SubmitPrompt, SubmitRaises, PromptEnds, RunRaises,
         CheckOwner, BillSubmitter, WriteStatus, EmitTerminal, RemoveEntry,
         DropPayload, CrashOut, Deregister, workerElse, ReaperTypeOK
<1>1. CASE FetchPayload(w)
  <2>1. wk[w].entry \in Entries
    BY <1>1, HeldByWorker DEF FetchPayload, FreePCs
  <2>2. CASE j \in payload
    <3> DEFINE l == [wk[w] EXCEPT !.pc = "start", !.known = TRUE]
    <3>1. l \in WorkerLocals /\ WorkerShape(l)
      BY <2>1 DEF WorkerTypeOK, WorkerLocals, WorkerPCs, WorkerShape
    <3>2. wk' = [wk EXCEPT ![w] = l]
      BY <1>1, <2>2 DEF FetchPayload
    <3> QED
      BY <3>1, <3>2, WorkerUpdate, <1>0, <1>1
         DEF FetchPayload, workerElse, history, RedisTypeOK, HistoryTypeOK
  <2>3. CASE j \notin payload
    <3>1. Conclude(w, "failed", TRUE)
      BY <1>1, <2>3 DEF FetchPayload
    <3> QED
      BY <2>1, <3>1, ConcludeTypes, <1>0, <1>1
         DEF FetchPayload, workerElse, history, RedisTypeOK, HistoryTypeOK,
             TerminalTypes
  <2> QED
    BY <2>2, <2>3
<1>2. CASE StartJob(w)
  <2>1. wk[w].entry \in Entries /\ j \in Jobs
    BY <1>2, HeldByWorker DEF StartJob, FreePCs
  <2>2. WorkerTypeOK'
    BY <1>2, <2>1, GotoTypes DEF StartJob, WorkerPCs
  <2>3. state' \in [Jobs -> JobStates]
    <3> DEFINE r == [state[j] EXCEPT !.status = "running",
                                     !.phase = "dispatched",
                                     !.owner = w, !.clock = TRUE]
    <3>1. r \in JobStates
      <4>1. state[j] \in JobStates
        BY <2>1 DEF RedisTypeOK
      <4>2. w \in Workers \cup {None, Reaped}
        OBVIOUS
      <4>3. "running" \in Statuses \cup {None} /\ "dispatched" \in Phases \cup {None}
        BY DEF Statuses, Phases
      <4> HIDE DEF j
      <4> QED
        BY <4>1, <4>2, <4>3 DEF JobStates
    <3>2. HSet(j, r)
      BY <1>2 DEF StartJob
    <3> QED
      BY <2>1, <3>1, <3>2, HSetTypes
  <2>4. starts' \in [Jobs -> Nat] /\ stale' \subseteq Jobs
    BY <1>2, <2>1 DEF StartJob, HistoryTypeOK
  <2> QED
    BY <1>0, <1>2, <2>2, <2>3, <2>4
       DEF StartJob, workerElse, RedisTypeOK, HistoryTypeOK
<1>3. CASE PrologueRaises(w)
  <2>1. WorkerTypeOK'
    BY <1>3, HeldByWorker, ConcludeTypes DEF PrologueRaises, TerminalTypes, FreePCs
  <2> QED
    BY <1>0, <1>3, <2>1
       DEF PrologueRaises, workerElse, history, RedisTypeOK, HistoryTypeOK
<1>4. CASE CheckCancelled(w)
  <2>1. WorkerTypeOK'
    BY <1>4, HeldByWorker, ConcludeTypes, GotoTypes
       DEF CheckCancelled, TerminalTypes, WorkerPCs, FreePCs
  <2> QED
    BY <1>0, <1>4, <2>1
       DEF CheckCancelled, workerElse, history, RedisTypeOK, HistoryTypeOK
<1>5. CASE ClaimExecuting(w)
  <2>1. WorkerTypeOK'
    BY <1>5, HeldByWorker, GotoTypes DEF ClaimExecuting, WorkerPCs, FreePCs
  <2>2. state' \in [Jobs -> JobStates]
    <3>1. j \in Jobs
      BY <1>5, HeldByWorker DEF ClaimExecuting, FreePCs
    <3>2. \/ state' = state
          \/ state' = [state EXCEPT ![j].phase = "executing"]
      BY <1>5 DEF ClaimExecuting
    <3> QED
      BY <3>1, <3>2, PhaseTypes DEF RedisTypeOK, Phases
  <2> QED
    BY <1>0, <1>5, <2>1, <2>2
       DEF ClaimExecuting, workerElse, history, RedisTypeOK, HistoryTypeOK
<1>6. CASE SubmitPrompt(w)
  <2>1. WorkerTypeOK'
    BY <1>6, HeldByWorker, GotoTypes DEF SubmitPrompt, WorkerPCs, FreePCs
  <2>2. handed' \in [Jobs -> Nat]
    BY <1>6, HeldByWorker DEF SubmitPrompt, HistoryTypeOK, FreePCs
  <2> QED
    BY <1>0, <1>6, <2>1, <2>2
       DEF SubmitPrompt, workerElse, RedisTypeOK, HistoryTypeOK
<1>7. CASE SubmitRaises(w)
  <2>1. WorkerTypeOK'
    BY <1>7, HeldByWorker, ConcludeTypes DEF SubmitRaises, TerminalTypes, FreePCs
  <2>2. handed' \in [Jobs -> Nat]
    BY <1>7, HeldByWorker DEF SubmitRaises, HistoryTypeOK, FreePCs
  <2> QED
    BY <1>0, <1>7, <2>1, <2>2
       DEF SubmitRaises, workerElse, RedisTypeOK, HistoryTypeOK
<1>8. CASE PromptEnds(w)
  <2>1. WorkerTypeOK'
    BY <1>8, HeldByWorker, ConcludeTypes DEF PromptEnds, FreePCs
  <2> QED
    BY <1>0, <1>8, <2>1
       DEF PromptEnds, workerElse, history, RedisTypeOK, HistoryTypeOK
<1>9. CASE RunRaises(w)
  <2>1. WorkerTypeOK'
    BY <1>9, HeldByWorker, ConcludeTypes DEF RunRaises, TerminalTypes, FreePCs
  <2> QED
    BY <1>0, <1>9, <2>1
       DEF RunRaises, workerElse, history, RedisTypeOK, HistoryTypeOK
<1>10. CASE CheckOwner(w)
  <2>1. WorkerTypeOK'
    BY <1>10, HeldByWorker, GotoTypes DEF CheckOwner, WorkerPCs, FreePCs
  <2> QED
    BY <1>0, <1>10, <2>1
       DEF CheckOwner, workerElse, history, RedisTypeOK, HistoryTypeOK
<1>11. CASE BillSubmitter(w)
  <2>1. WorkerTypeOK'
    BY <1>11, HeldByWorker, GotoTypes DEF BillSubmitter, WorkerPCs, FreePCs
  <2>2. state' \in [Jobs -> JobStates] /\ bills' \in [Jobs -> Nat]
    BY <1>11, HeldByWorker, AccrueTypes DEF BillSubmitter, FreePCs
  <2> QED
    BY <1>0, <1>11, <2>1, <2>2
       DEF BillSubmitter, workerElse, RedisTypeOK, HistoryTypeOK
<1>12. CASE WriteStatus(w)
  <2>1. WorkerTypeOK'
    BY <1>12, HeldByWorker, GotoTypes DEF WriteStatus, WorkerPCs, FreePCs
  <2>2. state' \in [Jobs -> JobStates]
    <3>1. j \in Jobs /\ wk[w].out \in TerminalTypes
      BY <1>12, HeldByWorker DEF WriteStatus, FreePCs
    <3> QED
      BY <1>12, <3>1, StatusTypes DEF WriteStatus
  <2> QED
    BY <1>0, <1>12, <2>1, <2>2
       DEF WriteStatus, workerElse, history, RedisTypeOK, HistoryTypeOK
<1>13. CASE EmitTerminal(w)
  <2>1. WorkerTypeOK'
    BY <1>13, HeldByWorker, GotoTypes DEF EmitTerminal, WorkerPCs, FreePCs
  <2>2. stream' \in [Jobs -> Seq(TerminalTypes \cup {"retry"})]
    <3>1. j \in Jobs /\ wk[w].out \in TerminalTypes
      BY <1>13, HeldByWorker DEF EmitTerminal, FreePCs
    <3> QED
      BY <1>13, <3>1, EmitTypes DEF EmitTerminal
  <2> QED
    BY <1>0, <1>13, <2>1, <2>2
       DEF EmitTerminal, workerElse, history, RedisTypeOK, HistoryTypeOK
<1>14. CASE RemoveEntry(w)
  <2>1. WorkerTypeOK'
    BY <1>14, HeldByWorker, GotoTypes, ResetTypes DEF RemoveEntry, WorkerPCs, FreePCs
  <2>2. proc' \in [Workers -> SUBSET Entries]
    BY <1>14 DEF RemoveEntry, RedisTypeOK
  <2> QED
    BY <1>0, <1>14, <2>1, <2>2
       DEF RemoveEntry, workerElse, history, RedisTypeOK, HistoryTypeOK
<1>15. CASE DropPayload(w)
  <2>1. WorkerTypeOK'
    BY <1>15, ResetTypes DEF DropPayload
  <2> QED
    BY <1>0, <1>15, <2>1
       DEF DropPayload, workerElse, history, RedisTypeOK, HistoryTypeOK
<1>16. CASE CrashOut(w)
  <2>1. WorkerTypeOK'
    BY <1>16, IdleWorkerTypes DEF CrashOut, FreePCs
  <2>2. proc' \in [Workers -> SUBSET Entries]
    BY <1>16 DEF CrashOut, RedisTypeOK
  <2> QED
    BY <1>0, <1>16, <2>1, <2>2
       DEF CrashOut, workerElse, history, RedisTypeOK, HistoryTypeOK
<1>17. CASE Deregister(w)
  <2>1. WorkerTypeOK'
    BY <1>17, IdleWorkerTypes DEF Deregister, FreePCs
  <2> QED
    BY <1>0, <1>17, <2>1
       DEF Deregister, history, RedisTypeOK, HistoryTypeOK
<1> QED
  BY <1>1, <1>2, <1>3, <1>4, <1>5, <1>6, <1>7, <1>8, <1>9, <1>10, <1>11,
     <1>12, <1>13, <1>14, <1>15, <1>16, <1>17 DEF WorkerStep

LEMMA PopTypes ==
  ASSUME TypeOK, NEW w \in Workers, Pop(w)
  PROVE  TypeOK'
<1> USE DEF TypeOK
<1>1. PICK e \in queue :
        /\ queue' = queue \ {e}
        /\ proc' = [proc EXCEPT ![w] = @ \cup {e}]
        /\ wk' = [wk EXCEPT ![w] = [IdleWorker EXCEPT !.pc = "popped",
                                                      !.entry = e]]
  BY DEF Pop
<1>2. e \in Entries
  BY DEF RedisTypeOK
<1>3. WorkerTypeOK'
  <2> DEFINE l == [IdleWorker EXCEPT !.pc = "popped", !.entry = e]
  <2>1. l \in WorkerLocals /\ WorkerShape(l)
    BY <1>2 DEF IdleWorker, WorkerLocals, WorkerPCs, WorkerShape, FreePCs
  <2> QED
    BY <1>1, <2>1, WorkerUpdate
<1>4. queue' \subseteq Entries /\ proc' \in [Workers -> SUBSET Entries]
  BY <1>1, <1>2 DEF RedisTypeOK
<1> QED
  BY <1>3, <1>4
     DEF Pop, workerElse, history, RedisTypeOK, ReaperTypeOK, HistoryTypeOK

LEMMA FaultTypes ==
  ASSUME HistoryTypeOK, NEW k \in FaultKinds, Fault(k)
  PROVE  faults' \in [FaultKinds -> Nat]
  BY DEF HistoryTypeOK, Fault

WorkerChance(w) ==
  \/ Heartbeat(w) \/ HeartbeatExpires(w) \/ Die(w) \/ Retire(w)
  \/ HeartbeatLapses(w) \/ WorkerBlip(w)

LEMMA WorkerChanceTypes ==
  ASSUME TypeOK, NEW w \in Workers, WorkerChance(w)
  PROVE  TypeOK'
<1> USE DEF TypeOK
<1>0. ReaperTypeOK'
  BY DEF WorkerChance, Heartbeat, HeartbeatExpires, Die, Retire,
         HeartbeatLapses, WorkerBlip, ReaperTypeOK
<1>1. CASE Heartbeat(w)
  BY <1>0, <1>1
     DEF Heartbeat, history, RedisTypeOK, WorkerTypeOK, HistoryTypeOK
<1>2. CASE HeartbeatExpires(w)
  BY <1>0, <1>2
     DEF HeartbeatExpires, history, RedisTypeOK, WorkerTypeOK, HistoryTypeOK
<1>3. CASE HeartbeatLapses(w)
  <2>1. faults' \in [FaultKinds -> Nat]
    BY <1>3, FaultTypes DEF HeartbeatLapses, FaultKinds
  <2> QED
    BY <1>0, <1>3, <2>1
       DEF HeartbeatLapses, history, RedisTypeOK, WorkerTypeOK, HistoryTypeOK
<1>4. CASE Die(w)
  <2>1. faults' \in [FaultKinds -> Nat]
    BY <1>4, FaultTypes DEF Die, FaultKinds
  <2>2. WorkerTypeOK'
    BY <1>4, IdleWorkerTypes DEF Die, FreePCs
  <2> QED
    BY <1>0, <1>4, <2>1, <2>2
       DEF Die, redisVars, history, RedisTypeOK, HistoryTypeOK
<1>5. CASE Retire(w)
  <2>1. faults' \in [FaultKinds -> Nat]
    BY <1>5, FaultTypes DEF Retire, FaultKinds
  <2>2. WorkerTypeOK'
    BY <1>5, IdleWorkerTypes DEF Retire, FreePCs
  <2> QED
    BY <1>0, <1>5, <2>1, <2>2
       DEF Retire, redisVars, history, RedisTypeOK, HistoryTypeOK
<1>6. CASE WorkerBlip(w)
  <2>1. faults' \in [FaultKinds -> Nat]
    BY <1>6, FaultTypes DEF WorkerBlip, FaultKinds
  <2>2. WorkerTypeOK'
    BY <1>6, HeldByWorker, GotoTypes, ConcludeTypes, ResetTypes
       DEF WorkerBlip, WorkerPCs, FreePCs, TerminalTypes
  <2> QED
    BY <1>0, <1>6, <2>1, <2>2
       DEF WorkerBlip, redisVars, history, RedisTypeOK, HistoryTypeOK
<1> QED
  BY <1>1, <1>2, <1>3, <1>4, <1>5, <1>6 DEF WorkerChance

-----------------------------------------------------------------------------
(* Every step of a submission keeps the types *)

SubmitStep(j) == Enqueue(j) \/ WriteState(j) \/ SubmitDies(j) \/ Cancel(j)

LEMMA EnqueueTypes ==
  ASSUME RedisTypeOK, NEW j \in Jobs, NEW n \in 0 .. MaxJobRetries,
         FairEnqueue(Entry(j, n))
  PROVE  queue' \subseteq Entries /\ payload' \subseteq Jobs
<1>1. Entry(j, n) \in Entries /\ Entry(j, n).job = j
  BY DEF Entry, Entries
<1> QED
  BY <1>1 DEF FairEnqueue, RedisTypeOK

LEMMA SubmitTypes ==
  ASSUME TypeOK, NEW j \in Jobs, SubmitStep(j)
  PROVE  TypeOK'
<1> USE DEF TypeOK
<1>0. WorkerTypeOK' /\ ReaperTypeOK'
  BY DEF SubmitStep, Enqueue, WriteState, SubmitDies, Cancel, submitElse,
         WorkerTypeOK, ReaperTypeOK
<1>1. CASE Enqueue(j)
  <2>1. queue' \subseteq Entries /\ payload' \subseteq Jobs
    BY <1>1, EnqueueTypes, BoundsAssumption DEF Enqueue, RedisTypeOK
  <2>2. sub' \in [Jobs -> {"new", "enqueued", "accepted", "refused", "lost"}]
    BY <1>1 DEF Enqueue, HistoryTypeOK
  <2> QED
    BY <1>0, <1>1, <2>1, <2>2
       DEF Enqueue, submitElse, RedisTypeOK, HistoryTypeOK
<1>2. CASE WriteState(j)
  <2>1. state' \in [Jobs -> JobStates]
    <3> DEFINE r == [state[j] EXCEPT !.status = "queued", !.phase = "queued"]
    <3>1. r \in JobStates
      BY DEF RedisTypeOK, JobStates, Statuses, Phases
    <3> QED
      BY <1>2, <3>1, HSetTypes DEF WriteState
  <2>2. sub' \in [Jobs -> {"new", "enqueued", "accepted", "refused", "lost"}]
    BY <1>2 DEF WriteState, HistoryTypeOK
  <2>3. late' \subseteq Jobs
    BY <1>2 DEF WriteState, NoteLateSeed, HistoryTypeOK
  <2> QED
    BY <1>0, <1>2, <2>1, <2>2, <2>3
       DEF WriteState, submitElse, RedisTypeOK, HistoryTypeOK
<1>3. CASE SubmitDies(j)
  <2>1. faults' \in [FaultKinds -> Nat]
    BY <1>3, FaultTypes DEF SubmitDies, FaultKinds
  <2>2. sub' \in [Jobs -> {"new", "enqueued", "accepted", "refused", "lost"}]
    BY <1>3 DEF SubmitDies, HistoryTypeOK
  <2> QED
    BY <1>0, <1>3, <2>1, <2>2
       DEF SubmitDies, submitElse, RedisTypeOK, HistoryTypeOK
<1>4. CASE Cancel(j)
  <2>1. state' \in [Jobs -> JobStates]
    BY <1>4, CancelTypes DEF Cancel
  <2>2. withdrawn' \subseteq Jobs
    BY <1>4 DEF Cancel, HistoryTypeOK
  <2> QED
    BY <1>0, <1>4, <2>1, <2>2
       DEF Cancel, submitElse, RedisTypeOK, HistoryTypeOK
<1> QED
  BY <1>1, <1>2, <1>3, <1>4 DEF SubmitStep

-----------------------------------------------------------------------------
(* Every step of a reaper keeps the types *)

LEMMA HeldByReaper ==
  ASSUME TypeOK, NEW g \in Gateways, rp[g].pc \notin {"idle", "list"}
  PROVE  /\ rp[g].list \in Workers
         /\ rp[g].entry \in Entries
         /\ Held(g) \in Entries
         /\ Stranded(g) \in Jobs
         /\ rp[g].pc \in {"bill", "status", "drop", "emit"} =>
              rp[g].out \in TerminalTypes
  BY DEF TypeOK, ReaperTypeOK, ReaperShape, Held, Stranded, Entries

LEMMA ForgetTypes ==
  ASSUME RedisTypeOK, NEW g \in Gateways, ForgetClaim(g)
  PROVE  /\ claim' \in [Entries -> Gateways \cup {None}]
         /\ failures' \in [Entries -> Nat]
  BY DEF RedisTypeOK, ForgetClaim

LEMMA CountedFinite ==
  ASSUME NEW j
  PROVE  /\ IsFiniteSet(Counted(j)) /\ Cardinality(Counted(j)) \in Nat
         /\ IsFiniteSet(Requeuing(j)) /\ Cardinality(Requeuing(j)) \in Nat
<1>1. Counted(j) \subseteq Gateways /\ Requeuing(j) \subseteq Gateways
  BY DEF Counted, Requeuing
<1> QED
  BY <1>1, SetsAssumption, FS_Subset, FS_CardinalityType

\* A reap that holds a counted retry has one to hand back.
LEMMA CountedPositive ==
  ASSUME TypeOK, RetriesCounted, NEW j \in Jobs, Counted(j) # {}
  PROVE  state[j].count - 1 \in Nat
<1>1. IsFiniteSet(Counted(j)) /\ Cardinality(Counted(j)) \in Nat
  BY CountedFinite
<1>2. Cardinality(Counted(j)) # 0
  BY <1>1, FS_EmptySet
<1>3. state[j].count \in Nat /\ requeues[j] \in Nat
  BY DEF TypeOK, RedisTypeOK, HistoryTypeOK, JobStates
<1>4. requeues[j] + Cardinality(Counted(j)) <= state[j].count
  BY DEF RetriesCounted
<1> QED
  BY <1>1, <1>2, <1>3, <1>4

\* What is set aside stays on the list or is pushed out of it.
LEMMA PutAsideSets ==
  ASSUME NEW e, PutAside(e)
  PROVE  /\ undeliverable' \subseteq undeliverable \cup {e}
         /\ Aside' = Aside \cup {e}
BY DEF PutAside, Aside

LEMMA SetAsideSets ==
  ASSUME NEW g \in Gateways, SetAside(g)
  PROVE  \/ UNCHANGED <<proc, undeliverable, trimmed>>
         \/ \E e \in proc[rp[g].list] :
              /\ proc' = [proc EXCEPT ![rp[g].list] = @ \ {e}]
              /\ PutAside(e)
BY DEF SetAside

LEMMA ReaperStepTypes ==
  ASSUME TypeOK, RetriesCounted, NEW g \in Gateways, ReaperStep(g)
  PROVE  TypeOK'
<1> USE DEF TypeOK
<1> DEFINE j == Stranded(g)
<1>0. WorkerTypeOK'
  BY DEF ReaperStep, ReadTail, TakeClaim, CheckRequeued, Fence, ReadPhase, FetchStranded, CheckDepth, CountRetry,
         HandBack, Requeue, MarkRequeued, AnnounceRetry, BillExcluded, WriteOrphanStatus, DropOrphanPayload, EmitOrphanEnd,
         RemoveStranded, Release, Defer, SetAside, reaperElse,
         WorkerTypeOK
<1>1. CASE ReadTail(g)
  <2>1. ReaperTypeOK'
    <3>1. CASE Rest(g)
      BY <3>1, RestTypes
    <3>2. CASE \E e \in proc[rp[g].list] :
                 rp' = [rp EXCEPT ![g] = [@ EXCEPT !.pc = "claim", !.entry = e]]
      <4>1. PICK e \in proc[rp[g].list] :
              rp' = [rp EXCEPT ![g] = [@ EXCEPT !.pc = "claim", !.entry = e]]
        BY <3>2
      <4> DEFINE l == [rp[g] EXCEPT !.pc = "claim", !.entry = e]
      <4>2. rp[g].list \in Workers /\ e \in Entries
        BY <1>1 DEF ReadTail, ReaperTypeOK, ReaperShape, RedisTypeOK
      <4>3. l \in ReaperLocals /\ l.pc = "claim" /\ l.entry = e /\ l.list = rp[g].list
        BY <4>2 DEF ReaperTypeOK, ReaperLocals, ReaperPCs
      <4>4. ReaperShape(l)
        BY <4>2, <4>3 DEF ReaperShape
      <4> QED
        BY <4>1, <4>3, <4>4, ReaperUpdate
    <3> QED
      BY <1>1, <3>1, <3>2 DEF ReadTail
  <2> QED
    BY <1>0, <1>1, <2>1
       DEF ReadTail, reaperElse, redisVars, history, RedisTypeOK, HistoryTypeOK
<1>2. CASE TakeClaim(g)
  <2>1. ReaperTypeOK'
    BY <1>2, HeldByReaper, StepTypes, RestTypes DEF TakeClaim, ReaperPCs, ReapPCs
  <2>2. claim' \in [Entries -> Gateways \cup {None}]
    BY <1>2, HeldByReaper DEF TakeClaim, RedisTypeOK
  <2> QED
    BY <1>0, <1>2, <2>1, <2>2
       DEF TakeClaim, reaperElse, redisVars, history, RedisTypeOK, HistoryTypeOK
<1>3. CASE CheckRequeued(g)
  <2>1. ReaperTypeOK'
    BY <1>3, HeldByReaper, StepTypes DEF CheckRequeued, ReaperPCs, ReapPCs
  <2> QED
    BY <1>0, <1>3, <2>1
       DEF CheckRequeued, reaperElse, redisVars, history, RedisTypeOK, HistoryTypeOK
<1>4. CASE Fence(g)
  <2>1. ReaperTypeOK'
    BY <1>4, HeldByReaper, StepTypes DEF Fence, ReaperPCs, ReapPCs
  <2>2. state' \in [Jobs -> JobStates]
    BY <1>4, HeldByReaper, OwnerTypes DEF Fence
  <2>3. fenced' \subseteq Entries
    BY <1>4, HeldByReaper DEF Fence, HistoryTypeOK
  <2> QED
    BY <1>0, <1>4, <2>1, <2>2, <2>3
       DEF Fence, reaperElse, redisVars, history, RedisTypeOK, HistoryTypeOK
<1>5. CASE ReadPhase(g)
  <2>1. ReaperTypeOK'
    BY <1>5, HeldByReaper, StepTypes, DecideTypes DEF ReadPhase, ReaperPCs, ReapPCs, TerminalTypes
  <2> QED
    BY <1>0, <1>5, <2>1
       DEF ReadPhase, reaperElse, redisVars, history, RedisTypeOK, HistoryTypeOK
<1>6. CASE FetchStranded(g)
  <2>1. ReaperTypeOK'
    BY <1>6, HeldByReaper, StepTypes, DecideTypes DEF FetchStranded, ReaperPCs, ReapPCs, TerminalTypes
  <2> QED
    BY <1>0, <1>6, <2>1
       DEF FetchStranded, reaperElse, redisVars, history, RedisTypeOK, HistoryTypeOK
<1>7. CASE CheckDepth(g)
  <2>1. ReaperTypeOK'
    BY <1>7, HeldByReaper, StepTypes, DecideTypes DEF CheckDepth, ReaperPCs, ReapPCs, TerminalTypes
  <2> QED
    BY <1>0, <1>7, <2>1
       DEF CheckDepth, reaperElse, redisVars, history, RedisTypeOK, HistoryTypeOK
<1>8. CASE CountRetry(g)
  <2> DEFINE n == state[j].count + 1
             p == IF n > MaxJobRetries THEN "handback" ELSE "requeue"
             l == [rp[g] EXCEPT !.attempt = n, !.pc = p]
  <2>0. rp[g].list \in Workers /\ rp[g].entry \in Entries /\ j \in Jobs
    BY <1>8, HeldByReaper DEF CountRetry
  <2>1. n \in Nat /\ n # 0
    BY <2>0 DEF RedisTypeOK, JobStates
  <2>2. state' = [state EXCEPT ![j].count = n] /\ rp' = [rp EXCEPT ![g] = l]
    BY <1>8 DEF CountRetry
  <2>3. state' \in [Jobs -> JobStates]
    BY <2>0, <2>1, <2>2, CountTypes
  <2>4. l \in ReaperLocals /\ l.pc = p /\ l.attempt = n
          /\ l.entry = rp[g].entry /\ l.list = rp[g].list
    BY <2>1 DEF ReaperTypeOK, ReaperLocals, ReaperPCs, ReapPCs
  <2>5. p = "requeue" => n \in 0 .. MaxJobRetries
    BY <2>1, BoundsAssumption
  <2>6. ReaperShape(l)
    BY <2>0, <2>4, <2>5 DEF ReaperShape
  <2>7. ReaperTypeOK'
    BY <2>2, <2>4, <2>6, ReaperUpdate
  <2> QED
    BY <1>0, <1>8, <2>3, <2>7
       DEF CountRetry, reaperElse, history, RedisTypeOK, HistoryTypeOK
<1>9. CASE HandBack(g)
  <2>0. j \in Jobs
    BY <1>9, HeldByReaper DEF HandBack
  <2>1. ReaperTypeOK'
    BY <1>9, HeldByReaper, DecideTypes DEF HandBack, TerminalTypes
  <2>2. g \in Counted(j)
    BY <1>9 DEF HandBack, Counted
  <2>3. state[j].count - 1 \in Nat
    BY <2>0, <2>2, CountedPositive
  <2>4. state' \in [Jobs -> JobStates]
    BY <1>9, <2>0, <2>3, CountTypes DEF HandBack
  <2> QED
    BY <1>0, <1>9, <2>1, <2>4
       DEF HandBack, reaperElse, history, RedisTypeOK, HistoryTypeOK
<1>10. CASE Requeue(g)
  <2>0. j \in Jobs /\ rp[g].attempt \in 0 .. MaxJobRetries
    BY <1>10, HeldByReaper DEF Requeue, ReaperTypeOK, ReaperShape
  <2>1. ReaperTypeOK'
    BY <1>10, HeldByReaper, StepTypes DEF Requeue, ReaperPCs, ReapPCs
  <2>2. queue' \subseteq Entries /\ payload' \subseteq Jobs
    BY <1>10, <2>0, EnqueueTypes DEF Requeue, RedisTypeOK
  <2>3. requeues' \in [Jobs -> Nat]
    BY <1>10, <2>0 DEF Requeue, HistoryTypeOK
  <2> QED
    BY <1>0, <1>10, <2>1, <2>2, <2>3
       DEF Requeue, reaperElse, RedisTypeOK, HistoryTypeOK
<1>11. CASE MarkRequeued(g)
  <2>0. j \in Jobs /\ Held(g) \in Entries
    BY <1>11, HeldByReaper DEF MarkRequeued
  <2>1. ReaperTypeOK'
    BY <1>11, HeldByReaper, StepTypes DEF MarkRequeued, ReaperPCs, ReapPCs
  <2>2. state' \in [Jobs -> JobStates]
    <3> DEFINE r == [state[j] EXCEPT !.status = "queued", !.phase = "queued",
                                     !.requeuedFrom = Held(g)]
    <3>1. r \in JobStates
      BY <2>0 DEF RedisTypeOK, JobStates, Statuses, Phases
    <3>2. HSet(j, r)
      BY <1>11 DEF MarkRequeued
    <3> QED
      BY <2>0, <3>1, <3>2, HSetTypes
  <2>3. late' \subseteq Jobs
    BY <1>11, <2>0 DEF MarkRequeued, NoteLateSeed, HistoryTypeOK
  <2> QED
    BY <1>0, <1>11, <2>1, <2>2, <2>3
       DEF MarkRequeued, reaperElse, RedisTypeOK, HistoryTypeOK
<1>12. CASE AnnounceRetry(g)
  <2>1. ReaperTypeOK'
    BY <1>12, HeldByReaper, StepTypes DEF AnnounceRetry, ReaperPCs, ReapPCs
  <2>2. stream' \in [Jobs -> Seq(TerminalTypes \cup {"retry"})]
    BY <1>12, HeldByReaper, EmitTypes DEF AnnounceRetry
  <2> QED
    BY <1>0, <1>12, <2>1, <2>2
       DEF AnnounceRetry, reaperElse, redisVars, history, RedisTypeOK, HistoryTypeOK
<1>13. CASE BillExcluded(g)
  <2>1. ReaperTypeOK'
    BY <1>13, HeldByReaper, StepTypes DEF BillExcluded, ReaperPCs, ReapPCs
  <2>2. state' \in [Jobs -> JobStates] /\ bills' \in [Jobs -> Nat]
    BY <1>13, HeldByReaper, AccrueTypes DEF BillExcluded
  <2> QED
    BY <1>0, <1>13, <2>1, <2>2
       DEF BillExcluded, reaperElse, redisVars, history, RedisTypeOK, HistoryTypeOK
<1>14. CASE WriteOrphanStatus(g)
  <2>1. ReaperTypeOK'
    BY <1>14, HeldByReaper, StepTypes DEF WriteOrphanStatus, ReaperPCs, ReapPCs
  <2>2. state' \in [Jobs -> JobStates]
    BY <1>14, HeldByReaper, StatusTypes DEF WriteOrphanStatus
  <2> QED
    BY <1>0, <1>14, <2>1, <2>2
       DEF WriteOrphanStatus, reaperElse, redisVars, history, RedisTypeOK, HistoryTypeOK
<1>15. CASE DropOrphanPayload(g)
  <2>1. ReaperTypeOK'
    BY <1>15, HeldByReaper, StepTypes DEF DropOrphanPayload, ReaperPCs, ReapPCs
  <2> QED
    BY <1>0, <1>15, <2>1
       DEF DropOrphanPayload, reaperElse, redisVars, history, RedisTypeOK, HistoryTypeOK
<1>16. CASE EmitOrphanEnd(g)
  <2>1. ReaperTypeOK'
    BY <1>16, HeldByReaper, StepTypes DEF EmitOrphanEnd, ReaperPCs, ReapPCs
  <2>2. stream' \in [Jobs -> Seq(TerminalTypes \cup {"retry"})]
    BY <1>16, HeldByReaper, EmitTypes DEF EmitOrphanEnd
  <2> QED
    BY <1>0, <1>16, <2>1, <2>2
       DEF EmitOrphanEnd, reaperElse, redisVars, history, RedisTypeOK, HistoryTypeOK
<1>17. CASE RemoveStranded(g)
  <2>1. ReaperTypeOK'
    BY <1>17, HeldByReaper, StepTypes DEF RemoveStranded, ReaperPCs, ReapPCs
  <2>2. proc' \in [Workers -> SUBSET Entries]
    BY <1>17, HeldByReaper DEF RemoveStranded, RedisTypeOK
  <2> QED
    BY <1>0, <1>17, <2>1, <2>2
       DEF RemoveStranded, reaperElse, redisVars, history, RedisTypeOK, HistoryTypeOK
<1>18. CASE Release(g)
  <2>1. ReaperTypeOK'
    <3> DEFINE l == [IdleReaper EXCEPT !.pc = "list", !.list = rp[g].list]
    <3>1. rp[g].list \in Workers
      BY <1>18, HeldByReaper DEF Release
    <3>2. l \in ReaperLocals /\ ReaperShape(l)
      BY <3>1 DEF IdleReaper, ReaperLocals, ReaperPCs, ReaperShape
    <3> QED
      BY <1>18, <3>2, ReaperUpdate DEF Release
  <2>2. claim' \in [Entries -> Gateways \cup {None}] /\ failures' \in [Entries -> Nat]
    BY <1>18, HeldByReaper, ForgetTypes DEF Release
  <2> QED
    BY <1>0, <1>18, <2>1, <2>2
       DEF Release, reaperElse, history, RedisTypeOK, HistoryTypeOK
<1>19. CASE Defer(g)
  <2>1. ReaperTypeOK'
    BY <1>19, HeldByReaper, StepTypes, RestTypes DEF Defer, ReaperPCs, ReapPCs
  <2>2. claim' \in [Entries -> Gateways \cup {None}]
    BY <1>19, HeldByReaper DEF Defer, RedisTypeOK
  <2>3. failures' \in [Entries -> Nat]
    <3>1. failures' = [failures EXCEPT ![Held(g)] = failures[Held(g)] + 1]
      BY <1>19 DEF Defer
    <3>2. Held(g) \in Entries
      BY <1>19, HeldByReaper DEF Defer
    <3>3. failures[Held(g)] + 1 \in Nat
      BY <3>2 DEF RedisTypeOK
    <3> QED
      BY <3>1, <3>3 DEF RedisTypeOK
  <2> QED
    BY <1>0, <1>19, <2>1, <2>2, <2>3
       DEF Defer, reaperElse, redisVars, history, RedisTypeOK, HistoryTypeOK
<1>20. CASE SetAside(g)
  <2>0. rp[g].list \in Workers /\ Held(g) \in Entries
    BY <1>20, HeldByReaper DEF SetAside
  <2>1. ReaperTypeOK'
    BY <1>20, RestTypes DEF SetAside
  <2>2. claim' \in [Entries -> Gateways \cup {None}] /\ failures' \in [Entries -> Nat]
    BY <1>20, HeldByReaper, ForgetTypes DEF SetAside
  <2>3. /\ proc' \in [Workers -> SUBSET Entries]
        /\ undeliverable' \subseteq Entries /\ trimmed' \subseteq Entries
    <3>1. CASE UNCHANGED <<proc, undeliverable, trimmed>>
      BY <3>1 DEF RedisTypeOK, HistoryTypeOK
    <3>2. ASSUME NEW e \in proc[rp[g].list], PutAside(e),
                 proc' = [proc EXCEPT ![rp[g].list] = @ \ {e}]
          PROVE  /\ proc' \in [Workers -> SUBSET Entries]
                 /\ undeliverable' \subseteq Entries /\ trimmed' \subseteq Entries
      BY <2>0, <3>2, PutAsideSets DEF Aside, RedisTypeOK, HistoryTypeOK
    <3> QED
      BY <1>20, <3>1, <3>2, SetAsideSets
  <2> QED
    BY <1>0, <1>20, <2>1, <2>2, <2>3
       DEF SetAside, reaperElse, RedisTypeOK, HistoryTypeOK
<1> QED
  BY <1>1, <1>2, <1>3, <1>4, <1>5, <1>6, <1>7, <1>8, <1>9, <1>10, <1>11,
     <1>12, <1>13, <1>14, <1>15, <1>16, <1>17, <1>18, <1>19, <1>20
     DEF ReaperStep

ReaperChance(g) ==
  \/ \E w \in Workers : FindDeadList(g, w)
  \/ GatewayDies(g)
  \/ ReapBlip(g)
  \/ \E e \in Entries : ClaimExpires(e)

LEMMA ReaperChanceTypes ==
  ASSUME TypeOK, NEW g \in Gateways, ReaperChance(g)
  PROVE  TypeOK'
<1> USE DEF TypeOK
<1>0. WorkerTypeOK'
  BY DEF ReaperChance, FindDeadList, GatewayDies, ReapBlip, ClaimExpires,
         reaperElse, WorkerTypeOK
<1>1. CASE \E w \in Workers : FindDeadList(g, w)
  <2>1. PICK w \in Workers : FindDeadList(g, w)
    BY <1>1
  <2>2. ReaperTypeOK'
    <3> DEFINE l == [IdleReaper EXCEPT !.pc = "list", !.list = w]
    <3>1. l \in ReaperLocals /\ ReaperShape(l)
      BY DEF IdleReaper, ReaperLocals, ReaperPCs, ReaperShape
    <3> QED
      BY <2>1, <3>1, ReaperUpdate DEF FindDeadList
  <2> QED
    BY <1>0, <2>1, <2>2
       DEF FindDeadList, reaperElse, redisVars, history, RedisTypeOK,
           HistoryTypeOK
<1>2. CASE GatewayDies(g)
  <2>1. faults' \in [FaultKinds -> Nat]
    BY <1>2, FaultTypes DEF GatewayDies, FaultKinds
  <2>2. ReaperTypeOK'
    BY <1>2, RestTypes DEF GatewayDies
  <2> QED
    BY <1>0, <1>2, <2>1, <2>2
       DEF GatewayDies, redisVars, history, RedisTypeOK, HistoryTypeOK
<1>3. CASE ReapBlip(g)
  <2>1. faults' \in [FaultKinds -> Nat]
    BY <1>3, FaultTypes DEF ReapBlip, FaultKinds
  <2>2. ReaperTypeOK'
    <3>1. CASE Step(g, "defer") /\ rp[g].pc \in ReapPCs
      BY <3>1, HeldByReaper, StepTypes DEF ReaperPCs, ReapPCs
    <3>2. CASE Step(g, "status") /\ rp[g].pc = "bill"
      BY <3>2, HeldByReaper, StepTypes DEF ReaperPCs, ReapPCs
    <3>3. CASE Rest(g)
      BY <3>3, RestTypes
    <3> QED
      BY <1>3, <3>1, <3>2, <3>3 DEF ReapBlip
  <2> QED
    BY <1>0, <1>3, <2>1, <2>2
       DEF ReapBlip, redisVars, history, RedisTypeOK, HistoryTypeOK
<1>4. CASE \E e \in Entries : ClaimExpires(e)
  <2>1. PICK e \in Entries : ClaimExpires(e)
    BY <1>4
  <2>2. faults' \in [FaultKinds -> Nat]
    BY <2>1, FaultTypes DEF ClaimExpires, FaultKinds, HistoryTypeOK
  <2>3. claim' \in [Entries -> Gateways \cup {None}]
    BY <2>1 DEF ClaimExpires, RedisTypeOK
  <2>4. ReaperTypeOK'
    BY <2>1 DEF ClaimExpires, ReaperTypeOK
  <2> QED
    BY <1>0, <2>1, <2>2, <2>3, <2>4
       DEF ClaimExpires, history, RedisTypeOK, HistoryTypeOK
<1> QED
  BY <1>1, <1>2, <1>3, <1>4 DEF ReaperChance

-----------------------------------------------------------------------------
(* The retries granted, and the ones spent *)

RetriesOK == RetriesCounted /\ RetriesPromised

\* A step that counts nothing, enqueues nothing and grants no reap a retry.
LEMMA RetriesKept ==
  ASSUME TypeOK, TypeOK', RetriesOK, UNCHANGED requeues,
         \A i \in Jobs : state'[i].count = state[i].count,
         \A i \in Jobs : /\ Counted(i)' \subseteq Counted(i)
                         /\ Requeuing(i)' \subseteq Requeuing(i)
  PROVE  RetriesOK'
<1> SUFFICES ASSUME NEW i \in Jobs
             PROVE  /\ requeues'[i] + Cardinality(Counted(i)') <= state'[i].count
                    /\ requeues'[i] + Cardinality(Requeuing(i)') <= MaxJobRetries
  BY DEF RetriesOK, RetriesCounted, RetriesPromised
<1>1. /\ requeues[i] + Cardinality(Counted(i)) <= state[i].count
      /\ requeues[i] + Cardinality(Requeuing(i)) <= MaxJobRetries
  BY DEF RetriesOK, RetriesCounted, RetriesPromised
<1>2. /\ Cardinality(Counted(i)') \in Nat
      /\ Cardinality(Counted(i)') <= Cardinality(Counted(i))
      /\ Cardinality(Counted(i)) \in Nat
  BY CountedFinite, FS_Subset, FS_CardinalityType
<1>3. /\ Cardinality(Requeuing(i)') \in Nat
      /\ Cardinality(Requeuing(i)') <= Cardinality(Requeuing(i))
      /\ Cardinality(Requeuing(i)) \in Nat
  BY CountedFinite, FS_Subset, FS_CardinalityType
<1>4. requeues'[i] = requeues[i] /\ requeues[i] \in Nat /\ state[i].count \in Nat
  BY DEF TypeOK, HistoryTypeOK, RedisTypeOK, JobStates
<1> QED
  BY <1>1, <1>2, <1>3, <1>4, BoundsAssumption

\* The reaper of g has moved, and holds no counted retry now.
Quiet(g) ==
  /\ rp'[g].pc \notin {"requeue", "handback"}
  /\ \A h \in Gateways \ {g} : rp'[h] = rp[h]

LEMMA QuietMoves ==
  ASSUME ReaperTypeOK, NEW g \in Gateways,
         \/ \E pc \in ReaperPCs \ {"requeue", "handback"} : Step(g, pc)
         \/ \E out \in TerminalTypes : Decide(g, out)
         \/ Rest(g)
  PROVE  Quiet(g)
<1>1. ASSUME NEW pc \in ReaperPCs \ {"requeue", "handback"}, Step(g, pc)
      PROVE  Quiet(g)
  BY <1>1 DEF ReaperTypeOK, ReaperLocals, Step, Quiet
<1>2. ASSUME NEW out \in TerminalTypes, Decide(g, out)
      PROVE  Quiet(g)
  BY <1>2 DEF ReaperTypeOK, ReaperLocals, Decide, Quiet
<1>3. CASE Rest(g)
  BY <1>3 DEF ReaperTypeOK, Rest, IdleReaper, Quiet
<1> QED
  BY <1>1, <1>2, <1>3

LEMMA QuietKept ==
  ASSUME NEW g \in Gateways, Quiet(g), NEW i
  PROVE  /\ Counted(i)' \subseteq Counted(i)
         /\ Requeuing(i)' \subseteq Requeuing(i)
  BY DEF Quiet, Counted, Requeuing, Stranded

LEMMA QuietRetries ==
  ASSUME TypeOK, TypeOK', RetriesOK, NEW g \in Gateways, Quiet(g),
         UNCHANGED requeues,
         \A i \in Jobs : state'[i].count = state[i].count
  PROVE  RetriesOK'
  BY RetriesKept, QuietKept

LEMMA CountRetryRetries ==
  ASSUME TypeOK, TypeOK', RetriesOK, NEW g \in Gateways, CountRetry(g)
  PROVE  RetriesOK'
<1> DEFINE j == Stranded(g)
           n == state[j].count + 1
<1>1. j \in Jobs
  BY HeldByReaper DEF CountRetry
<1>2. n \in Nat /\ state' = [state EXCEPT ![j].count = n] /\ requeues' = requeues
  BY <1>1 DEF CountRetry, history, TypeOK, RedisTypeOK, JobStates
<1>3. \A i \in Jobs : state'[i].count = IF i = j THEN n ELSE state[i].count
  BY <1>1, <1>2, CountTypes DEF TypeOK
<1>4. /\ rp'[g].pc = (IF n > MaxJobRetries THEN "handback" ELSE "requeue")
      /\ Stranded(g)' = j
      /\ \A h \in Gateways \ {g} : rp'[h] = rp[h]
  BY DEF CountRetry, Stranded, TypeOK, ReaperTypeOK, ReaperLocals
<1>5. \A i \in Jobs : Counted(i)' = IF i = j THEN Counted(i) \cup {g} ELSE Counted(i)
  BY <1>4 DEF Counted, CountRetry, Stranded
<1>6. g \notin Counted(j)
  BY DEF Counted, CountRetry
<1>7. \A i \in Jobs : Requeuing(i)' = IF i = j /\ n <= MaxJobRetries
                                       THEN Requeuing(i) \cup {g} ELSE Requeuing(i)
  BY <1>2, <1>4, BoundsAssumption DEF Requeuing, CountRetry, Stranded
<1>8. RetriesCounted'
  <2> SUFFICES ASSUME NEW i \in Jobs
               PROVE  requeues'[i] + Cardinality(Counted(i)') <= state'[i].count
    BY DEF RetriesCounted
  <2>1. requeues[i] \in Nat /\ state[i].count \in Nat
    BY DEF TypeOK, HistoryTypeOK, RedisTypeOK, JobStates
  <2>2. requeues[i] + Cardinality(Counted(i)) <= state[i].count
    BY DEF RetriesOK, RetriesCounted
  <2>3. CASE i = j
    <3>1. Cardinality(Counted(i)') = Cardinality(Counted(i)) + 1
      BY <1>1, <1>5, <1>6, <2>3, CountedFinite, FS_AddElement
    <3> QED
      BY <1>2, <1>3, <2>1, <2>2, <2>3, <3>1, CountedFinite
  <2>4. CASE i # j
    BY <1>2, <1>3, <1>5, <2>2, <2>4
  <2> QED
    BY <2>3, <2>4
<1>9. RetriesPromised'
  <2> SUFFICES ASSUME NEW i \in Jobs
               PROVE  requeues'[i] + Cardinality(Requeuing(i)') <= MaxJobRetries
    BY DEF RetriesPromised
  <2>1. requeues[i] \in Nat
    BY DEF TypeOK, HistoryTypeOK
  <2>2. requeues[i] + Cardinality(Requeuing(i)) <= MaxJobRetries
    BY DEF RetriesOK, RetriesPromised
  <2>3. CASE i = j /\ n <= MaxJobRetries
    <3>1. Cardinality(Counted(i)) <= n - 1 - requeues[i]
      <4>1. state[i].count \in Nat /\ n = state[i].count + 1
        BY <2>3 DEF TypeOK, RedisTypeOK, JobStates
      <4>2. requeues[i] + Cardinality(Counted(i)) <= state[i].count
        BY DEF RetriesOK, RetriesCounted
      <4> QED
        BY <2>1, <4>1, <4>2, CountedFinite
    <3>2. Requeuing(i) \subseteq Counted(i)
      BY DEF Requeuing, Counted
    <3>3. Cardinality(Requeuing(i)) <= Cardinality(Counted(i))
      BY <3>2, CountedFinite, FS_Subset
    <3>4. g \notin Requeuing(i)
      BY DEF Requeuing, CountRetry
    <3>5. Cardinality(Requeuing(i)') = Cardinality(Requeuing(i)) + 1
      BY <1>7, <2>3, <3>4, CountedFinite, FS_AddElement
    <3> QED
      BY <1>2, <2>1, <2>3, <3>1, <3>3, <3>5, CountedFinite, BoundsAssumption
  <2>4. CASE ~ (i = j /\ n <= MaxJobRetries)
    BY <1>2, <1>7, <2>2, <2>4
  <2> QED
    BY <2>3, <2>4
<1> QED
  BY <1>8, <1>9 DEF RetriesOK

LEMMA HandBackRetries ==
  ASSUME TypeOK, TypeOK', RetriesOK, NEW g \in Gateways, HandBack(g)
  PROVE  RetriesOK'
<1> DEFINE j == Stranded(g)
<1>1. j \in Jobs /\ g \in Counted(j)
  BY HeldByReaper DEF HandBack, Counted
<1>2. state[j].count - 1 \in Nat
  BY <1>1, CountedPositive DEF RetriesOK
<1>3. /\ \A i \in Jobs : state'[i].count =
           IF i = j THEN state[j].count - 1 ELSE state[i].count
      /\ requeues' = requeues
  BY <1>1, <1>2, CountTypes DEF HandBack, history, TypeOK
<1>4. Quiet(g)
  BY QuietMoves DEF HandBack, TypeOK, TerminalTypes
<1>5. \A i \in Jobs : Counted(i)' = Counted(i) \ {g}
  BY <1>4 DEF Quiet, Counted, Stranded
<1>6. RetriesCounted'
  <2> SUFFICES ASSUME NEW i \in Jobs
               PROVE  requeues'[i] + Cardinality(Counted(i)') <= state'[i].count
    BY DEF RetriesCounted
  <2>1. requeues[i] \in Nat /\ state[i].count \in Nat
    BY DEF TypeOK, HistoryTypeOK, RedisTypeOK, JobStates
  <2>2. requeues[i] + Cardinality(Counted(i)) <= state[i].count
    BY DEF RetriesOK, RetriesCounted
  <2>3. CASE i = j
    <3>1. Cardinality(Counted(i)') = Cardinality(Counted(i)) - 1
      BY <1>1, <1>5, <2>3, CountedFinite, FS_RemoveElement
    <3> QED
      BY <1>1, <1>3, <2>1, <2>2, <2>3, <3>1, CountedFinite
  <2>4. CASE i # j
    <3>1. Counted(i)' = Counted(i)
      BY <1>5, <2>4 DEF Counted
    <3> QED
      BY <1>3, <2>2, <2>4, <3>1
  <2> QED
    BY <2>3, <2>4
<1>7. RetriesPromised'
  <2> SUFFICES ASSUME NEW i \in Jobs
               PROVE  requeues'[i] + Cardinality(Requeuing(i)') <= MaxJobRetries
    BY DEF RetriesPromised
  <2>1. Requeuing(i)' = Requeuing(i)
    BY <1>4 DEF Quiet, Requeuing, Stranded, HandBack
  <2> QED
    BY <1>3, <2>1 DEF RetriesOK, RetriesPromised
<1> QED
  BY <1>6, <1>7 DEF RetriesOK

LEMMA RequeueRetries ==
  ASSUME TypeOK, TypeOK', RetriesOK, NEW g \in Gateways, Requeue(g)
  PROVE  RetriesOK'
<1> DEFINE j == Stranded(g)
<1>1. j \in Jobs /\ state' = state
  BY HeldByReaper DEF Requeue
<1>2. CASE Step(g, "handback") /\ requeues' = requeues
  <2>1. /\ rp'[g].pc = "handback" /\ Stranded(g)' = j
        /\ \A h \in Gateways \ {g} : rp'[h] = rp[h]
    BY <1>2 DEF Step, Stranded, TypeOK, ReaperTypeOK, ReaperLocals
  <2>2. \A i \in Jobs : /\ Counted(i)' \subseteq Counted(i)
                        /\ Requeuing(i)' \subseteq Requeuing(i)
    BY <2>1 DEF Counted, Requeuing, Stranded, Requeue
  <2> QED
    BY <1>1, <1>2, <2>2, RetriesKept
<1>3. CASE Step(g, "mark") /\ requeues' = [requeues EXCEPT ![j] = @ + 1]
  <2>1. Quiet(g)
    BY <1>3, QuietMoves DEF TypeOK, ReaperPCs, ReapPCs
  <2>2. \A i \in Jobs : /\ Counted(i)' = Counted(i) \ {g}
                        /\ Requeuing(i)' = Requeuing(i) \ {g}
    BY <2>1 DEF Quiet, Counted, Requeuing, Stranded
  <2>3. g \in Counted(j) /\ g \in Requeuing(j)
    BY DEF Requeue, Counted, Requeuing
  <2> SUFFICES ASSUME NEW i \in Jobs
               PROVE  /\ requeues'[i] + Cardinality(Counted(i)') <= state'[i].count
                      /\ requeues'[i] + Cardinality(Requeuing(i)') <= MaxJobRetries
    BY DEF RetriesOK, RetriesCounted, RetriesPromised
  <2>4. requeues[i] \in Nat /\ state[i].count \in Nat /\ state'[i] = state[i]
    BY <1>1 DEF TypeOK, HistoryTypeOK, RedisTypeOK, JobStates
  <2>5. /\ requeues[i] + Cardinality(Counted(i)) <= state[i].count
        /\ requeues[i] + Cardinality(Requeuing(i)) <= MaxJobRetries
    BY DEF RetriesOK, RetriesCounted, RetriesPromised
  <2>6. CASE i = j
    <3>1. /\ Cardinality(Counted(i)') = Cardinality(Counted(i)) - 1
          /\ Cardinality(Requeuing(i)') = Cardinality(Requeuing(i)) - 1
      BY <2>2, <2>3, <2>6, CountedFinite, FS_RemoveElement
    <3>2. requeues'[i] = requeues[i] + 1
      BY <1>1, <1>3, <2>6 DEF TypeOK, HistoryTypeOK
    <3> QED
      BY <2>4, <2>5, <3>1, <3>2, CountedFinite, BoundsAssumption
  <2>7. CASE i # j
    <3>1. Counted(i)' = Counted(i) /\ Requeuing(i)' = Requeuing(i)
      BY <2>2, <2>7 DEF Counted, Requeuing
    <3>2. requeues'[i] = requeues[i]
      BY <1>1, <1>3, <2>7 DEF TypeOK, HistoryTypeOK
    <3> QED
      BY <2>4, <2>5, <3>1, <3>2
  <2> QED
    BY <2>6, <2>7
<1> QED
  BY <1>2, <1>3 DEF Requeue

LEMMA ReaperRetries ==
  ASSUME TypeOK, TypeOK', RetriesOK, NEW g \in Gateways, ReaperStep(g)
  PROVE  RetriesOK'
<1> USE DEF TypeOK
<1>1. CASE ReadTail(g)
  <2>1. Quiet(g)
    <3>1. CASE Rest(g)
      BY <3>1, QuietMoves
    <3>2. ASSUME NEW e,
                 rp' = [rp EXCEPT ![g] = [@ EXCEPT !.pc = "claim", !.entry = e]]
          PROVE  Quiet(g)
      BY <3>2 DEF Quiet, ReaperTypeOK, ReaperLocals
    <3> QED
      BY <1>1, <3>1, <3>2 DEF ReadTail
  <2>2. \A i \in Jobs : state'[i].count = state[i].count
    BY <1>1 DEF ReadTail, redisVars
  <2> QED
    BY <1>1, <2>1, <2>2, QuietRetries DEF ReadTail, history
<1>2. CASE TakeClaim(g)
  <2>1. Quiet(g)
    BY <1>2, QuietMoves DEF TakeClaim, ReaperPCs, ReapPCs, TerminalTypes
  <2>2. \A i \in Jobs : state'[i].count = state[i].count
    BY <1>2 DEF TakeClaim, redisVars
  <2> QED
    BY <1>2, <2>1, <2>2, QuietRetries DEF TakeClaim, history
<1>3. CASE CheckRequeued(g)
  <2>1. Quiet(g)
    BY <1>3, QuietMoves DEF CheckRequeued, ReaperPCs, ReapPCs, TerminalTypes
  <2>2. \A i \in Jobs : state'[i].count = state[i].count
    BY <1>3 DEF CheckRequeued, redisVars
  <2> QED
    BY <1>3, <2>1, <2>2, QuietRetries DEF CheckRequeued, history
<1>4. CASE Fence(g)
  <2>1. Quiet(g)
    BY <1>4, QuietMoves DEF Fence, ReaperPCs, ReapPCs, TerminalTypes
  <2>2. \A i \in Jobs : state'[i].count = state[i].count
    BY <1>4, HeldByReaper, OwnerTypes DEF Fence, CountersKept
  <2> QED
    BY <1>4, <2>1, <2>2, QuietRetries DEF Fence, history
<1>5. CASE ReadPhase(g)
  <2>1. Quiet(g)
    BY <1>5, QuietMoves DEF ReadPhase, ReaperPCs, ReapPCs, TerminalTypes
  <2>2. \A i \in Jobs : state'[i].count = state[i].count
    BY <1>5 DEF ReadPhase, redisVars
  <2> QED
    BY <1>5, <2>1, <2>2, QuietRetries DEF ReadPhase, history
<1>6. CASE FetchStranded(g)
  <2>1. Quiet(g)
    BY <1>6, QuietMoves DEF FetchStranded, ReaperPCs, ReapPCs, TerminalTypes
  <2>2. \A i \in Jobs : state'[i].count = state[i].count
    BY <1>6 DEF FetchStranded, redisVars
  <2> QED
    BY <1>6, <2>1, <2>2, QuietRetries DEF FetchStranded, history
<1>7. CASE CheckDepth(g)
  <2>1. Quiet(g)
    BY <1>7, QuietMoves DEF CheckDepth, ReaperPCs, ReapPCs, TerminalTypes
  <2>2. \A i \in Jobs : state'[i].count = state[i].count
    BY <1>7 DEF CheckDepth, redisVars
  <2> QED
    BY <1>7, <2>1, <2>2, QuietRetries DEF CheckDepth, history
<1>8. CASE MarkRequeued(g)
  <2>1. Quiet(g)
    BY <1>8, QuietMoves DEF MarkRequeued, ReaperPCs, ReapPCs, TerminalTypes
  <2>2. \A i \in Jobs : state'[i].count = state[i].count
    BY <1>8, HeldByReaper DEF MarkRequeued, HSet, RedisTypeOK, JobStates
  <2> QED
    BY <1>8, <2>1, <2>2, QuietRetries DEF MarkRequeued, history
<1>9. CASE AnnounceRetry(g)
  <2>1. Quiet(g)
    BY <1>9, QuietMoves DEF AnnounceRetry, ReaperPCs, ReapPCs, TerminalTypes
  <2>2. \A i \in Jobs : state'[i].count = state[i].count
    BY <1>9 DEF AnnounceRetry, redisVars
  <2> QED
    BY <1>9, <2>1, <2>2, QuietRetries DEF AnnounceRetry, history
<1>10. CASE BillExcluded(g)
  <2>1. Quiet(g)
    BY <1>10, QuietMoves DEF BillExcluded, ReaperPCs, ReapPCs, TerminalTypes
  <2>2. \A i \in Jobs : state'[i].count = state[i].count
    BY <1>10, HeldByReaper, AccrueTypes DEF BillExcluded, CountersKept
  <2> QED
    BY <1>10, <2>1, <2>2, QuietRetries DEF BillExcluded, history
<1>11. CASE WriteOrphanStatus(g)
  <2>1. Quiet(g)
    BY <1>11, QuietMoves DEF WriteOrphanStatus, ReaperPCs, ReapPCs, TerminalTypes
  <2>2. \A i \in Jobs : state'[i].count = state[i].count
    BY <1>11, HeldByReaper, StatusTypes DEF WriteOrphanStatus, CountersKept
  <2> QED
    BY <1>11, <2>1, <2>2, QuietRetries DEF WriteOrphanStatus, history
<1>12. CASE DropOrphanPayload(g)
  <2>1. Quiet(g)
    BY <1>12, QuietMoves DEF DropOrphanPayload, ReaperPCs, ReapPCs, TerminalTypes
  <2>2. \A i \in Jobs : state'[i].count = state[i].count
    BY <1>12 DEF DropOrphanPayload, redisVars
  <2> QED
    BY <1>12, <2>1, <2>2, QuietRetries DEF DropOrphanPayload, history
<1>13. CASE EmitOrphanEnd(g)
  <2>1. Quiet(g)
    BY <1>13, QuietMoves DEF EmitOrphanEnd, ReaperPCs, ReapPCs, TerminalTypes
  <2>2. \A i \in Jobs : state'[i].count = state[i].count
    BY <1>13 DEF EmitOrphanEnd, redisVars
  <2> QED
    BY <1>13, <2>1, <2>2, QuietRetries DEF EmitOrphanEnd, history
<1>14. CASE RemoveStranded(g)
  <2>1. Quiet(g)
    BY <1>14, QuietMoves DEF RemoveStranded, ReaperPCs, ReapPCs, TerminalTypes
  <2>2. \A i \in Jobs : state'[i].count = state[i].count
    BY <1>14 DEF RemoveStranded, redisVars
  <2> QED
    BY <1>14, <2>1, <2>2, QuietRetries DEF RemoveStranded, history
<1>15. CASE Release(g)
  <2>1. Quiet(g)
    BY <1>15 DEF Release, IdleReaper, Quiet, ReaperTypeOK, ReaperLocals
  <2>2. \A i \in Jobs : state'[i].count = state[i].count
    BY <1>15 DEF Release, redisVars
  <2> QED
    BY <1>15, <2>1, <2>2, QuietRetries DEF Release, history
<1>16. CASE Defer(g)
  <2>1. Quiet(g)
    BY <1>16, QuietMoves DEF Defer, ReaperPCs, ReapPCs, TerminalTypes
  <2>2. \A i \in Jobs : state'[i].count = state[i].count
    BY <1>16 DEF Defer, redisVars
  <2> QED
    BY <1>16, <2>1, <2>2, QuietRetries DEF Defer, history
<1>17. CASE SetAside(g)
  <2>1. Quiet(g)
    BY <1>17, QuietMoves DEF SetAside, ReaperPCs, ReapPCs, TerminalTypes
  <2>2. \A i \in Jobs : state'[i].count = state[i].count
    BY <1>17 DEF SetAside, redisVars
  <2> QED
    BY <1>17, <2>1, <2>2, QuietRetries DEF SetAside
<1> QED
  BY <1>1, <1>2, <1>3, <1>4, <1>5, <1>6, <1>7, <1>8, <1>9, <1>10, <1>11, <1>12, <1>13, <1>14, <1>15, <1>16, <1>17,
     CountRetryRetries, HandBackRetries, RequeueRetries DEF ReaperStep

LEMMA ReaperChanceRetries ==
  ASSUME TypeOK, TypeOK', RetriesOK, NEW g \in Gateways, ReaperChance(g)
  PROVE  RetriesOK'
<1> USE DEF TypeOK
<1>1. CASE \E w \in Workers : FindDeadList(g, w)
  <2>1. Quiet(g)
    BY <1>1 DEF FindDeadList, IdleReaper, Quiet, ReaperTypeOK, ReaperLocals
  <2> QED
    BY <1>1, <2>1, QuietRetries DEF FindDeadList, redisVars, history
<1>2. CASE GatewayDies(g)
  <2>1. Quiet(g)
    BY <1>2, QuietMoves DEF GatewayDies
  <2> QED
    BY <1>2, <2>1, QuietRetries DEF GatewayDies, redisVars, history
<1>3. CASE ReapBlip(g)
  <2>1. Quiet(g)
    BY <1>3, QuietMoves DEF ReapBlip, ReaperPCs, ReapPCs
  <2> QED
    BY <1>3, <2>1, QuietRetries DEF ReapBlip, redisVars, history
<1>4. CASE \E e \in Entries : ClaimExpires(e)
  BY <1>4, RetriesKept
     DEF ClaimExpires, history, Counted, Requeuing, Stranded
<1> QED
  BY <1>1, <1>2, <1>3, <1>4 DEF ReaperChance

-----------------------------------------------------------------------------
(* The counters a worker and a submission leave alone *)

LEMMA WorkerCounters ==
  ASSUME TypeOK, NEW w \in Workers, Pop(w) \/ WorkerStep(w) \/ WorkerChance(w),
         ~ StartJob(w), ~ BillSubmitter(w)
  PROVE  CountersKept /\ UNCHANGED <<bills, starts>>
<1> USE DEF TypeOK
<1>1. CASE ClaimExecuting(w)
  <2>1. CountersKept
    BY <1>1, HeldByWorker, PhaseTypes DEF ClaimExecuting, CountersKept, FreePCs, Phases
  <2> QED
    BY <1>1, <2>1 DEF ClaimExecuting, history
<1>2. CASE WriteStatus(w)
  <2>1. CountersKept
    BY <1>2, HeldByWorker, StatusTypes DEF WriteStatus, FreePCs
  <2> QED
    BY <1>2, <2>1 DEF WriteStatus, history
<1>3. CASE WorkerChance(w)
  BY <1>3 DEF WorkerChance, Heartbeat, HeartbeatExpires, Die, Retire,
              HeartbeatLapses, WorkerBlip, redisVars, history, CountersKept
<1>4. CASE Pop(w) \/ FetchPayload(w) \/ PrologueRaises(w) \/ CheckCancelled(w)
           \/ SubmitPrompt(w) \/ SubmitRaises(w) \/ PromptEnds(w) \/ RunRaises(w)
  BY <1>4 DEF Pop, FetchPayload, PrologueRaises, CheckCancelled, SubmitPrompt,
              SubmitRaises, PromptEnds, RunRaises, history, CountersKept
<1>5. CASE CheckOwner(w) \/ EmitTerminal(w) \/ RemoveEntry(w) \/ DropPayload(w)
           \/ CrashOut(w) \/ Deregister(w)
  BY <1>5 DEF CheckOwner, EmitTerminal, RemoveEntry, DropPayload, CrashOut,
              Deregister, history, CountersKept
<1> QED
  BY <1>1, <1>2, <1>3, <1>4, <1>5 DEF WorkerStep

LEMMA SubmitCounters ==
  ASSUME TypeOK, NEW j \in Jobs, SubmitStep(j)
  PROVE  CountersKept /\ UNCHANGED <<bills, starts, requeues, rp>>
<1> USE DEF TypeOK
<1>1. CASE Enqueue(j) \/ SubmitDies(j)
  BY <1>1 DEF Enqueue, SubmitDies, submitElse, CountersKept
<1>2. CASE WriteState(j)
  <2>1. CountersKept
    BY <1>2 DEF WriteState, HSet, RedisTypeOK, JobStates, CountersKept
  <2> QED
    BY <1>2, <2>1 DEF WriteState, submitElse
<1>3. CASE Cancel(j)
  BY <1>3, CancelTypes DEF Cancel, submitElse
<1> QED
  BY <1>1, <1>2, <1>3 DEF SubmitStep

LEMMA ElsewhereRetries ==
  ASSUME TypeOK, TypeOK', RetriesOK, CountersKept, UNCHANGED <<rp, requeues>>
  PROVE  RetriesOK'
  BY RetriesKept DEF CountersKept, Counted, Requeuing, Stranded

LEMMA WorkerRetries ==
  ASSUME TypeOK, TypeOK', RetriesOK, NEW w \in Workers,
         Pop(w) \/ WorkerStep(w) \/ WorkerChance(w)
  PROVE  RetriesOK'
<1> USE DEF TypeOK
<1>1. UNCHANGED <<rp, requeues>>
  BY DEF Pop, WorkerStep, FetchPayload, StartJob, PrologueRaises,
         CheckCancelled, ClaimExecuting, SubmitPrompt, SubmitRaises, PromptEnds,
         RunRaises, CheckOwner, BillSubmitter, WriteStatus, EmitTerminal,
         RemoveEntry, DropPayload, CrashOut, Deregister, workerElse, history,
         WorkerChance, Heartbeat, HeartbeatExpires, Die, Retire,
         HeartbeatLapses, WorkerBlip
<1>2. CASE StartJob(w)
  <2>1. \A i \in Jobs : state'[i].count = state[i].count
    BY <1>2 DEF StartJob, HSet, RedisTypeOK, JobStates
  <2> QED
    BY <1>1, <2>1, RetriesKept DEF Counted, Requeuing, Stranded
<1>3. CASE BillSubmitter(w)
  <2>1. \A i \in Jobs : state'[i].count = state[i].count
    BY <1>3, HeldByWorker, AccrueTypes DEF BillSubmitter, FreePCs
  <2> QED
    BY <1>1, <2>1, RetriesKept DEF Counted, Requeuing, Stranded
<1>4. CASE ~ StartJob(w) /\ ~ BillSubmitter(w)
  BY <1>1, <1>4, WorkerCounters, ElsewhereRetries
<1> QED
  BY <1>2, <1>3, <1>4

-----------------------------------------------------------------------------
(* The clocks started, and the ones billed *)

LEMMA ClocksKept ==
  ASSUME ClocksAccounted, UNCHANGED <<bills, starts>>,
         \A i \in Jobs : state'[i].clock = state[i].clock
  PROVE  ClocksAccounted'
  BY DEF ClocksAccounted

LEMMA AccrueClocks ==
  ASSUME TypeOK, ClocksAccounted, NEW j \in Jobs, Accrue(j), UNCHANGED starts
  PROVE  ClocksAccounted'
<1> SUFFICES ASSUME NEW i \in Jobs
             PROVE  bills'[i] + (IF state'[i].clock THEN 1 ELSE 0) <= starts'[i]
  BY DEF ClocksAccounted
<1>1. /\ state'[i].clock = (i # j /\ state[i].clock)
      /\ bills'[i] = IF i = j /\ state[i].clock THEN bills[i] + 1 ELSE bills[i]
  BY AccrueTypes DEF TypeOK
<1>2. bills[i] \in Nat /\ starts'[i] = starts[i] /\ starts[i] \in Nat
  BY DEF TypeOK, HistoryTypeOK
<1>3. bills[i] + (IF state[i].clock THEN 1 ELSE 0) <= starts[i]
  BY DEF ClocksAccounted
<1>4. CASE state[i].clock
  <2>1. bills[i] + 1 <= starts[i]
    BY <1>3, <1>4
  <2>2. CASE i = j
    <3>1. ~ state'[i].clock /\ bills'[i] = bills[i] + 1
      BY <1>1, <1>4, <2>2
    <3> QED
      BY <1>2, <2>1, <3>1
  <2>3. CASE i # j
    <3>1. bills'[i] = bills[i]
      BY <1>1, <2>3
    <3> QED
      BY <1>2, <2>1, <3>1
  <2> QED
    BY <2>2, <2>3
<1>5. CASE ~ state[i].clock
  BY <1>1, <1>2, <1>3, <1>5
<1> QED
  BY <1>4, <1>5

LEMMA StartClocks ==
  ASSUME TypeOK, ClocksAccounted, NEW w \in Workers, StartJob(w)
  PROVE  ClocksAccounted'
<1> USE DEF TypeOK
<1> DEFINE j == JobOf(w)
<1>1. j \in Jobs
  BY HeldByWorker DEF StartJob, FreePCs
<1> SUFFICES ASSUME NEW i \in Jobs
             PROVE  bills'[i] + (IF state'[i].clock THEN 1 ELSE 0) <= starts'[i]
  BY DEF ClocksAccounted
<1>2. bills'[i] = bills[i] /\ bills[i] \in Nat /\ starts[i] \in Nat
  BY DEF StartJob, HistoryTypeOK
<1>3. bills[i] + (IF state[i].clock THEN 1 ELSE 0) <= starts[i]
  BY DEF ClocksAccounted
<1>4. bills[i] <= starts[i]
  BY <1>2, <1>3
<1>5. CASE i = j
  <2>1. starts'[i] = starts[i] + 1
    BY <1>1, <1>5 DEF StartJob, HistoryTypeOK
  <2> QED
    BY <1>2, <1>4, <2>1
<1>6. CASE i # j
  <2>1. starts'[i] = starts[i] /\ state'[i] = state[i]
    BY <1>1, <1>6 DEF StartJob, HSet, HistoryTypeOK, RedisTypeOK
  <2> QED
    BY <1>2, <1>3, <2>1
<1> QED
  BY <1>5, <1>6

LEMMA WorkerClocks ==
  ASSUME TypeOK, ClocksAccounted, NEW w \in Workers,
         Pop(w) \/ WorkerStep(w) \/ WorkerChance(w)
  PROVE  ClocksAccounted'
<1>1. CASE StartJob(w)
  BY <1>1, StartClocks
<1>2. CASE BillSubmitter(w)
  BY <1>2, HeldByWorker, AccrueClocks DEF BillSubmitter, FreePCs
<1>3. CASE ~ StartJob(w) /\ ~ BillSubmitter(w)
  BY <1>3, WorkerCounters, ClocksKept DEF CountersKept
<1> QED
  BY <1>1, <1>2, <1>3

LEMMA ReaperClocks ==
  ASSUME TypeOK, ClocksAccounted, NEW g \in Gateways,
         RetriesCounted, ReaperStep(g) \/ ReaperChance(g)
  PROVE  ClocksAccounted'
<1> USE DEF TypeOK
<1>1. CASE BillExcluded(g)
  BY <1>1, HeldByReaper, AccrueClocks DEF BillExcluded
<1>2. CASE Fence(g)
  BY <1>2, HeldByReaper, OwnerTypes, ClocksKept DEF Fence, CountersKept
<1>3. CASE CountRetry(g)
  <2>1. state[Stranded(g)].count + 1 \in Nat
    <3>1. Stranded(g) \in Jobs
      BY <1>3, HeldByReaper DEF CountRetry
    <3> QED
      BY <3>1 DEF RedisTypeOK, JobStates
  <2> QED
    BY <1>3, <2>1, HeldByReaper, CountTypes, ClocksKept DEF CountRetry, history
<1>4. CASE HandBack(g)
  <2>1. Stranded(g) \in Jobs /\ g \in Counted(Stranded(g))
    BY <1>4, HeldByReaper DEF HandBack, Counted
  <2>2. state[Stranded(g)].count - 1 \in Nat
    BY <2>1, CountedPositive
  <2> QED
    BY <1>4, <2>1, <2>2, CountTypes, ClocksKept DEF HandBack, history
<1>5. CASE MarkRequeued(g)
  <2>1. \A i \in Jobs : state'[i].clock = state[i].clock
    BY <1>5, HeldByReaper DEF MarkRequeued, HSet, RedisTypeOK, JobStates
  <2> QED
    BY <1>5, <2>1, ClocksKept DEF MarkRequeued
<1>6. CASE WriteOrphanStatus(g)
  BY <1>6, HeldByReaper, StatusTypes, ClocksKept
     DEF WriteOrphanStatus, CountersKept, history
<1>7. CASE ReaperChance(g)
  BY <1>7, ClocksKept DEF ReaperChance, FindDeadList, GatewayDies, ReapBlip,
                          ClaimExpires, redisVars, history
<1>8. CASE ReadTail(g) \/ TakeClaim(g) \/ CheckRequeued(g) \/ ReadPhase(g)
           \/ FetchStranded(g) \/ CheckDepth(g)
  BY <1>8, ClocksKept DEF ReadTail, TakeClaim, CheckRequeued, ReadPhase,
                          FetchStranded, CheckDepth, redisVars, history
<1>9. CASE Requeue(g) \/ AnnounceRetry(g) \/ DropOrphanPayload(g)
           \/ EmitOrphanEnd(g)
  BY <1>9, ClocksKept DEF Requeue, AnnounceRetry, DropOrphanPayload,
                          EmitOrphanEnd, history
<1>10. CASE RemoveStranded(g) \/ Release(g) \/ Defer(g) \/ SetAside(g)
  BY <1>10, ClocksKept DEF RemoveStranded, Release, Defer, SetAside, history
<1> QED
  BY <1>1, <1>2, <1>3, <1>4, <1>5, <1>6, <1>7, <1>8, <1>9, <1>10 DEF ReaperStep

-----------------------------------------------------------------------------
(* The inductive invariant and what follows from it *)

IInv == TypeOK /\ RetriesOK /\ ClocksAccounted

LEMMA InitIInv == Init => IInv
<1> SUFFICES ASSUME Init PROVE IInv
  OBVIOUS
<1> USE DEF Init
<1>1. RedisTypeOK
  <2>1. NewJob \in JobStates
    BY DEF NewJob, JobStates
  <2>2. <<>> \in Seq(TerminalTypes \cup {"retry"})
    OBVIOUS
  <2> QED
    BY <2>1, <2>2 DEF RedisTypeOK
<1>2. WorkerTypeOK
  BY DEF WorkerTypeOK, IdleWorker, WorkerLocals, WorkerPCs, WorkerShape, FreePCs
<1>3. ReaperTypeOK
  BY DEF ReaperTypeOK, IdleReaper, ReaperLocals, ReaperPCs, ReaperShape
<1>4. HistoryTypeOK
  BY DEF HistoryTypeOK, Zero
<1>5. \A j \in Jobs : Counted(j) = {} /\ Requeuing(j) = {}
  BY DEF Counted, Requeuing, IdleReaper
<1>6. RetriesOK
  <2>1. \A j \in Jobs : /\ Cardinality(Counted(j)) = 0
                        /\ Cardinality(Requeuing(j)) = 0
    BY <1>5, FS_EmptySet
  <2>2. \A j \in Jobs : requeues[j] = 0 /\ state[j].count = 0
    BY DEF Zero, NewJob
  <2> QED
    BY <2>1, <2>2, BoundsAssumption
       DEF RetriesOK, RetriesCounted, RetriesPromised
<1>7. ClocksAccounted
  BY DEF ClocksAccounted, Zero, NewJob
<1> QED
  BY <1>1, <1>2, <1>3, <1>4, <1>6, <1>7 DEF IInv, TypeOK

LEMMA NextIInv == IInv /\ [Next]_vars => IInv'
<1> SUFFICES ASSUME IInv, [Next]_vars PROVE IInv'
  OBVIOUS
<1> USE DEF IInv
<1>1. ASSUME NEW w \in Workers, Pop(w) \/ WorkerStep(w) \/ WorkerChance(w)
      PROVE  IInv'
  <2>1. TypeOK'
    BY <1>1, PopTypes, WorkerStepTypes, WorkerChanceTypes
  <2> QED
    BY <1>1, <2>1, WorkerRetries, WorkerClocks
<1>2. ASSUME NEW g \in Gateways, ReaperStep(g) \/ ReaperChance(g)
      PROVE  IInv'
  <2>1. TypeOK'
    BY <1>2, ReaperStepTypes, ReaperChanceTypes DEF RetriesOK
  <2> QED
    BY <1>2, <2>1, ReaperRetries, ReaperChanceRetries, ReaperClocks DEF RetriesOK
<1>3. ASSUME NEW j \in Jobs, SubmitStep(j)
      PROVE  IInv'
  <2>1. TypeOK'
    BY <1>3, SubmitTypes
  <2> QED
    BY <1>3, <2>1, SubmitCounters, ElsewhereRetries, ClocksKept DEF CountersKept
<1>4. CASE UNCHANGED vars
  <2> USE <1>4 DEF vars, redisVars, history
  <2>1. TypeOK'
    BY DEF TypeOK, RedisTypeOK, WorkerTypeOK, ReaperTypeOK, HistoryTypeOK
  <2>2. RetriesOK'
    BY <2>1, ElsewhereRetries DEF CountersKept
  <2>3. ClocksAccounted'
    BY DEF ClocksAccounted
  <2> QED
    BY <2>1, <2>2, <2>3
<1>5. ASSUME NEW e \in Entries, ClaimExpires(e)
      PROVE  IInv'
  <2>1. claim[e] \in Gateways
    BY <1>5 DEF ClaimExpires, TypeOK, RedisTypeOK
  <2> QED
    BY <1>2, <1>5, <2>1 DEF ReaperChance
<1>6. CASE Progress
  BY <1>1, <1>2, <1>3, <1>5, <1>6
     DEF Progress, WorkerChance, ReaperChance, SubmitStep
<1>7. CASE Misfortune
  BY <1>1, <1>2, <1>3, <1>7
     DEF Misfortune, WorkerChance, ReaperChance, SubmitStep
<1> QED
  BY <1>4, <1>6, <1>7 DEF Next

\* IInv holds throughout.
THEOREM Invariance == Spec => []IInv
  BY InitIInv, NextIInv, PTL DEF Spec

\* Every variable keeps its type: in particular the hand-back of an attempt
\* never takes attempt_count below zero, and no entry carries an attempt number
\* past MAX_JOB_RETRIES.
THEOREM TypeCorrect == Spec => []TypeOK
<1>1. IInv => TypeOK
  BY DEF IInv
<1> QED
  BY <1>1, Invariance, PTL

\* attempt_count covers the retries on the queue and the ones reaps still hold,
\* however many replicas reap one job at once.
THEOREM CountCoversRetries == Spec => []RetriesCounted
<1>1. IInv => RetriesCounted
  BY DEF IInv, RetriesOK
<1> QED
  BY <1>1, Invariance, PTL

\* A job is requeued at most MAX_JOB_RETRIES times, for any number of workers
\* and gateway replicas and any number of deaths, lapses, stalls and errors.
THEOREM RequeueBounded == Spec => []RequeueBound
<1>1. IInv => RequeueBound
  <2> SUFFICES ASSUME IInv, NEW j \in Jobs
               PROVE  requeues[j] <= MaxJobRetries
    BY DEF RequeueBound
  <2>1. requeues[j] + Cardinality(Requeuing(j)) <= MaxJobRetries
    BY DEF IInv, RetriesOK, RetriesPromised
  <2>2. requeues[j] \in Nat
    BY DEF IInv, TypeOK, HistoryTypeOK
  <2> QED
    BY <2>1, <2>2, CountedFinite, BoundsAssumption
<1> QED
  BY <1>1, Invariance, PTL

\* Every GPU clock is billed at most once, whoever reaches it first, and one
\* still running has not been billed, for any interleaving of the worker's
\* finish() and any number of reaps (SHOWBACK_ACCRUE_LUA's HDEL).
THEOREM ClocksBalance == Spec => []ClocksAccounted
<1>1. IInv => ClocksAccounted
  BY DEF IInv
<1> QED
  BY <1>1, Invariance, PTL

\* Of the retries granted, spent and unspent, there are never more than
\* MAX_JOB_RETRIES.
THEOREM GrantsBounded == Spec => []RetriesPromised
<1>1. IInv => RetriesPromised
  BY DEF IInv, RetriesOK
<1> QED
  BY <1>1, Invariance, PTL

-----------------------------------------------------------------------------
(* The queue, which only a guarded insert makes longer *)

QueueOK == IsFiniteSet(queue) /\ QueueBound

LEMMA FairEnqueueBound ==
  ASSUME QueueOK, NEW e, ~ QueueFull, FairEnqueue(e)
  PROVE  QueueOK'
<1>1. queue' = queue \cup {e}
  BY DEF FairEnqueue
<1>2. IsFiniteSet(queue) /\ Cardinality(queue) \in Nat
  BY FS_CardinalityType DEF QueueOK
<1>3. /\ IsFiniteSet(queue \cup {e})
      /\ Cardinality(queue \cup {e}) <= Cardinality(queue) + 1
  BY <1>2, FS_AddElement
<1>4. Cardinality(queue) < MaxQueueDepth
  BY <1>2, BoundsAssumption DEF QueueFull
<1>5. Cardinality(queue \cup {e}) \in Nat
  BY <1>3, FS_CardinalityType
<1> QED
  BY <1>1, <1>2, <1>3, <1>4, <1>5, BoundsAssumption DEF QueueOK, QueueBound

LEMMA PopBound ==
  ASSUME QueueOK, NEW w \in Workers, Pop(w)
  PROVE  QueueOK'
<1>1. PICK e \in queue : queue' = queue \ {e}
  BY DEF Pop
<1>2. IsFiniteSet(queue) /\ Cardinality(queue) \in Nat
  BY FS_CardinalityType DEF QueueOK
<1>3. /\ IsFiniteSet(queue \ {e})
      /\ Cardinality(queue \ {e}) = Cardinality(queue) - 1
  BY <1>1, <1>2, FS_RemoveElement
<1> QED
  BY <1>1, <1>2, <1>3, BoundsAssumption DEF QueueOK, QueueBound

LEMMA NextQueueOK == QueueOK /\ [Next]_vars => QueueOK'
<1> SUFFICES ASSUME QueueOK, [Next]_vars PROVE QueueOK'
  OBVIOUS
<1>1. CASE UNCHANGED queue
  BY <1>1 DEF QueueOK, QueueBound
<1>2. ASSUME NEW w \in Workers, WorkerStep(w) \/ WorkerChance(w)
      PROVE  UNCHANGED queue
  BY <1>2 DEF WorkerStep, FetchPayload, StartJob, PrologueRaises,
     CheckCancelled, ClaimExecuting, SubmitPrompt, SubmitRaises, PromptEnds,
     RunRaises, CheckOwner, BillSubmitter, WriteStatus, EmitTerminal,
     RemoveEntry, DropPayload, CrashOut, Deregister, WorkerChance, Heartbeat,
     HeartbeatExpires, Die, Retire, HeartbeatLapses, WorkerBlip, redisVars
<1>3. ASSUME NEW g \in Gateways, ReaperStep(g), ~ Requeue(g)
      PROVE  UNCHANGED queue
  BY <1>3 DEF ReaperStep, ReadTail, TakeClaim, CheckRequeued, Fence, ReadPhase,
     FetchStranded, CheckDepth, CountRetry, HandBack, MarkRequeued,
     AnnounceRetry, BillExcluded, WriteOrphanStatus, DropOrphanPayload,
     EmitOrphanEnd, RemoveStranded, Release, Defer, SetAside, redisVars
<1>4. ASSUME NEW g \in Gateways, Requeue(g)
      PROVE  QueueOK'
  BY <1>1, <1>4, FairEnqueueBound DEF Requeue
<1>5. ASSUME NEW g \in Gateways, NEW w \in Workers,
             FindDeadList(g, w) \/ GatewayDies(g) \/ ReapBlip(g)
      PROVE  UNCHANGED queue
  BY <1>5 DEF FindDeadList, GatewayDies, ReapBlip, redisVars
<1>6. ASSUME NEW e \in Entries, ClaimExpires(e)
      PROVE  UNCHANGED queue
  BY <1>6 DEF ClaimExpires
<1>7. ASSUME NEW j \in Jobs, Enqueue(j)
      PROVE  QueueOK'
  BY <1>1, <1>7, FairEnqueueBound DEF Enqueue
<1>8. ASSUME NEW j \in Jobs, WriteState(j) \/ Cancel(j) \/ SubmitDies(j)
      PROVE  UNCHANGED queue
  BY <1>8 DEF WriteState, Cancel, SubmitDies
<1>9. CASE UNCHANGED vars
  BY <1>1, <1>9 DEF vars, redisVars
<1>10. CASE Progress
  BY <1>1, <1>2, <1>3, <1>4, <1>5, <1>6, <1>7, <1>8, <1>10, PopBound
     DEF Progress, WorkerChance
<1>11. CASE Misfortune
  BY <1>1, <1>2, <1>8, <1>11 DEF Misfortune, WorkerChance, GatewayDies, ReapBlip,
     redisVars
<1> QED
  BY <1>9, <1>10, <1>11 DEF Next

\* The queue never outgrows MAX_QUEUE_DEPTH, whatever interleaves between a
\* caller's decision to enqueue and the enqueue.
THEOREM QueueBounded == Spec => []QueueBound
<1>1. Init => QueueOK
  BY FS_EmptySet, BoundsAssumption DEF Init, QueueOK, QueueBound
<1>2. QueueOK => QueueBound
  BY DEF QueueOK
<1> QED
  BY <1>1, <1>2, NextQueueOK, PTL DEF Spec
==============================================================================
