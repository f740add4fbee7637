------------------------------ MODULE JobLedger ------------------------------
(***************************************************************************)
(* What the pool promises about the work it does for one job, whoever does *)
(* it: a GPU clock starts once for the submission and once for each retry, *)
(* each clock hands the workflow to ComfyUI at most once and is billed at  *)
(* most once, retries are bounded, and no job is retried or handed over    *)
(* again once ComfyUI has had it, except one whose breadcrumb was          *)
(* overwritten.                                                            *)
(***************************************************************************)
EXTENDS Naturals

CONSTANTS
  Jobs,          \* the job ids
  MaxJobRetries  \* MAX_JOB_RETRIES

VARIABLES
  starts,    \* per job, the clocks started
  handed,    \* per job, how often ComfyUI may have received its workflow
  bills,     \* per job, the clocks billed
  requeues,  \* per job, its retries
  doubtful   \* the jobs whose breadcrumb no longer says what was done

vars == <<starts, handed, bills, requeues, doubtful>>

Init ==
  /\ starts = [j \in Jobs |-> 0]
  /\ handed = [j \in Jobs |-> 0]
  /\ bills = [j \in Jobs |-> 0]
  /\ requeues = [j \in Jobs |-> 0]
  /\ doubtful = {}

\* Nothing says that ComfyUI has had the job, or what says so is in doubt.
MayRunAgain(j) == handed[j] = 0 \/ j \in doubtful

Start(j) ==
  /\ starts[j] <= requeues[j]
  /\ starts' = [starts EXCEPT ![j] = @ + 1]
  /\ doubtful' \in {doubtful, doubtful \cup {j}}
  /\ UNCHANGED <<handed, bills, requeues>>

HandOver(j) ==
  /\ handed[j] < starts[j]
  /\ MayRunAgain(j)
  /\ handed' = [handed EXCEPT ![j] = @ + 1]
  /\ UNCHANGED <<starts, bills, requeues, doubtful>>

Bill(j) ==
  /\ bills[j] < starts[j]
  /\ bills' = [bills EXCEPT ![j] = @ + 1]
  /\ UNCHANGED <<starts, handed, requeues, doubtful>>

Retry(j) ==
  /\ requeues[j] < MaxJobRetries
  /\ MayRunAgain(j)
  /\ requeues' = [requeues EXCEPT ![j] = @ + 1]
  /\ UNCHANGED <<starts, handed, bills, doubtful>>

\* Only a job that a worker has begun can be misjudged.
Doubt(j) ==
  /\ starts[j] > 0
  /\ doubtful' = doubtful \cup {j}
  /\ UNCHANGED <<starts, handed, bills, requeues>>

Next ==
  \E j \in Jobs :
    Start(j) \/ HandOver(j) \/ Bill(j) \/ Retry(j) \/ Doubt(j)

Spec == Init /\ [][Next]_vars

\* Everything done for a job is paid for by its submission and its retries.
InTheBlack ==
  \A j \in Jobs :
    /\ handed[j] <= starts[j]
    /\ bills[j] <= starts[j]
    /\ starts[j] <= requeues[j] + 1
    /\ requeues[j] <= MaxJobRetries
=============================================================================
