----------------------------- MODULE EventFeed -----------------------------
(***************************************************************************)
(* What the page of a job is promised: whichever way it is served, one     *)
(* connection shows the job's events in the order they happened, skips one *)
(* only when the stream has dropped it, and shows nothing past the first   *)
(* event that ends the job.                                                *)
(***************************************************************************)
EXTENDS Naturals, Sequences

CONSTANTS
  Sockets,    \* the connections to the job's stream
  Kinds,      \* what an event may be
  Ends        \* TERMINAL_TYPES: the kinds that end a stream

VARIABLES
  log,      \* every event of the job, in order
  dropped,  \* how many of the oldest the stream no longer holds
  shown     \* per connection, the positions of the events it delivered

vars == <<log, dropped, shown>>

Init ==
  /\ log = <<>>
  /\ dropped = 0
  /\ shown = [s \in Sockets |-> {}]

Publish(kind) ==
  /\ log' = Append(log, kind)
  /\ UNCHANGED <<dropped, shown>>

\* The whole stream expires at once.
Expire ==
  /\ dropped' = Len(log)
  /\ UNCHANGED <<log, shown>>

\* A new connection replays from the beginning of what is held.
Reopen(s) ==
  /\ shown' = [shown EXCEPT ![s] = {}]
  /\ UNCHANGED <<log, dropped>>

Ended(s) == \E i \in shown[s] : log[i] \in Ends

Deliver(s, i) ==
  /\ ~ Ended(s)
  /\ \A k \in shown[s] : k < i
  /\ \A k \in 1 .. i - 1 : k \in shown[s] \/ k <= dropped
  /\ shown' = [shown EXCEPT ![s] = @ \cup {i}]
  /\ UNCHANGED <<log, dropped>>

Next ==
  \/ \E kind \in Kinds : Publish(kind)
  \/ Expire
  \/ \E s \in Sockets : Reopen(s)
  \/ \E s \in Sockets : \E i \in 1 .. Len(log) : Deliver(s, i)

Spec == Init /\ [][Next]_vars
=============================================================================
