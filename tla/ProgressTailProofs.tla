------------------------- MODULE ProgressTailProofs -------------------------
(***************************************************************************)
(* progress() implements EventFeed for every number of sockets, events,    *)
(* batch size, error limit and TTL: whatever a socket has shown is an      *)
(* unbroken run of the log, but for what the stream dropped, and the rest  *)
(* of its batch continues it.                                              *)
(***************************************************************************)
EXTENDS ProgressTail, TLAPS, SequenceTheorems

\* The length of the log is what the arithmetic of the proofs is about.
LEMMA LogLength ==
  ASSUME TypeOK
  PROVE  /\ Len(log) \in Nat
         /\ dropped \in Nat
         /\ \A s \in Sockets :
              /\ last_id[s] \in Nat
              /\ batch[s] \subseteq Nat
              /\ shown[s] \subseteq Nat
  BY DEF TypeOK

LEMMA LongerLog ==
  ASSUME log \in Seq(Kinds), NEW kind \in Kinds
  PROVE  /\ Append(log, kind) \in Seq(Kinds)
         /\ Len(Append(log, kind)) = Len(log) + 1
         /\ \A i \in 1 .. Len(log) : Append(log, kind)[i] = log[i]
  OBVIOUS

-----------------------------------------------------------------------------
(* Types *)

LEMMA TypeInit == Init => TypeOK
  BY BoundsAssumption DEF Init, TypeOK, Closes

\* Where the parts of a socket go when it is closed.
LEMMA ClosedType ==
  ASSUME TypeOK, NEW s \in Sockets, NEW why \in Closes, Closed(s, why),
         UNCHANGED <<stream, state>>, shown' \in [Sockets -> SUBSET (1 .. Len(log))]
  PROVE  TypeOK'
<1>1. log' = log /\ UNCHANGED <<dropped, quiet, known, named, untouched>>
  BY DEF stream, state
<1>2. 0 \in 0 .. Len(log) /\ 0 \in 0 .. MaxErrors /\ 0 \in 0 .. TTL
  BY BoundsAssumption DEF TypeOK
<1>3. /\ place' \in [Sockets -> {"closed", "lookup", "read", "send"}]
      /\ close' \in [Sockets -> Closes]
  BY DEF TypeOK, Closed
<1>4. /\ last_id' \in [Sockets -> 0 .. Len(log)]
      /\ redis_errors' \in [Sockets -> 0 .. MaxErrors]
      /\ held' \in [Sockets -> 0 .. TTL]
  BY <1>2 DEF TypeOK, Closed
<1>5. batch' \in [Sockets -> SUBSET (1 .. Len(log))]
  BY DEF TypeOK, Closed
<1> QED
  BY <1>1, <1>3, <1>4, <1>5 DEF TypeOK

LEMMA TypeStep == TypeOK /\ [Next]_vars => TypeOK'
<1> SUFFICES ASSUME TypeOK, [Next]_vars PROVE TypeOK'
  OBVIOUS
<1> USE BoundsAssumption
<1>1. ASSUME NEW kind \in Kinds, Emit(kind) PROVE TypeOK'
  <2>1. log' \in Seq(Kinds) /\ Len(log') = Len(log) + 1 /\ Len(log) \in Nat
    BY <1>1, LongerLog DEF TypeOK, Emit
  <2>2. quiet' \in 0 .. TTL
    BY <1>1 DEF TypeOK, Emit
  <2>3. 0 .. Len(log) \subseteq 0 .. Len(log') /\ 1 .. Len(log) \subseteq 1 .. Len(log')
    BY <2>1
  <2>4. /\ last_id' \in [Sockets -> 0 .. Len(log')]
        /\ batch' \in [Sockets -> SUBSET (1 .. Len(log'))]
        /\ shown' \in [Sockets -> SUBSET (1 .. Len(log'))]
        /\ dropped' \in 0 .. Len(log')
    BY <1>1, <2>3 DEF TypeOK, Emit, tail
  <2> QED
    BY <1>1, <2>1, <2>2, <2>4 DEF TypeOK, Emit, state, tail
<1>2. CASE Touch
  BY <1>2 DEF TypeOK, Touch, stream, tail
<1>3. CASE Tick
  <2>1. /\ quiet' \in 0 .. TTL
        /\ untouched' \in 0 .. TTL
        /\ dropped' \in 0 .. Len(log)
    BY <1>3, LogLength DEF TypeOK, Tick
  <2>2. held' \in [Sockets -> 0 .. TTL]
    BY <1>3 DEF TypeOK, Tick
  <2> QED
    BY <1>3, <2>1, <2>2 DEF TypeOK, Tick
<1>4. ASSUME NEW s \in Sockets, Open(s) PROVE TypeOK'
  BY <1>4 DEF TypeOK, Open, stream, state, tail, Closes
<1>5. ASSUME NEW s \in Sockets, Serve(s) PROVE TypeOK'
  <2>1. CASE TurnAway(s)
    BY <2>1, ClosedType DEF TurnAway, Closes, TypeOK
  <2>2. CASE Admit(s)
    BY <2>2 DEF Admit, TypeOK, stream, state, tail
  <2>3. CASE CloseAtLifetime(s)
    BY <2>3, ClosedType DEF CloseAtLifetime, Closes, TypeOK
  <2>4. CASE Read(s)
    BY <2>4 DEF Read, Available, TypeOK, stream, state
  <2>5. CASE ReadFails(s)
    <3>1. CASE redis_errors[s] < MaxErrors
      <4>1. /\ redis_errors' = [redis_errors EXCEPT ![s] = @ + 1]
            /\ UNCHANGED <<place, close, last_id, batch, held, shown>>
            /\ UNCHANGED <<stream, state>>
        BY <2>5, <3>1 DEF ReadFails
      <4>2. redis_errors[s] + 1 \in 0 .. MaxErrors
        BY <3>1 DEF TypeOK
      <4>3. redis_errors' \in [Sockets -> 0 .. MaxErrors]
        BY <4>1, <4>2 DEF TypeOK
      <4> QED
        BY <4>1, <4>3 DEF TypeOK, stream, state
    <3>2. CASE ~ (redis_errors[s] < MaxErrors)
      BY <2>5, <3>2, ClosedType DEF ReadFails, Closes, TypeOK
    <3> QED
      BY <3>1, <3>2
  <2>6. CASE SendEntry(s)
    <3>1. PICK i \in batch[s] :
            /\ shown' = [shown EXCEPT ![s] = @ \cup {i}]
            /\ IF log[i] \in TERMINAL_TYPES
                 THEN Closed(s, "ended")
                 ELSE /\ last_id' = [last_id EXCEPT ![s] = i]
                      /\ batch' = [batch EXCEPT ![s] = @ \ {i}]
                      /\ place' = [place EXCEPT ![s] =
                                     IF batch'[s] = {} THEN "read" ELSE "send"]
                      /\ UNCHANGED <<redis_errors, held, close>>
      BY <2>6 DEF SendEntry
    <3>2. i \in 1 .. Len(log)
      BY DEF TypeOK
    <3>3. shown' \in [Sockets -> SUBSET (1 .. Len(log))]
      BY <3>1, <3>2 DEF TypeOK
    <3>4. CASE log[i] \in TERMINAL_TYPES
      BY <2>6, <3>1, <3>3, <3>4, ClosedType DEF SendEntry, Closes
    <3>5. CASE log[i] \notin TERMINAL_TYPES
      <4>1. /\ last_id' = [last_id EXCEPT ![s] = i]
            /\ batch' = [batch EXCEPT ![s] = @ \ {i}]
            /\ place' = [place EXCEPT ![s] =
                            IF batch'[s] = {} THEN "read" ELSE "send"]
            /\ UNCHANGED <<redis_errors, held, close>>
            /\ UNCHANGED <<stream, state>>
        BY <2>6, <3>1, <3>5 DEF SendEntry
      <4>2. last_id' \in [Sockets -> 0 .. Len(log)]
        BY <4>1, <3>2 DEF TypeOK
      <4>3. batch' \in [Sockets -> SUBSET (1 .. Len(log))]
        BY <4>1 DEF TypeOK
      <4>4. place' \in [Sockets -> {"closed", "lookup", "read", "send"}]
        BY <4>1 DEF TypeOK
      <4> QED
        BY <4>1, <4>2, <4>3, <4>4, <3>3 DEF TypeOK, stream, state
    <3> QED
      BY <3>4, <3>5
  <2>7. CASE SendFailed(s)
    BY <2>7, ClosedType DEF SendFailed, Closes, TypeOK
  <2> QED
    BY <1>5, <2>1, <2>2, <2>3, <2>4, <2>5, <2>6, <2>7 DEF Serve
<1>6. ASSUME NEW s \in Sockets, Disconnect(s) PROVE TypeOK'
  BY <1>6, ClosedType DEF Disconnect, Closes, TypeOK
<1>7. CASE UNCHANGED vars
  BY <1>7 DEF TypeOK, vars, stream, state, tail
<1> QED
  BY <1>1, <1>2, <1>3, <1>4, <1>5, <1>6, <1>7 DEF Next

\* Every variable of progress() and of the job's keys keeps its type.
THEOREM TypeCorrect == Spec => []TypeOK
<1>1. TypeOK /\ [Next]_vars => TypeOK'
  BY TypeStep
<1> QED
  BY TypeInit, <1>1, PTL DEF Spec

-----------------------------------------------------------------------------
(* What a socket has shown *)

\* Nothing was handled: a new coroutine, or none.
Fresh(s) == last_id[s] = 0 /\ batch[s] = {}

\* What was shown is the log up to last_id, but for what had been dropped, and
\* holds no event that ends it; the batch is the log from there on, but for
\* what had been dropped.
Replayed(s) ==
  /\ \A k \in shown[s] : k <= last_id[s] /\ log[k] \notin TERMINAL_TYPES
  /\ \A k \in 1 .. last_id[s] : k \in shown[s] \/ k <= dropped
  /\ \A k \in batch[s] :
       /\ last_id[s] < k
       /\ \A j \in (last_id[s] + 1) .. (k - 1) : j \in batch[s] \/ j <= dropped

TailOf(s) ==
  /\ place[s] = "closed" => Fresh(s)
  /\ place[s] = "lookup" => Fresh(s) /\ shown[s] = {}
  /\ place[s] \in {"read", "send"} => Replayed(s)

TailInv == TypeOK /\ \A s \in Sockets : TailOf(s)

LEMMA TailInit == Init => TailInv
  BY TypeInit DEF Init, TailInv, TailOf, Fresh

\* A step that leaves a socket's own variables alone keeps what it has shown,
\* whatever is appended and whatever is dropped.
LEMMA OthersKeep ==
  ASSUME TypeOK, NEW s \in Sockets, TailOf(s),
         place'[s] = place[s], last_id'[s] = last_id[s],
         batch'[s] = batch[s], shown'[s] = shown[s],
         \A k \in 1 .. Len(log) : log'[k] = log[k],
         dropped' \in Nat, dropped <= dropped'
  PROVE  TailOf(s)'
<1>1. CASE place[s] \notin {"read", "send"}
  BY <1>1 DEF TailOf, Fresh
<1>2. CASE place[s] \in {"read", "send"}
  <2>1. Replayed(s)
    BY <1>2 DEF TailOf
  <2>2. /\ shown[s] \subseteq 1 .. Len(log)
        /\ dropped \in Nat
        /\ last_id[s] \in Nat
        /\ batch[s] \subseteq Nat
    BY LogLength DEF TypeOK
  <2>3. \A k \in shown[s] : k <= last_id[s] /\ log'[k] \notin TERMINAL_TYPES
    BY <2>1, <2>2 DEF Replayed
  <2>4. \A k \in 1 .. last_id[s] : k \in shown[s] \/ k <= dropped'
    BY <2>1, <2>2 DEF Replayed
  <2>5. \A k \in batch[s] :
          /\ last_id[s] < k
          /\ \A j \in (last_id[s] + 1) .. (k - 1) : j \in batch[s] \/ j <= dropped'
    BY <2>1, <2>2 DEF Replayed
  <2>6. Replayed(s)'
    BY <2>3, <2>4, <2>5 DEF Replayed, TERMINAL_TYPES
  <2> QED
    BY <1>2, <2>6 DEF TailOf
<1> QED
  BY <1>1, <1>2

\* What every action of one socket leaves to the others.
Leaves(s) ==
  /\ UNCHANGED <<log, dropped>>
  /\ \A r \in Sockets \ {s} :
       /\ place'[r] = place[r]
       /\ last_id'[r] = last_id[r]
       /\ batch'[r] = batch[r]
       /\ shown'[r] = shown[r]

LEMMA OneSocket ==
  ASSUME TailInv, NEW s \in Sockets, Leaves(s), TailOf(s)'
  PROVE  \A r \in Sockets : TailOf(r)'
<1> SUFFICES ASSUME NEW r \in Sockets, r # s PROVE TailOf(r)'
  OBVIOUS
<1>1. dropped \in Nat /\ dropped' = dropped /\ log' = log
  BY LogLength DEF TailInv, Leaves
<1> QED
  BY <1>1, OthersKeep DEF TailInv, Leaves

LEMMA ClosedTail ==
  ASSUME TailInv, NEW s \in Sockets, NEW why \in Closes, Closed(s, why),
         UNCHANGED <<stream, state>>,
         \A r \in Sockets \ {s} : shown'[r] = shown[r]
  PROVE  \A r \in Sockets : TailOf(r)'
<1>1. Leaves(s)
  BY DEF Closed, Leaves, TailInv, TypeOK, stream
<1>2. place'[s] = "closed" /\ last_id'[s] = 0 /\ batch'[s] = {}
  BY DEF Closed, TailInv, TypeOK
<1>3. TailOf(s)'
  BY <1>2 DEF TailOf, Fresh
<1> QED
  BY <1>1, <1>3, OneSocket

\* XREAD returns what follows last_id without a gap, but for what is dropped.
LEMMA ReadTail ==
  ASSUME TailInv, NEW s \in Sockets, Read(s)
  PROVE  \A r \in Sockets : TailOf(r)'
<1>1. /\ log' = log /\ dropped' = dropped /\ shown' = shown /\ last_id' = last_id
      /\ batch'[s] = Available(s)
      /\ place[s] = "read" /\ place'[s] \in {"read", "send"}
  BY DEF Read, TailInv, TypeOK, stream
<1>2. Leaves(s)
  BY DEF Read, Leaves, TailInv, TypeOK, stream
<1>3. Replayed(s)
  BY <1>1 DEF TailInv, TailOf
<1>4. /\ last_id[s] \in Nat /\ dropped \in Nat /\ Len(log) \in Nat
      /\ BatchSize \in Nat
  BY LogLength, BoundsAssumption DEF TailInv
<1>5. ASSUME NEW k \in Available(s)
      PROVE  /\ last_id[s] < k
             /\ \A j \in (last_id[s] + 1) .. (k - 1) : j \in Available(s) \/ j <= dropped
  BY <1>4 DEF Available
<1>6. Replayed(s)'
  BY <1>1, <1>3, <1>5 DEF Replayed, TERMINAL_TYPES
<1>7. TailOf(s)'
  BY <1>1, <1>6 DEF TailOf
<1> QED
  BY <1>2, <1>7, OneSocket

\* What the first entry of a batch finds: everything before it was shown or
\* dropped, and nothing shown comes after it or ended the job.
LEMMA NextInOrder ==
  ASSUME TailInv, NEW s \in Sockets, place[s] = "send", NEW i \in batch[s],
         IsNext(s, i)
  PROVE  /\ i \in 1 .. Len(log)
         /\ last_id[s] < i
         /\ \A k \in shown[s] : k < i /\ log[k] \notin TERMINAL_TYPES
         /\ \A k \in 1 .. i - 1 : k \in shown[s] \/ k <= dropped
<1>1. Replayed(s)
  BY DEF TailInv, TailOf
<1>2. /\ i \in 1 .. Len(log)
      /\ last_id[s] \in Nat /\ dropped \in Nat /\ Len(log) \in Nat
      /\ batch[s] \subseteq Nat /\ shown[s] \subseteq Nat
  BY LogLength DEF TailInv, TypeOK
<1>3. last_id[s] < i
  BY <1>1 DEF Replayed
<1>4. \A k \in shown[s] : k < i /\ log[k] \notin TERMINAL_TYPES
  BY <1>1, <1>2, <1>3 DEF Replayed
<1>5. ASSUME NEW k \in 1 .. i - 1 PROVE k \in shown[s] \/ k <= dropped
  <2>1. CASE k <= last_id[s]
    BY <1>1, <1>2, <2>1 DEF Replayed
  <2>2. CASE last_id[s] < k
    <3>1. k \in (last_id[s] + 1) .. (i - 1)
      BY <1>2, <2>2
    <3>2. k \in batch[s] \/ k <= dropped
      BY <1>1, <3>1 DEF Replayed
    <3>3. k \notin batch[s]
      BY <1>2 DEF IsNext
    <3> QED
      BY <3>2, <3>3
  <2> QED
    BY <1>2, <2>1, <2>2
<1> QED
  BY <1>2, <1>3, <1>4, <1>5

LEMMA SendTail ==
  ASSUME TailInv, NEW s \in Sockets, SendEntry(s)
  PROVE  \A r \in Sockets : TailOf(r)'
<1>1. PICK i \in batch[s] :
        /\ IsNext(s, i)
        /\ shown' = [shown EXCEPT ![s] = @ \cup {i}]
        /\ IF log[i] \in TERMINAL_TYPES
             THEN Closed(s, "ended")
             ELSE /\ last_id' = [last_id EXCEPT ![s] = i]
                  /\ batch' = [batch EXCEPT ![s] = @ \ {i}]
                  /\ place' = [place EXCEPT ![s] =
                                 IF batch'[s] = {} THEN "read" ELSE "send"]
                  /\ UNCHANGED <<redis_errors, held, close>>
  BY DEF SendEntry
<1>2. place[s] = "send" /\ UNCHANGED <<stream, state>>
  BY DEF SendEntry
<1>3. CASE log[i] \in TERMINAL_TYPES
  <2>1. \A r \in Sockets \ {s} : shown'[r] = shown[r]
    BY <1>1 DEF TailInv, TypeOK
  <2> QED
    BY <1>1, <1>2, <1>3, <2>1, ClosedTail DEF Closes
<1>4. CASE log[i] \notin TERMINAL_TYPES
  <2>1. /\ log' = log /\ dropped' = dropped
        /\ last_id'[s] = i
        /\ batch'[s] = batch[s] \ {i}
        /\ shown'[s] = shown[s] \cup {i}
        /\ place'[s] \in {"read", "send"}
    BY <1>1, <1>2, <1>4 DEF TailInv, TypeOK, stream
  <2>2. Leaves(s)
    BY <1>1, <1>2, <1>4 DEF Leaves, TailInv, TypeOK, stream
  <2>3. /\ i \in 1 .. Len(log)
        /\ last_id[s] < i
        /\ \A k \in shown[s] : k < i /\ log[k] \notin TERMINAL_TYPES
        /\ \A k \in 1 .. i - 1 : k \in shown[s] \/ k <= dropped
    BY <1>1, <1>2, NextInOrder
  <2>4. Replayed(s)
    BY <1>2 DEF TailInv, TailOf
  <2>5. /\ last_id[s] \in Nat /\ dropped \in Nat /\ Len(log) \in Nat
        /\ batch[s] \subseteq Nat /\ shown[s] \subseteq Nat
    BY LogLength DEF TailInv
  <2>6. \A k \in shown[s] \cup {i} : k <= i /\ log[k] \notin TERMINAL_TYPES
    BY <2>3, <2>5, <1>4
  <2>7. \A k \in 1 .. i : k \in shown[s] \cup {i} \/ k <= dropped
    BY <2>3, <2>5
  <2>8. ASSUME NEW k \in batch[s] \ {i}
        PROVE  /\ i < k
               /\ \A j \in (i + 1) .. (k - 1) : j \in batch[s] \ {i} \/ j <= dropped
    <3>1. i <= k /\ i # k /\ k \in Nat /\ i \in Nat
      BY <1>1, <2>5 DEF IsNext
    <3>2. \A j \in (last_id[s] + 1) .. (k - 1) : j \in batch[s] \/ j <= dropped
      BY <2>4 DEF Replayed
    <3> QED
      BY <2>3, <2>5, <3>1, <3>2
  <2>9. Replayed(s)'
    BY <2>1, <2>6, <2>7, <2>8 DEF Replayed, TERMINAL_TYPES
  <2>10. TailOf(s)'
    BY <2>1, <2>9 DEF TailOf
  <2> QED
    BY <2>2, <2>10, OneSocket
<1> QED
  BY <1>3, <1>4

\* Time drops all of the stream or none of it.
LEMMA TickDrops ==
  ASSUME TypeOK, Tick
  PROVE  /\ log' = log /\ shown' = shown
         /\ dropped' = dropped \/ dropped' = Len(log)
         /\ dropped' \in Nat /\ dropped <= dropped'
  BY LogLength DEF Tick, TypeOK

LEMMA TailStep == TailInv /\ [Next]_vars => TailInv'
<1> SUFFICES ASSUME TailInv, [Next]_vars PROVE \A r \in Sockets : TailOf(r)'
  BY TypeStep DEF TailInv
<1>t. TypeOK
  BY DEF TailInv
<1>n. dropped \in Nat
  BY <1>t, LogLength
<1>1. ASSUME NEW kind \in Kinds, Emit(kind) PROVE \A r \in Sockets : TailOf(r)'
  <2>1. \A k \in 1 .. Len(log) : log'[k] = log[k]
    BY <1>1, <1>t, LongerLog DEF Emit, TypeOK
  <2> QED
    BY <1>1, <1>t, <1>n, <2>1, OthersKeep DEF Emit, TailInv, tail
<1>2. CASE Touch
  BY <1>2, <1>t, <1>n, OthersKeep DEF Touch, TailInv, stream, tail
<1>3. CASE Tick
  <2>1. UNCHANGED <<place, last_id, batch, shown>>
    BY <1>3 DEF Tick
  <2> QED
    BY <1>3, <1>t, <2>1, TickDrops, OthersKeep DEF TailInv
<1>4. ASSUME NEW s \in Sockets, Open(s) PROVE \A r \in Sockets : TailOf(r)'
  <2>1. Leaves(s)
    BY <1>4, <1>t DEF Open, Leaves, TypeOK, stream, tail
  <2>2. TailOf(s)'
    BY <1>4, <1>t DEF Open, TailInv, TailOf, Fresh, TypeOK, tail
  <2> QED
    BY <2>1, <2>2, OneSocket
<1>5. ASSUME NEW s \in Sockets, Serve(s) PROVE \A r \in Sockets : TailOf(r)'
  <2>1. CASE TurnAway(s)
    BY <2>1, ClosedTail DEF TurnAway, Closes
  <2>2. CASE Admit(s)
    <3>1. Leaves(s)
      BY <2>2, <1>t DEF Admit, Leaves, TypeOK, stream, tail
    <3>2. /\ place'[s] = "read"
          /\ last_id'[s] = 0 /\ batch'[s] = {} /\ shown'[s] = {}
      BY <2>2, <1>t DEF Admit, TailInv, TailOf, Fresh, TypeOK, tail
    <3>3. Replayed(s)'
      BY <3>2 DEF Replayed
    <3> QED
      BY <3>1, <3>2, <3>3, OneSocket DEF TailOf
  <2>3. CASE CloseAtLifetime(s)
    BY <2>3, ClosedTail DEF CloseAtLifetime, Closes
  <2>4. CASE Read(s)
    BY <2>4, ReadTail
  <2>5. CASE ReadFails(s)
    <3>1. CASE redis_errors[s] < MaxErrors
      BY <2>5, <3>1, <1>t, <1>n, OthersKeep DEF ReadFails, TailInv, stream
    <3>2. CASE ~ (redis_errors[s] < MaxErrors)
      BY <2>5, <3>2, ClosedTail DEF ReadFails, Closes
    <3> QED
      BY <3>1, <3>2
  <2>6. CASE SendEntry(s)
    BY <2>6, SendTail
  <2>7. CASE SendFailed(s)
    BY <2>7, ClosedTail DEF SendFailed, Closes
  <2> QED
    BY <1>5, <2>1, <2>2, <2>3, <2>4, <2>5, <2>6, <2>7 DEF Serve
<1>6. ASSUME NEW s \in Sockets, Disconnect(s) PROVE \A r \in Sockets : TailOf(r)'
  BY <1>6, ClosedTail DEF Disconnect, Closes
<1>7. CASE UNCHANGED vars
  BY <1>7, <1>t, <1>n, OthersKeep DEF TailInv, vars, stream, tail
<1> QED
  BY <1>1, <1>2, <1>3, <1>4, <1>5, <1>6, <1>7 DEF Next

-----------------------------------------------------------------------------
(* The refinement *)

\* Every step of progress(), of the job's producers or of time is a step the
\* feed allows, or none.
LEMMA StepOfFeed == TailInv /\ [Next]_vars => [Feed!Next]_Feed!vars
<1> SUFFICES ASSUME TailInv, [Next]_vars PROVE [Feed!Next]_Feed!vars
  OBVIOUS
<1>t. TypeOK
  BY DEF TailInv
<1> DEFINE Stutter == UNCHANGED <<log, dropped, shown>>
<1>s. Stutter => [Feed!Next]_Feed!vars
  BY DEF Feed!vars
<1>1. ASSUME NEW kind \in Kinds, Emit(kind) PROVE Feed!Next
  BY <1>1 DEF Emit, Feed!Next, Feed!Publish
<1>2. CASE Touch
  BY <1>2, <1>s DEF Touch, stream
<1>3. CASE Tick
  <2>1. CASE dropped' = dropped
    BY <1>3, <1>t, <1>s, <2>1, TickDrops
  <2>2. CASE dropped' = Len(log)
    BY <1>3, <1>t, <2>2, TickDrops DEF Feed!Next, Feed!Expire
  <2> QED
    BY <1>3, <1>t, <2>1, <2>2, TickDrops
<1>4. ASSUME NEW s \in Sockets, Open(s) PROVE Feed!Next
  BY <1>4 DEF Open, stream, Feed!Next, Feed!Reopen
<1>5. ASSUME NEW s \in Sockets, SendEntry(s) PROVE Feed!Next
  <2>1. PICK i \in batch[s] :
          IsNext(s, i) /\ shown' = [shown EXCEPT ![s] = @ \cup {i}]
    BY <1>5 DEF SendEntry
  <2>2. place[s] = "send" /\ UNCHANGED <<log, dropped>>
    BY <1>5 DEF SendEntry, stream
  <2>3. /\ i \in 1 .. Len(log)
        /\ \A k \in shown[s] : k < i /\ log[k] \notin TERMINAL_TYPES
        /\ \A k \in 1 .. i - 1 : k \in shown[s] \/ k <= dropped
    BY <2>1, <2>2, NextInOrder
  <2>4. Feed!Deliver(s, i)
    BY <2>1, <2>2, <2>3 DEF Feed!Deliver, Feed!Ended
  <2> QED
    BY <2>3, <2>4 DEF Feed!Next
<1>6. ASSUME NEW s \in Sockets, Serve(s), ~ SendEntry(s) PROVE Stutter
  BY <1>6 DEF Serve, TurnAway, Admit, CloseAtLifetime, Read, ReadFails,
              SendFailed, stream
<1>7. ASSUME NEW s \in Sockets, Disconnect(s) PROVE Stutter
  BY <1>7 DEF Disconnect, stream
<1>8. CASE UNCHANGED vars
  BY <1>8, <1>s DEF vars, stream
<1> HIDE DEF Stutter
<1> QED
  BY <1>s, <1>1, <1>2, <1>3, <1>4, <1>5, <1>6, <1>7, <1>8 DEF Next

\* Whatever batches, Redis errors, expiries and reloads come between, one
\* connection of progress() shows the job's events in order, skips only what
\* the stream dropped, and shows nothing after the end.
THEOREM Refinement == Spec => FollowsFeed
<1>1. Init => Feed!Init
  BY DEF Init, Feed!Init
<1>2. TailInv /\ [Next]_vars => TailInv'
  BY TailStep
<1>3. TailInv /\ [Next]_vars => [Feed!Next]_Feed!vars
  BY StepOfFeed
<1> QED
  BY TailInit, <1>1, <1>2, <1>3, PTL DEF Spec, FollowsFeed, Feed!Spec

-----------------------------------------------------------------------------
(* The end, as the page and the coroutine see it *)

ShowedEnd(s) == \E i \in shown[s] : log[i] = "end"

\* A socket that is still served has shown no end.
LEMMA ServedShowsNoEnd ==
  ASSUME TailInv, NEW s \in Sockets, place[s] # "closed"
  PROVE  ~ ShowedEnd(s)
<1>1. place[s] \in {"lookup", "read", "send"}
  BY DEF TailInv, TypeOK
<1> QED
  BY <1>1 DEF TailInv, TailOf, Replayed, ShowedEnd, TERMINAL_TYPES

\* A socket that showed nothing new and whose close is the same agrees still.
LEMMA AgreesStill ==
  ASSUME TypeOK, EndedMeansOver, NEW s \in Sockets,
         shown'[s] = shown[s], close'[s] = close[s],
         \A k \in 1 .. Len(log) : log'[k] = log[k]
  PROVE  close'[s] = "ended" <=> ShowedEnd(s)'
<1>1. shown[s] \subseteq 1 .. Len(log)
  BY DEF TypeOK
<1> QED
  BY <1>1 DEF EndedMeansOver, ShowedEnd

\* A socket closed for another reason showed no end.
LEMMA ClosedWithoutEnd ==
  ASSUME TailInv, EndedMeansOver, NEW s \in Sockets, place[s] # "closed",
         NEW why \in Closes \ {"ended"}, Closed(s, why),
         UNCHANGED <<stream, shown>>
  PROVE  EndedMeansOver'
<1>1. close'[s] = why /\ log' = log /\ shown' = shown
  BY DEF Closed, TailInv, TypeOK, stream
<1>2. ~ ShowedEnd(s)'
  BY <1>1, ServedShowsNoEnd DEF ShowedEnd
<1>3. ASSUME NEW r \in Sockets, r # s
      PROVE  close'[r] = "ended" <=> ShowedEnd(r)'
  <2>1. close'[r] = close[r]
    BY <1>3 DEF Closed, TailInv, TypeOK
  <2> QED
    BY <1>1, <2>1, AgreesStill DEF TailInv
<1> QED
  BY <1>1, <1>2, <1>3 DEF EndedMeansOver, ShowedEnd

LEMMA SendAgrees ==
  ASSUME TailInv, EndedMeansOver, NEW s \in Sockets, SendEntry(s)
  PROVE  EndedMeansOver'
<1>1. PICK i \in batch[s] :
        /\ shown' = [shown EXCEPT ![s] = @ \cup {i}]
        /\ IF log[i] \in TERMINAL_TYPES THEN Closed(s, "ended")
             ELSE close' = close
  BY DEF SendEntry
<1>2. place[s] = "send" /\ log' = log
  BY DEF SendEntry, stream
<1>3. shown'[s] = shown[s] \cup {i}
  BY <1>1 DEF TailInv, TypeOK
<1>4. ASSUME NEW r \in Sockets, r # s
      PROVE  close'[r] = "ended" <=> ShowedEnd(r)'
  <2>1. close'[r] = close[r] /\ shown'[r] = shown[r]
    BY <1>1, <1>4 DEF Closed, TailInv, TypeOK
  <2> QED
    BY <1>2, <2>1, AgreesStill DEF TailInv
<1>5. CASE log[i] \in TERMINAL_TYPES
  <2>1. close'[s] = "ended"
    BY <1>1, <1>5 DEF Closed, TailInv, TypeOK
  <2>2. ShowedEnd(s)'
    BY <1>2, <1>3, <1>5 DEF ShowedEnd, TERMINAL_TYPES
  <2> QED
    BY <2>1, <2>2, <1>4 DEF EndedMeansOver, ShowedEnd
<1>6. CASE log[i] \notin TERMINAL_TYPES
  <2>1. ~ ShowedEnd(s)
    BY <1>2, ServedShowsNoEnd
  <2>2. ~ ShowedEnd(s)'
    BY <1>2, <1>3, <1>6, <2>1 DEF ShowedEnd, TERMINAL_TYPES
  <2>3. close'[s] # "ended"
    BY <1>1, <1>6, <2>1 DEF EndedMeansOver, ShowedEnd
  <2> QED
    BY <2>2, <2>3, <1>4 DEF EndedMeansOver, ShowedEnd
<1> QED
  BY <1>5, <1>6

LEMMA AgreeStep == TailInv /\ EndedMeansOver /\ [Next]_vars => EndedMeansOver'
<1> SUFFICES ASSUME TailInv, EndedMeansOver, [Next]_vars PROVE EndedMeansOver'
  OBVIOUS
<1>t. TypeOK
  BY DEF TailInv
<1>s. ASSUME UNCHANGED <<shown, close>>, \A k \in 1 .. Len(log) : log'[k] = log[k]
      PROVE  EndedMeansOver'
  BY <1>s, <1>t, AgreesStill DEF EndedMeansOver, ShowedEnd
<1>1. ASSUME NEW kind \in Kinds, Emit(kind) PROVE EndedMeansOver'
  <2>1. \A k \in 1 .. Len(log) : log'[k] = log[k]
    BY <1>1, <1>t, LongerLog DEF Emit, TypeOK
  <2> QED
    BY <1>1, <1>s, <2>1 DEF Emit
<1>2. CASE Touch
  BY <1>2, <1>s DEF Touch, stream
<1>3. CASE Tick
  BY <1>3, <1>s DEF Tick
<1>4. ASSUME NEW s \in Sockets, Open(s) PROVE EndedMeansOver'
  <2>1. log' = log /\ close'[s] = "open" /\ shown'[s] = {}
    BY <1>4, <1>t DEF Open, TypeOK, stream
  <2>2. ASSUME NEW r \in Sockets, r # s
        PROVE  close'[r] = "ended" <=> ShowedEnd(r)'
    <3>1. close'[r] = close[r] /\ shown'[r] = shown[r]
      BY <1>4, <1>t, <2>2 DEF Open, TypeOK
    <3> QED
      BY <1>t, <2>1, <3>1, AgreesStill
  <2> QED
    BY <2>1, <2>2 DEF EndedMeansOver, ShowedEnd
<1>5. ASSUME NEW s \in Sockets, Serve(s) PROVE EndedMeansOver'
  <2>1. CASE TurnAway(s)
    BY <2>1, ClosedWithoutEnd DEF TurnAway, Closes
  <2>2. CASE Admit(s)
    BY <2>2, <1>s DEF Admit, stream
  <2>3. CASE CloseAtLifetime(s)
    BY <2>3, ClosedWithoutEnd DEF CloseAtLifetime, Closes
  <2>4. CASE Read(s)
    BY <2>4, <1>s DEF Read, stream
  <2>5. CASE ReadFails(s)
    <3>1. CASE redis_errors[s] < MaxErrors
      BY <2>5, <3>1, <1>s DEF ReadFails, stream
    <3>2. CASE ~ (redis_errors[s] < MaxErrors)
      BY <2>5, <3>2, ClosedWithoutEnd DEF ReadFails, Closes
    <3> QED
      BY <3>1, <3>2
  <2>6. CASE SendEntry(s)
    BY <2>6, SendAgrees
  <2>7. CASE SendFailed(s)
    BY <2>7, ClosedWithoutEnd DEF SendFailed, Closes
  <2> QED
    BY <1>5, <2>1, <2>2, <2>3, <2>4, <2>5, <2>6, <2>7 DEF Serve
<1>6. ASSUME NEW s \in Sockets, Disconnect(s) PROVE EndedMeansOver'
  BY <1>6, ClosedWithoutEnd DEF Disconnect, Closes
<1>7. CASE UNCHANGED vars
  BY <1>7, <1>s DEF vars, stream
<1> QED
  BY <1>1, <1>2, <1>3, <1>4, <1>5, <1>6, <1>7 DEF Next

\* A socket is closed as ended exactly when its page was shown the event that
\* ends the job, however many retries, errors and reloads came before.
THEOREM EndAgreed == Spec => []EndedMeansOver
<1>1. Init => EndedMeansOver
  BY DEF Init, EndedMeansOver
<1>2. TailInv /\ [Next]_vars => TailInv'
  BY TailStep
<1>3. TailInv /\ EndedMeansOver /\ [Next]_vars => EndedMeansOver'
  BY AgreeStep
<1> QED
  BY TailInit, <1>1, <1>2, <1>3, PTL DEF Spec
=============================================================================
