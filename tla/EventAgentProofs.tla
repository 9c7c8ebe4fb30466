-------------------------- MODULE EventAgentProofs --------------------------
(***************************************************************************)
(* What EventAgent guarantees for every set of calls, objects and ids and  *)
(* every retry budget.                                                     *)
(***************************************************************************)
EXTENDS EventAgent, FiniteSetTheorems, TLAPS

USE IdOfAssumption, MaxRetriesAssumption, HandlerAssumption,
    NoneAssumption

-----------------------------------------------------------------------------
(* Type correctness *)

\* The delay is positive and never exceeds the cap of 60 seconds.
LEMMA BackoffBounded ==
    ASSUME NEW k \in Nat
    PROVE  BackoffDelay(k) \in 1..60
<1>1. CASE k < 6
  <2>1. k = 0 \/ k = 1 \/ k = 2 \/ k = 3 \/ k = 4 \/ k = 5
    BY <1>1
  <2> QED
    BY <2>1 DEF BackoffDelay
<1>2. CASE ~(k < 6)
  BY <1>2 DEF BackoffDelay
<1> QED
  BY <1>1, <1>2

LEMMA InitType == Init => TypeOK
  BY DEF Init, TypeOK, CallOK, Status, Results, Open

\* Every step keeps every variable in its type, and a call's loop variable
\* within the budget of its event.
LEMMA NextType == TypeOK /\ [Next]_vars => TypeOK'
<1> SUFFICES ASSUME TypeOK, [Next]_vars PROVE TypeOK'
  OBVIOUS
<1> USE DEF TypeOK, eventVars, agentVars, historyVars
<1>1. ASSUME NEW C \in SUBSET Calls, NEW f \in [C -> Objects], Submit(C, f)
      PROVE  TypeOK'
  <2>1. \A d \in Calls : CallOK(d)'
    <3> SUFFICES ASSUME NEW d \in Calls PROVE CallOK(d)'
      OBVIOUS
    <3>1. CASE d \in C
      <4>1. pc[d] = "idle" /\ pc'[d] = "ready" /\ target'[d] = f[d]
        BY <1>1, <3>1 DEF Submit
      <4>2. f[d] \in Objects /\ MaxRetriesOf[f[d]] \in Nat
        BY <3>1
      <4>3. attempt'[d] = 0 /\ result'[d] = None
        BY <1>1, <4>1 DEF Submit, CallOK
      <4> QED
        BY <4>1, <4>2, <4>3 DEF CallOK, Open
    <3>2. CASE d \notin C
      BY <1>1, <3>2 DEF Submit, CallOK, Open
    <3> QED
      BY <3>1, <3>2
  <2>2. /\ pc' \in [Calls -> {"idle", "ready", "sleeping", "done"}]
        /\ target' \in [Calls -> Objects \cup {None}]
    BY <1>1 DEF Submit
  <2>3. overlapped' \subseteq Ids
    BY <1>1 DEF Submit, Overlaps
  <2> QED
    BY <1>1, <2>1, <2>2, <2>3 DEF Submit
<1>2. ASSUME NEW c \in Calls, Cancel(c)
      PROVE  TypeOK'
  BY <1>2 DEF Cancel, CallOK, Open, Results
<1>3. ASSUME NEW c \in Calls, SkipDuplicate(c)
      PROVE  TypeOK'
  BY <1>3 DEF SkipDuplicate, IsDuplicate, CallOK, Open, Results
<1>4. ASSUME NEW c \in Calls, MayAttempt(c)
      PROVE  Open(c) /\ target[c] \in Objects /\ Id(c) \in Ids
  BY <1>4 DEF MayAttempt, CallOK, Open, Id
<1>5. ASSUME NEW c \in Calls, AttemptSucceeds(c)
      PROVE  TypeOK'
  <2>1. Open(c) /\ target[c] \in Objects /\ Id(c) \in Ids
    BY <1>4, <1>5 DEF AttemptSucceeds, Record
  <2>2. \A d \in Calls : CallOK(d)'
    BY <1>5, <2>1 DEF AttemptSucceeds, Record, CallOK, Open, Results
  <2>3. ran' \in [Ids -> Nat]
    <3>1. [ran EXCEPT ![Id(c)] = @ + 1] \in [Ids -> Nat]
      BY <2>1
    <3>2. \/ ran' = ran
          \/ ran' = [ran EXCEPT ![Id(c)] = @ + 1]
      BY <1>5, Zenon DEF AttemptSucceeds, Record
    <3> QED
      BY <3>1, <3>2
  <2> QED
    BY <1>5, <2>1, <2>2, <2>3 DEF AttemptSucceeds, Record, Status, Results
<1>6. ASSUME NEW c \in Calls, AttemptFails(c)
      PROVE  TypeOK'
  <2>1. Open(c) /\ target[c] \in Objects /\ Id(c) \in Ids
    BY <1>4, <1>6 DEF AttemptFails, MayRetry, NextAttempt
  <2>2. BackoffDelay(attempt[c]) \in 0..60
    <3>1. attempt[c] \in Nat
      OBVIOUS
    <3>2. BackoffDelay(attempt[c]) \in 1..60
      BY <3>1, BackoffBounded
    <3> QED
      BY <3>2
  <2>3. \A d \in Calls : CallOK(d)'
    <3> SUFFICES ASSUME NEW d \in Calls PROVE CallOK(d)'
      OBVIOUS
    <3>1. CASE d = c
      <4>1. MaxRetriesOf[target[c]] \in Nat /\ attempt[c] \in Nat
        BY <2>1
      <4>2. attempt'[c] = attempt[c] + 1 /\ attempt[c] < MaxRetriesOf[target[c]]
        BY <1>6 DEF AttemptFails, MayRetry, NextAttempt
      <4>3. pc'[c] = "sleeping" /\ target' = target /\ result' = result
        BY <1>6 DEF AttemptFails, MayRetry, NextAttempt
      <4>4. pc[c] # "done"
        BY <2>1 DEF Open
      <4> QED
        BY <2>1, <3>1, <4>1, <4>2, <4>3, <4>4 DEF CallOK, Open
    <3>2. CASE d # c
      BY <1>6, <3>2 DEF AttemptFails, MayRetry, NextAttempt, CallOK, Open
    <3> QED
      BY <3>1, <3>2
  <2> QED
    BY <1>6, <2>1, <2>2, <2>3, SMTT(30)
    DEF AttemptFails, MayRetry, NextAttempt, Status
<1>7. ASSUME NEW c \in Calls, LastAttemptFails(c)
      PROVE  TypeOK'
  <2>1. Open(c) /\ target[c] \in Objects /\ Id(c) \in Ids
    BY <1>4, <1>7 DEF LastAttemptFails, NextAttempt, Enqueue
  <2>2. \A d \in Calls : CallOK(d)'
    BY <1>7, <2>1
    DEF LastAttemptFails, NextAttempt, Enqueue, CallOK, Open, Results
  <2>3. dlq' \in Seq(Objects)
    BY <1>7, <2>1 DEF LastAttemptFails, NextAttempt, Enqueue
  <2>4. log' \in [Ids -> Objects \cup {None}]
    BY <1>7, <2>1 DEF LastAttemptFails, NextAttempt, Enqueue
  <2>5. retries' \in [Objects -> Nat]
    BY <1>7, <2>1 DEF LastAttemptFails, NextAttempt, Enqueue
  <2>6. status' \in [Objects -> Status]
    BY <1>7, <2>1 DEF LastAttemptFails, NextAttempt, Enqueue, Status
  <2>7. UNCHANGED <<processed, target, attempt, timer, historyVars>>
    BY <1>7 DEF LastAttemptFails, NextAttempt, Enqueue
  <2>8. /\ pc' \in [Calls -> {"idle", "ready", "sleeping", "done"}]
        /\ result' \in [Calls -> Results \cup {None}]
    BY <1>7, <2>1 DEF LastAttemptFails, NextAttempt, Enqueue, Results
  <2> QED
    BY <2>2, <2>3, <2>4, <2>5, <2>6, <2>7, <2>8
<1>8. CASE Tick
  <2>1. timer' \in [Calls -> 0..60]
    BY <1>8 DEF Tick
  <2> QED
    BY <1>8, <2>1 DEF Tick, CallOK, Open
<1>9. CASE UNCHANGED vars
  BY <1>9 DEF vars, CallOK, Open
<1> QED
  BY <1>1, <1>2, <1>3, <1>5, <1>6, <1>7, <1>8, <1>9 DEF Next, Step

\* The variables of the agent always have their types.
THEOREM TypeCorrect == Spec => []TypeOK
<1>1. Init => TypeOK
  BY InitType
<1>2. TypeOK /\ [Next]_vars => TypeOK'
  BY NextType
<1> QED
  BY <1>1, <1>2, PTL DEF Spec, Safety
-----------------------------------------------------------------------------
(* The deduplication record *)

\* With a handler that does its work when called, an id is recorded exactly
\* when its work was done, however deliveries overlap.
THEOREM RecordExact ==
    ASSUME ~AsyncHandler
    PROVE  Spec => []DedupRecordExact
<1> DEFINE IInv == TypeOK /\ DedupRecordExact
<1>1. Init => IInv
  BY InitType DEF Init, DedupRecordExact
<1>2. IInv /\ [Next]_vars => IInv'
  <2> SUFFICES ASSUME TypeOK, DedupRecordExact, TypeOK', [Next]_vars
               PROVE  DedupRecordExact'
    BY NextType
  <2>1. ASSUME NEW c \in Calls, AttemptSucceeds(c)
        PROVE  DedupRecordExact'
    <3>1. ran \in [Ids -> Nat]
      BY DEF TypeOK
    <3>2. /\ processed' = processed \cup {Id(c)}
          /\ ran' = [ran EXCEPT ![Id(c)] = @ + 1]
      BY <2>1, Zenon DEF AttemptSucceeds, Record
    <3> QED
      BY <3>1, <3>2 DEF DedupRecordExact
  <2>2. ASSUME UNCHANGED <<processed, ran>>
        PROVE  DedupRecordExact'
    BY <2>2 DEF DedupRecordExact
  <2>3. \/ \E c \in Calls : AttemptSucceeds(c)
        \/ UNCHANGED <<processed, ran>>
    BY DEF Next, Step, Submit, Cancel, SkipDuplicate, AttemptFails,
           LastAttemptFails, Tick, vars, agentVars, historyVars
  <2> QED
    BY <2>1, <2>2, <2>3
<1>3. IInv => DedupRecordExact
  OBVIOUS
<1> HIDE DEF IInv
<1> QED
  BY <1>1, <1>2, <1>3, PTL DEF Spec, Safety

-----------------------------------------------------------------------------
(* At most one execution *)

LEMMA InitOnce == Init => OnceInv
  BY InitType DEF Init, OnceInv, OneOpenCall, SleeperUnprocessed, RanRecorded,
                  SerialOnce, Open

\* A step that opens no call, keeps the events of the calls, and neither
\* processes an id nor puts a call to sleep keeps the invariant.
LEMMA QuietOnce ==
    ASSUME OnceInv, TypeOK',
           UNCHANGED <<target, processed, ran, overlapped>>,
           \A c \in Calls : Open(c)' => Open(c),
           \A c \in Calls : pc'[c] = "sleeping" =>
                               pc[c] = "sleeping" \/ Id(c) \notin processed
    PROVE  OnceInv'
<1>1. \A c \in Calls : Id(c)' = Id(c)
  BY DEF Id
<1>2. OneOpenCall'
  BY <1>1 DEF OnceInv, OneOpenCall
<1>3. SleeperUnprocessed'
  BY <1>1 DEF OnceInv, SleeperUnprocessed
<1>4. RanRecorded' /\ SerialOnce'
  BY DEF OnceInv, RanRecorded, SerialOnce
<1> QED
  BY <1>2, <1>3, <1>4 DEF OnceInv

LEMMA NextOnce == OnceInv /\ [Next]_vars => OnceInv'
<1> SUFFICES ASSUME OnceInv, [Next]_vars PROVE OnceInv'
  OBVIOUS
<1>0. TypeOK /\ TypeOK'
  BY NextType DEF OnceInv
<1>1. ASSUME NEW C \in SUBSET Calls, NEW f \in [C -> Objects], Submit(C, f)
      PROVE  OnceInv'
  <2>1. /\ UNCHANGED <<processed, ran>>
        /\ overlapped' = overlapped \cup Overlaps(C, f)
    BY <1>1 DEF Submit, agentVars
  <2>2. \A c \in Calls : IF c \in C
                         THEN Id(c)' = IdOf[f[c]] /\ pc'[c] = "ready"
                         ELSE Id(c)' = Id(c) /\ pc'[c] = pc[c]
    BY <1>0, <1>1 DEF Submit, Id, TypeOK
  <2>3. OneOpenCall'
    <3> SUFFICES ASSUME NEW c \in Calls, NEW d \in Calls,
                        Open(c)', Open(d)', Id(c)' = Id(d)',
                        Id(c)' \notin overlapped', c # d
                 PROVE  FALSE
      BY DEF OneOpenCall
    <3>0. /\ Id(c)' \notin overlapped
          /\ \A e \in C : IdOf[f[e]] \in Ids
      BY <2>1
    <3>1. CASE c \in C /\ d \in C
      BY <2>1, <2>2, <3>0, <3>1 DEF Overlaps
    <3>2. CASE c \in C /\ d \notin C
      BY <2>1, <2>2, <3>0, <3>2 DEF Overlaps, Open
    <3>3. CASE c \notin C /\ d \in C
      BY <2>1, <2>2, <3>0, <3>3 DEF Overlaps, Open
    <3>4. CASE c \notin C /\ d \notin C
      BY <2>2, <3>0, <3>4 DEF OnceInv, OneOpenCall, Open
    <3> QED
      BY <3>1, <3>2, <3>3, <3>4
  <2>4. SleeperUnprocessed'
    BY <2>1, <2>2 DEF OnceInv, SleeperUnprocessed
  <2>5. RanRecorded' /\ SerialOnce'
    BY <2>1 DEF OnceInv, RanRecorded, SerialOnce
  <2> QED
    BY <1>0, <2>3, <2>4, <2>5 DEF OnceInv
<1>2. ASSUME NEW c \in Calls, Cancel(c) \/ SkipDuplicate(c)
                              \/ AttemptFails(c) \/ LastAttemptFails(c)
      PROVE  OnceInv'
  <2>1. UNCHANGED <<target, processed, ran, overlapped>>
    BY <1>2 DEF Cancel, SkipDuplicate, AttemptFails, LastAttemptFails,
                agentVars, historyVars
  <2>2. \A d \in Calls : \/ pc'[d] = pc[d]
                         \/ pc'[d] = "done"
                         \/ d = c /\ pc'[d] = "sleeping" /\ MayAttempt(c)
    <3>1. \/ pc' = [pc EXCEPT ![c] = "done"]
          \/ pc' = [pc EXCEPT ![c] = "sleeping"] /\ MayAttempt(c)
      BY <1>2, Zenon
      DEF Cancel, SkipDuplicate, AttemptFails, LastAttemptFails
    <3>2. pc \in [Calls -> {"idle", "ready", "sleeping", "done"}]
      BY <1>0 DEF TypeOK
    <3> QED
      BY <3>1, <3>2
  <2> QED
    BY <1>0, <2>1, <2>2, QuietOnce DEF Open, MayAttempt
<1>3. ASSUME NEW c \in Calls, AttemptSucceeds(c)
      PROVE  OnceInv'
  <2>1. /\ processed' = processed \cup {Id(c)}
        /\ target' = target /\ overlapped' = overlapped
        /\ pc' = [pc EXCEPT ![c] = "done"]
        /\ ran' = ran \/ ran' = [ran EXCEPT ![Id(c)] = @ + 1]
    BY <1>3, Zenon DEF AttemptSucceeds, Record
  <2>2. Open(c) /\ (Id(c) \notin overlapped => Id(c) \notin processed)
    BY <1>3 DEF AttemptSucceeds, MayAttempt, Open, OnceInv,
                SleeperUnprocessed
  <2>3. pc \in [Calls -> {"idle", "ready", "sleeping", "done"}]
        /\ ran \in [Ids -> Nat]
    BY <1>0 DEF TypeOK
  <2>4. \A d \in Calls : /\ Id(d)' = Id(d)
                         /\ Open(d)' => Open(d) /\ d # c
                         /\ pc'[d] = "sleeping" => pc[d] = "sleeping" /\ d # c
    BY <2>1, <2>3 DEF Id, Open
  <2>5. OneOpenCall'
    BY <2>1, <2>4 DEF OnceInv, OneOpenCall
  <2>6. SleeperUnprocessed'
    BY <2>1, <2>2, <2>4 DEF OnceInv, OneOpenCall, SleeperUnprocessed, Open
  <2>7. RanRecorded' /\ SerialOnce'
    <3>1. \A i \in Ids : \/ ran'[i] = ran[i]
                         \/ i = Id(c) /\ ran'[i] = ran[i] + 1
      <4>1. CASE ran' = ran
        BY <4>1
      <4>2. CASE ran' = [ran EXCEPT ![Id(c)] = @ + 1]
        BY <2>3, <4>2
      <4> QED
        BY <2>1, <4>1, <4>2
    <3>2. Id(c) \in Ids \ overlapped => ran[Id(c)] = 0
      BY <2>2, <2>3 DEF OnceInv, RanRecorded
    <3> QED
      BY <2>1, <2>3, <3>1, <3>2 DEF OnceInv, RanRecorded, SerialOnce
  <2> QED
    BY <1>0, <2>5, <2>6, <2>7 DEF OnceInv
<1>4. CASE Tick \/ UNCHANGED vars
  BY <1>0, <1>4, QuietOnce DEF Tick, vars, agentVars, historyVars, Open
<1> QED
  BY <1>1, <1>2, <1>3, <1>4 DEF Next, Step

\* The work of an id whose deliveries never overlapped is done at most once,
\* with any number of calls, redeliveries, retries and cancellations, and
\* whatever happens to the other ids.
THEOREM AtMostOnce == Spec => []SerialOnce
<1>1. Init => OnceInv
  BY InitOnce
<1>2. OnceInv /\ [Next]_vars => OnceInv'
  BY NextOnce
<1>3. OnceInv => SerialOnce
  BY DEF OnceInv
<1> QED
  BY <1>1, <1>2, <1>3, PTL DEF Spec, Safety
-----------------------------------------------------------------------------
(* What a completed event means *)

\* A completed event whose deliveries never overlapped is logged under its id
\* and keeps its status.
FinalInv ==
    /\ OnceInv
    /\ \A i \in processed \ overlapped :
          /\ log[i] \in Objects /\ IdOf[log[i]] = i
          /\ status[log[i]] = "completed"

\* A call that is let in works on an id that is not processed yet, unless
\* deliveries of that id overlapped.
LEMMA AttemptIsFirst ==
    ASSUME OnceInv, NEW c \in Calls, MayAttempt(c)
    PROVE  /\ target[c] \in Objects /\ Id(c) = IdOf[target[c]]
           /\ Id(c) \in Ids
           /\ Id(c) \notin overlapped => Id(c) \notin processed
<1>1. target[c] \in Objects
  BY DEF MayAttempt, OnceInv, TypeOK, CallOK
<1> QED
  BY <1>1 DEF MayAttempt, OnceInv, SleeperUnprocessed, Id

\* No step touches the logged object of such an event.
LEMMA StepFinal ==
    ASSUME FinalInv, [Next]_vars
    PROVE  /\ FinalInv'
           /\ \A i \in processed \ overlapped' :
                 log'[i] = log[i] /\ status'[log[i]] = "completed"
<1> DEFINE Final == \A i \in processed \ overlapped :
                        /\ log[i] \in Objects /\ IdOf[log[i]] = i
                        /\ status[log[i]] = "completed"
           Kept == \A i \in processed \ overlapped' :
                       log'[i] = log[i] /\ status'[log[i]] = "completed"
<1> SUFFICES Final' /\ Kept
  BY NextOnce DEF FinalInv
<1>0. /\ OnceInv /\ Final /\ processed \subseteq Ids
      /\ status \in [Objects -> Status] /\ log \in [Ids -> Objects \cup {None}]
  BY DEF FinalInv, OnceInv, TypeOK
<1>1. ASSUME NEW c \in Calls, AttemptSucceeds(c)
      PROVE  Final' /\ Kept
  <2>1. /\ target[c] \in Objects /\ Id(c) = IdOf[target[c]] /\ Id(c) \in Ids
        /\ Id(c) \notin overlapped => Id(c) \notin processed
    BY <1>0, <1>1, AttemptIsFirst DEF AttemptSucceeds
  <2>2. /\ status' = [status EXCEPT ![target[c]] = "completed"]
        /\ log' = [log EXCEPT ![Id(c)] = target[c]]
        /\ processed' = processed \cup {Id(c)} /\ overlapped' = overlapped
    BY <1>1, Zenon DEF AttemptSucceeds, Record
  <2> QED
    BY <1>0, <2>1, <2>2
<1>2. ASSUME NEW c \in Calls, AttemptFails(c) \/ LastAttemptFails(c)
      PROVE  Final' /\ Kept
  <2>1. /\ target[c] \in Objects /\ Id(c) = IdOf[target[c]] /\ Id(c) \in Ids
        /\ Id(c) \notin overlapped => Id(c) \notin processed
    BY <1>0, <1>2, AttemptIsFirst DEF AttemptFails, LastAttemptFails
  <2>2. /\ \E s \in {"processing", "dead_letter"} :
              status' = [status EXCEPT ![target[c]] = s]
        /\ log' = log \/ log' = [log EXCEPT ![Id(c)] = target[c]]
        /\ UNCHANGED <<processed, overlapped>>
    BY <1>2, Zenon DEF AttemptFails, LastAttemptFails, agentVars, historyVars
  <2> QED
    BY <1>0, <2>1, <2>2
<1>3. CASE UNCHANGED <<status, log, processed>>
  <2>1. overlapped \subseteq overlapped'
    BY <1>1, <1>2, <1>3
    DEF Next, Step, Submit, Cancel, SkipDuplicate, AttemptSucceeds,
        AttemptFails, LastAttemptFails, Tick, vars, historyVars
  <2> QED
    BY <1>0, <1>3, <2>1
<1>4. \/ \E c \in Calls : \/ AttemptSucceeds(c) \/ AttemptFails(c)
                          \/ LastAttemptFails(c)
      \/ UNCHANGED <<status, log, processed>>
  BY DEF Next, Step, Submit, Cancel, SkipDuplicate, Tick, vars, eventVars,
         agentVars
<1> QED
  BY <1>1, <1>2, <1>3, <1>4

\* No later delivery of a completed event puts it back to work or replaces it
\* in the log, unless deliveries of its id overlapped.
THEOREM CompletedStays == Spec => CompletedIsFinal
<1>1. Init => FinalInv
  BY InitOnce DEF Init, FinalInv
<1>2. FinalInv /\ [Next]_vars =>
          /\ FinalInv'
          /\ [\A i \in processed \ overlapped' :
                 log'[i] = log[i] /\ status'[log[i]] = "completed"]_vars
  BY StepFinal
<1> QED
  BY <1>1, <1>2, PTL DEF Spec, Safety, CompletedIsFinal

-----------------------------------------------------------------------------
(* What is left to do when an id is processed *)

\* The calls that are backing off with the id i.
Asleep(p, i) == {c \in Calls : p[c] = "sleeping" /\ Id(c) = i}

\* One call less asleep makes up for one run more.
LEMMA LoadKept ==
    ASSUME NEW S, IsFiniteSet(S), NEW T \in SUBSET S, NEW r \in Nat, NEW s \in Nat,
           \/ s = r
           \/ s = r + 1 /\ \E c \in S : c \notin T
    PROVE  s + Cardinality(T) <= r + Cardinality(S)
<1>1. IsFiniteSet(T) /\ Cardinality(T) \in Nat /\ Cardinality(S) \in Nat
      /\ Cardinality(T) <= Cardinality(S)
  BY FS_Subset, FS_CardinalityType
<1>2. CASE s = r
  BY <1>1, <1>2
<1>3. CASE s = r + 1 /\ \E c \in S : c \notin T
  <2>1. T # S
    BY <1>3
  <2>2. Cardinality(T) < Cardinality(S)
    BY <1>1, <2>1, FS_Subset
  <2> QED
    BY <1>1, <1>3, <2>2
<1> QED
  BY <1>2, <1>3

\* Who falls asleep has found its id unprocessed, and who does the work of a
\* processed id was asleep.
LEMMA SleepersWork ==
    ASSUME TypeOK, [Next]_vars, NEW i \in processed
    PROVE  /\ Asleep(pc', i) \subseteq Asleep(pc, i)
           /\ ran[i] \in Nat /\ ran'[i] \in Nat
           /\ \/ ran'[i] = ran[i]
              \/ /\ ran'[i] = ran[i] + 1
                 /\ \E c \in Asleep(pc, i) : c \notin Asleep(pc', i)
<1>0. /\ pc \in [Calls -> {"idle", "ready", "sleeping", "done"}]
      /\ ran \in [Ids -> Nat] /\ i \in Ids /\ ran[i] \in Nat
  BY DEF TypeOK
<1>1. ASSUME NEW c \in Calls, NEW w, w # "sleeping", pc' = [pc EXCEPT ![c] = w]
      PROVE  /\ Asleep(pc', i) \subseteq Asleep(pc, i)
             /\ c \notin Asleep(pc', i)
  BY <1>0, <1>1 DEF Asleep
<1>2. ASSUME NEW C \in SUBSET Calls, NEW f \in [C -> Objects], Submit(C, f)
      PROVE  /\ Asleep(pc', i) \subseteq Asleep(pc, i) /\ ran' = ran
  <2>1. /\ ran' = ran
        /\ \A c \in Calls : pc'[c] = "sleeping" => pc[c] = "sleeping"
    BY <1>2 DEF Submit
  <2> QED
    BY <2>1 DEF Asleep
<1>3. ASSUME NEW c \in Calls, Cancel(c) \/ SkipDuplicate(c) \/ LastAttemptFails(c)
      PROVE  Asleep(pc', i) \subseteq Asleep(pc, i) /\ ran' = ran
  <2>1. pc' = [pc EXCEPT ![c] = "done"] /\ ran' = ran
    BY <1>3 DEF Cancel, SkipDuplicate, LastAttemptFails, historyVars
  <2> QED
    BY <1>1, <2>1
<1>4. ASSUME NEW c \in Calls, AttemptFails(c)
      PROVE  Asleep(pc', i) \subseteq Asleep(pc, i) /\ ran' = ran
  <2>1. /\ pc' = [pc EXCEPT ![c] = "sleeping"] /\ ran' = ran
        /\ MayAttempt(c)
    BY <1>4 DEF AttemptFails, historyVars
  <2>2. Id(c) = i => pc[c] = "sleeping"
    BY <2>1 DEF MayAttempt
  <2> QED
    BY <1>0, <2>1, <2>2 DEF Asleep
<1>5. ASSUME NEW c \in Calls, AttemptSucceeds(c)
      PROVE  /\ Asleep(pc', i) \subseteq Asleep(pc, i)
             /\ \/ ran'[i] = ran[i]
                \/ /\ ran'[i] = ran[i] + 1
                   /\ \E d \in Asleep(pc, i) : d \notin Asleep(pc', i)
  <2>1. /\ pc' = [pc EXCEPT ![c] = "done"] /\ MayAttempt(c)
        /\ ran' = IF AsyncHandler THEN ran ELSE [ran EXCEPT ![Id(c)] = @ + 1]
    BY <1>5 DEF AttemptSucceeds
  <2>2. Asleep(pc', i) \subseteq Asleep(pc, i) /\ c \notin Asleep(pc', i)
    BY <1>1, <2>1
  <2>3. CASE Id(c) = i
    <3>1. c \in Asleep(pc, i)
      BY <2>1, <2>3 DEF MayAttempt, Asleep
    <3>2. ran'[i] = ran[i] \/ ran'[i] = ran[i] + 1
      BY <1>0, <2>1, <2>3
    <3> QED
      BY <2>2, <3>1, <3>2
  <2>4. CASE Id(c) # i
    <3>1. ran'[i] = ran[i]
      BY <1>0, <2>1, <2>4
    <3> QED
      BY <2>2, <3>1
  <2> QED
    BY <2>3, <2>4
<1>6. CASE Tick \/ UNCHANGED vars
  <2>1. pc' = pc /\ ran' = ran
    BY <1>6 DEF Tick, vars, historyVars
  <2> QED
    BY <1>0, <2>1 DEF Asleep
<1>7. Asleep(pc', i) \subseteq Asleep(pc, i) /\ ran' = ran
      => /\ Asleep(pc', i) \subseteq Asleep(pc, i)
         /\ ran'[i] = ran[i] /\ ran'[i] \in Nat
  BY <1>0
<1>8. ran'[i] \in {ran[i], ran[i] + 1} => ran'[i] \in Nat
  BY <1>0
<1> QED
  BY <1>0, <1>2, <1>3, <1>4, <1>5, <1>6, <1>7, <1>8 DEF Next, Step

\* The work left over when an id is processed is that of the calls backing off
\* then, for any finite number of calls, however often the id is delivered.
THEOREM LateWorkOnly ==
    ASSUME IsFiniteSet(Calls)
    PROVE  Spec => LateWorkBounded
<1> DEFINE Late == \A i \in processed :
                      ran'[i] + Cardinality(Asleep(pc', i))
                          <= ran[i] + Cardinality(Asleep(pc, i))
<1>1. TypeOK /\ [Next]_vars => Late
  <2> SUFFICES ASSUME TypeOK, [Next]_vars, NEW i \in processed
               PROVE  ran'[i] + Cardinality(Asleep(pc', i))
                          <= ran[i] + Cardinality(Asleep(pc, i))
    OBVIOUS
  <2> DEFINE S == Asleep(pc, i)
             T == Asleep(pc', i)
  <2>1. IsFiniteSet(S)
    <3>1. S \in SUBSET Calls
      BY DEF Asleep
    <3> QED
      BY <3>1, FS_Subset
  <2>2. /\ T \in SUBSET S /\ ran[i] \in Nat /\ ran'[i] \in Nat
        /\ \/ ran'[i] = ran[i]
           \/ ran'[i] = ran[i] + 1 /\ \E c \in S : c \notin T
    BY SleepersWork
  <2> HIDE DEF S, T
  <2>3. ran'[i] + Cardinality(T) <= ran[i] + Cardinality(S)
    BY <2>1, <2>2, LoadKept
  <2> QED
    BY <2>3 DEF S, T
<1>2. Late => \A i \in processed :
          LET load(p, r) == r[i] + Cardinality({c \in Calls :
                                     p[c] = "sleeping" /\ Id(c) = i})
          IN  load(pc', ran') <= load(pc, ran)
  BY DEF Asleep
<1> QED
  BY <1>1, <1>2, TypeCorrect, PTL DEF Spec, Safety, LateWorkBounded

-----------------------------------------------------------------------------
(* Dead letters and events in PROCESSING *)

\* A dead letter has had all its attempts, however many calls handle its
\* object at the same time.
THEOREM DeadLettersSpent == Spec => []DeadLetterSpent
<1> DEFINE IInv == TypeOK /\ DeadLetterSpent
<1>1. Init => IInv
  BY InitType DEF Init, DeadLetterSpent
<1>2. IInv /\ [Next]_vars => IInv'
  <2> SUFFICES ASSUME TypeOK, DeadLetterSpent, TypeOK', [Next]_vars
               PROVE  DeadLetterSpent'
    BY NextType
  <2>0. status \in [Objects -> Status] /\ retries \in [Objects -> Nat]
    BY DEF TypeOK
  <2>1. ASSUME NEW c \in Calls, AttemptSucceeds(c)
        PROVE  DeadLetterSpent'
    BY <2>0, <2>1 DEF AttemptSucceeds, DeadLetterSpent
  <2>2. ASSUME NEW c \in Calls, AttemptFails(c)
        PROVE  DeadLetterSpent'
    <3>1. /\ status' = [status EXCEPT ![target[c]] = "processing"]
          /\ retries' = [retries EXCEPT ![target[c]] = NextAttempt(c)]
      BY <2>2, Zenon DEF AttemptFails
    <3> QED
      BY <2>0, <3>1 DEF DeadLetterSpent
  <2>3. ASSUME NEW c \in Calls, LastAttemptFails(c)
        PROVE  DeadLetterSpent'
    <3>1. /\ status' = [status EXCEPT ![target[c]] = "dead_letter"]
          /\ retries' = [retries EXCEPT ![target[c]] = attempt[c] + 1]
          /\ attempt[c] = MaxRetriesOf[target[c]]
      BY <2>3, Zenon DEF LastAttemptFails, NextAttempt
    <3> QED
      BY <2>0, <3>1 DEF DeadLetterSpent
  <2>4. ASSUME UNCHANGED <<status, retries>>
        PROVE  DeadLetterSpent'
    BY <2>4 DEF DeadLetterSpent
  <2>5. \/ \E c \in Calls : \/ AttemptSucceeds(c) \/ AttemptFails(c)
                            \/ LastAttemptFails(c)
        \/ UNCHANGED <<status, retries>>
    BY DEF Next, Step, Submit, Cancel, SkipDuplicate, Tick, vars, eventVars
  <2> QED
    BY <2>1, <2>2, <2>3, <2>4, <2>5
<1>3. IInv => DeadLetterSpent
  OBVIOUS
<1> HIDE DEF IInv
<1> QED
  BY <1>1, <1>2, <1>3, PTL DEF Spec, Safety

\* Only a call that still backs off or was cancelled leaves an event in
\* PROCESSING: the code itself abandons none.
THEOREM NoneAbandoned == Spec => []StuckOnlyByCancel
<1> DEFINE Held(o, c) == /\ target[c] = o
                         /\ pc[c] = "sleeping" \/ result[c] = "cancelled"
           IInv == TypeOK /\ StuckOnlyByCancel
<1>1. Init => IInv
  BY InitType DEF Init, StuckOnlyByCancel
<1>2. IInv /\ [Next]_vars => IInv'
  <2> SUFFICES ASSUME TypeOK, StuckOnlyByCancel, TypeOK', [Next]_vars,
                      NEW o \in Objects, status'[o] = "processing"
               PROVE  \E c \in Calls : Held(o, c)'
    BY NextType DEF StuckOnlyByCancel
  <2>0. /\ status \in [Objects -> Status]
        /\ pc \in [Calls -> {"idle", "ready", "sleeping", "done"}]
        /\ result \in [Calls -> Results \cup {None}]
        /\ target \in [Calls -> Objects \cup {None}]
        /\ \A c \in Calls : result[c] = "cancelled" => pc[c] = "done"
    BY DEF TypeOK, CallOK, Results
  <2>1. ASSUME status[o] = "processing",
               \A c \in Calls : Held(o, c) => Held(o, c)'
        PROVE  \E c \in Calls : Held(o, c)'
    BY <2>1 DEF StuckOnlyByCancel
  <2>2. ASSUME NEW C \in SUBSET Calls, NEW f \in [C -> Objects], Submit(C, f)
        PROVE  \E c \in Calls : Held(o, c)'
    <3>1. status' = status /\ result' = result
      BY <2>2 DEF Submit, eventVars
    <3>2. \A c \in Calls : Held(o, c) => c \notin C
      BY <2>0, <2>2 DEF Submit
    <3>3. \A c \in Calls \ C : pc'[c] = pc[c] /\ target'[c] = target[c]
      BY <2>2 DEF Submit
    <3>4. \A c \in Calls : Held(o, c) => Held(o, c)'
      BY <3>1, <3>2, <3>3
    <3> QED
      BY <2>1, <3>1, <3>4
  <2>3. ASSUME NEW d \in Calls, Cancel(d)
        PROVE  \E c \in Calls : Held(o, c)'
    <3>1. /\ status' = status /\ target' = target
          /\ pc' = [pc EXCEPT ![d] = "done"]
          /\ result' = [result EXCEPT ![d] = "cancelled"]
      BY <2>3 DEF Cancel, eventVars
    <3>2. \A c \in Calls : Held(o, c) => Held(o, c)'
      BY <2>0, <3>1
    <3> QED
      BY <2>1, <3>1, <3>2
  <2>4. ASSUME NEW d \in Calls, SkipDuplicate(d)
        PROVE  \E c \in Calls : Held(o, c)'
    <3>1. /\ status' = status /\ target' = target /\ pc[d] = "ready"
          /\ pc' = [pc EXCEPT ![d] = "done"]
          /\ result' = [result EXCEPT ![d] = "duplicate"]
      BY <2>4 DEF SkipDuplicate, IsDuplicate, eventVars
    <3>2. \A c \in Calls : Held(o, c) => Held(o, c)'
      BY <2>0, <3>1
    <3> QED
      BY <2>1, <3>1, <3>2
  <2>5. ASSUME NEW d \in Calls, AttemptSucceeds(d) \/ LastAttemptFails(d)
        PROVE  \E c \in Calls : Held(o, c)'
    <3>1. /\ \E s \in {"completed", "dead_letter"} :
                status' = [status EXCEPT ![target[d]] = s]
          /\ target' = target /\ pc' = [pc EXCEPT ![d] = "done"]
          /\ \E r \in Results : result' = [result EXCEPT ![d] = r]
      BY <2>5, Zenon DEF AttemptSucceeds, LastAttemptFails, Results
    <3>2. status[o] = "processing" /\ target[d] # o
      <4>1. target[d] \in Objects
        BY <2>5 DEF AttemptSucceeds, LastAttemptFails, MayAttempt, TypeOK, CallOK
      <4> QED
        BY <2>0, <3>1, <4>1
    <3>3. \A c \in Calls : Held(o, c) => Held(o, c)'
      BY <2>0, <3>1, <3>2
    <3> QED
      BY <2>1, <3>2, <3>3
  <2>6. ASSUME NEW d \in Calls, AttemptFails(d)
        PROVE  \E c \in Calls : Held(o, c)'
    <3>1. /\ status' = [status EXCEPT ![target[d]] = "processing"]
          /\ target' = target /\ result' = result
          /\ pc' = [pc EXCEPT ![d] = "sleeping"]
      BY <2>6, Zenon DEF AttemptFails
    <3>2. CASE target[d] = o
      BY <2>0, <3>1, <3>2
    <3>3. CASE target[d] # o
      <4>1. status[o] = "processing"
        BY <2>0, <3>1, <3>3
      <4>2. \A c \in Calls : Held(o, c) => Held(o, c)'
        BY <2>0, <3>1, <3>3
      <4> QED
        BY <2>1, <4>1, <4>2
    <3> QED
      BY <3>2, <3>3
  <2>7. ASSUME Tick \/ UNCHANGED vars
        PROVE  \E c \in Calls : Held(o, c)'
    <3>1. UNCHANGED <<status, pc, target, result>>
      BY <2>7 DEF Tick, vars, eventVars
    <3> QED
      BY <2>1, <3>1
  <2> QED
    BY <2>2, <2>3, <2>4, <2>5, <2>6, <2>7 DEF Next, Step
<1>3. IInv => StuckOnlyByCancel
  OBVIOUS
<1> HIDE DEF IInv
<1> QED
  BY <1>1, <1>2, <1>3, PTL DEF Spec, Safety
-----------------------------------------------------------------------------
(* The agent keeps the promise of EventDelivery *)

\* How the phase of one call follows its program counter.
LEMMA PhaseOf ==
    ASSUME NEW c \in Calls
    PROVE  /\ pc[c] = "idle" => Phase[c] = "idle"
           /\ pc[c] = "ready" => Phase[c] = "waiting"
           /\ pc[c] = "sleeping" => Phase[c] = "working"
           /\ pc[c] = "done" => Phase[c] = result[c]
  BY DEF Phase

\* A step that touches the program counter and the result of one call only
\* touches the phase of that call only.
LEMMA PhaseUpdate ==
    ASSUME NEW c \in Calls, NEW p, TypeOK,
           pc' = [pc EXCEPT ![c] = p],
           \A d \in Calls \ {c} : result'[d] = result[d]
    PROVE  Phase' = [Phase EXCEPT ![c] = Phase'[c]]
<1>1. \A d \in Calls \ {c} : pc'[d] = pc[d]
  BY DEF TypeOK
<1>2. \A d \in Calls \ {c} : Phase'[d] = Phase[d]
  BY <1>1 DEF Phase
<1>3. /\ DOMAIN Phase = Calls /\ Phase = [d \in Calls |-> Phase[d]]
      /\ DOMAIN Phase' = Calls /\ Phase' = [d \in Calls |-> Phase'[d]]
  BY DEF Phase
<1> QED
  BY <1>2, <1>3, Zenon

\* Every step of the agent is a step of the promise, or invisible to it.
LEMMA StepRefines == TypeOK /\ [Next]_vars => [Delivery!Next]_(Delivery!vars)
<1> SUFFICES ASSUME TypeOK, [Next]_vars
             PROVE  Delivery!Next \/ UNCHANGED Delivery!vars
  OBVIOUS
<1> USE DEF Id, Delivery!Id
<1>0. pc \in [Calls -> {"idle", "ready", "sleeping", "done"}]
      /\ result \in [Calls -> Results \cup {None}]
  BY DEF TypeOK
<1>1. ASSUME NEW C \in SUBSET Calls \ {{}}, NEW f \in [C -> Objects],
             Submit(C, f)
      PROVE  Delivery!Next
  <2>1. \A c \in C : Phase[c] = "idle"
    BY <1>1, PhaseOf DEF Submit
  <2>2. Phase' = [c \in Calls |-> IF c \in C THEN "waiting" ELSE Phase[c]]
    BY <1>0, <1>1 DEF Submit, Phase
  <2>3. Delivery!Arrive(C, f)
    BY <1>1, <2>1, <2>2 DEF Submit, agentVars, Delivery!Arrive
  <2> QED
    BY <2>3 DEF Delivery!Next
<1>2. ASSUME NEW c \in Calls, Cancel(c)
      PROVE  Delivery!Cancel(c)
  <2>1. Phase[c] \in {"waiting", "working"}
    BY <1>2, PhaseOf DEF Cancel, Open
  <2>2. pc'[c] = "done" /\ result'[c] = "cancelled"
    BY <1>0, <1>2 DEF Cancel
  <2>3. Phase' = [Phase EXCEPT ![c] = "cancelled"]
    BY <1>0, <1>2, <2>2, PhaseUpdate DEF Cancel, Phase
  <2> QED
    BY <1>2, <2>1, <2>3 DEF Cancel, agentVars, Delivery!Cancel
<1>3. ASSUME NEW c \in Calls, SkipDuplicate(c)
      PROVE  Delivery!Duplicate(c)
  <2>1. Phase[c] = "waiting"
    BY <1>3, PhaseOf DEF SkipDuplicate, IsDuplicate
  <2>2. pc'[c] = "done" /\ result'[c] = "duplicate"
    BY <1>0, <1>3 DEF SkipDuplicate
  <2>3. Phase' = [Phase EXCEPT ![c] = "duplicate"]
    BY <1>0, <1>3, <2>2, PhaseUpdate DEF SkipDuplicate, IsDuplicate, Phase
  <2> QED
    BY <1>3, <2>1, <2>3
    DEF SkipDuplicate, IsDuplicate, agentVars, Delivery!Duplicate
<1>4. ASSUME NEW c \in Calls, MayAttempt(c)
      PROVE  Delivery!Admitted(c)
  BY <1>4, PhaseOf DEF MayAttempt, Delivery!Admitted
<1>5. ASSUME NEW c \in Calls, AttemptSucceeds(c)
      PROVE  Delivery!Commit(c)
  <2>1. pc'[c] = "done" /\ result'[c] = "success"
    BY <1>0, <1>5 DEF AttemptSucceeds, Record
  <2>2. Phase' = [Phase EXCEPT ![c] = "success"]
    BY <1>0, <1>5, <2>1, PhaseUpdate DEF AttemptSucceeds, Record, Phase
  <2> QED
    BY <1>4, <1>5, <2>2 DEF AttemptSucceeds, Record, Delivery!Commit
<1>6. ASSUME NEW c \in Calls, AttemptFails(c)
      PROVE  Delivery!Begin(c) \/ UNCHANGED Delivery!vars
  <2>1. pc'[c] = "sleeping" /\ UNCHANGED <<target, result, processed, dlq>>
    BY <1>0, <1>6 DEF AttemptFails, MayRetry, NextAttempt, agentVars
  <2>2. Phase'[c] = "working"
    BY <2>1 DEF Phase
  <2>3. Phase' = [Phase EXCEPT ![c] = "working"]
    BY <1>6, <2>1, <2>2, PhaseUpdate DEF AttemptFails, MayRetry, NextAttempt
  <2>4. CASE pc[c] = "ready"
    <3>1. Phase[c] = "waiting" /\ Id(c) \notin processed
      BY <1>6, <2>4, PhaseOf DEF AttemptFails, MayRetry, NextAttempt, MayAttempt
    <3> QED
      BY <2>1, <2>3, <3>1 DEF Delivery!Begin
  <2>5. CASE pc[c] = "sleeping"
    <3>1. Phase[c] = "working"
      BY <2>5, PhaseOf
    <3>2. Phase' = Phase
      BY <2>3, <3>1 DEF Phase
    <3> QED
      BY <2>1, <3>2 DEF Delivery!vars
  <2> QED
    BY <1>6, <2>4, <2>5 DEF AttemptFails, MayRetry, NextAttempt, MayAttempt
<1>7. ASSUME NEW c \in Calls, LastAttemptFails(c)
      PROVE  Delivery!DeadLetter(c)
  <2>1. pc'[c] = "done" /\ result'[c] = "dead"
    BY <1>0, <1>7 DEF LastAttemptFails, NextAttempt, Enqueue
  <2>2. Phase' = [Phase EXCEPT ![c] = "dead"]
    BY <1>0, <1>7, <2>1, PhaseUpdate
    DEF LastAttemptFails, NextAttempt, Enqueue, Phase
  <2> QED
    BY <1>4, <1>7, <2>2
    DEF LastAttemptFails, NextAttempt, Enqueue, Delivery!DeadLetter
<1>8. CASE Tick \/ UNCHANGED vars
  <2>1. UNCHANGED <<pc, result, target, processed, dlq>>
    BY <1>8 DEF Tick, vars, agentVars
  <2> QED
    BY <2>1 DEF Phase, Delivery!vars
<1> QED
  BY <1>1, <1>2, <1>3, <1>5, <1>6, <1>7, <1>8
  DEF Next, Step, Delivery!Next, Delivery!Answer

\* Retries, timers and bookkeeping are invisible from outside: whatever the
\* agent does is a behaviour of EventDelivery.
THEOREM AgentDelivers == Spec => DeliverySafety
<1>1. Init => Delivery!Init
  BY DEF Init, Delivery!Init, Phase
<1>2. TypeOK /\ [Next]_vars => [Delivery!Next]_(Delivery!vars)
  BY StepRefines
<1> QED
  BY <1>1, <1>2, TypeCorrect, PTL
  DEF Spec, Safety, DeliverySafety, Delivery!Safety
=============================================================================
