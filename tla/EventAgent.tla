----------------------------- MODULE EventAgent -----------------------------
(***************************************************************************)
(* src/src/agents/event_agent.py: EventAgent, the idempotent, retrying     *)
(* consumer of events.                                                     *)
(*                                                                         *)
(* process_event is a coroutine of a single-threaded event loop whose only *)
(* await is the sleep between two attempts, so one action here is a whole  *)
(* segment of it: from the start of the task, or the end of a sleep, to    *)
(* the next sleep or the return.  Between two segments of one call any     *)
(* segments of other calls may run.                                        *)
(***************************************************************************)
EXTENDS Naturals, Sequences, FiniteSets

CONSTANTS
    Calls,         \* the calls of process_event made during a run
    Objects,       \* Event objects
    Ids,           \* event ids
    IdOf,          \* IdOf[o]: o.id; two objects may carry the same id
    MaxRetriesOf,  \* MaxRetriesOf[o]: o.max_retries
    AsyncHandler,  \* the workflow handler is a coroutine function
    None

ASSUME IdOfAssumption == IdOf \in [Objects -> Ids]
ASSUME MaxRetriesAssumption == MaxRetriesOf \in [Objects -> Nat]
ASSUME HandlerAssumption == AsyncHandler \in BOOLEAN

VARIABLES
    status,     \* status[o]: o.status
    retries,    \* retries[o]: o.retries
    processed,  \* _processed_ids
    dlq,        \* _dead_letter_queue
    log,        \* log[i]: _event_log[i], None when there is no entry
    pc,         \* where each call is
    target,     \* the event argument of each call
    attempt,    \* the loop variable of each call
    timer,      \* seconds left of each call's sleep
    result,     \* the EventResult of each call that returned
    ran,        \* history: how often the work of each id was really done
    overlapped  \* history: ids of which two deliveries were open together

agentVars == <<processed, dlq, log>>
eventVars == <<status, retries>>
historyVars == <<ran, overlapped>>
vars == <<status, retries, processed, dlq, log, pc, target, attempt, timer,
          result, ran, overlapped>>

Status == {"pending", "processing", "completed", "dead_letter"}
Results == {"success", "duplicate", "dead", "cancelled"}

ASSUME NoneAssumption == None \notin Objects \cup Results

Id(c) == IdOf[target[c]]
Open(c) == pc[c] \in {"ready", "sleeping"}

\* min(2 ** k, 60): 1s, 2s, 4s, ... and 60s from the seventh delay on.
BackoffDelay(k) == IF k < 6 THEN <<1, 2, 4, 8, 16, 32>>[k + 1] ELSE 60

\* How the fields of one call hang together.
CallOK(c) ==
    /\ pc[c] = "idle" => attempt[c] = 0
    /\ pc[c] # "idle" => target[c] \in Objects
    /\ Open(c) => attempt[c] <= MaxRetriesOf[target[c]]
    /\ pc[c] = "done" <=> result[c] # None

TypeOK ==
    /\ status \in [Objects -> Status]
    /\ retries \in [Objects -> Nat]
    /\ processed \subseteq Ids
    /\ dlq \in Seq(Objects)
    /\ log \in [Ids -> Objects \cup {None}]
    /\ pc \in [Calls -> {"idle", "ready", "sleeping", "done"}]
    /\ target \in [Calls -> Objects \cup {None}]
    /\ attempt \in [Calls -> Nat]
    /\ timer \in [Calls -> 0..60]
    /\ result \in [Calls -> Results \cup {None}]
    /\ ran \in [Ids -> Nat]
    /\ overlapped \subseteq Ids
    /\ \A c \in Calls : CallOK(c)

Init ==
    /\ status = [o \in Objects |-> "pending"]
    /\ retries = [o \in Objects |-> 0]
    /\ processed = {}
    /\ dlq = <<>>
    /\ log = [i \in Ids |-> None]
    /\ pc = [c \in Calls |-> "idle"]
    /\ target = [c \in Calls |-> None]
    /\ attempt = [c \in Calls |-> 0]
    /\ timer = [c \in Calls |-> 0]
    /\ result = [c \in Calls |-> None]
    /\ ran = [i \in Ids |-> 0]
    /\ overlapped = {}
-----------------------------------------------------------------------------
(* The caller. *)

\* The ids of the new deliveries that are in the hands of another call too.
Overlaps(C, f) ==
    {i \in Ids : \E c \in C : /\ IdOf[f[c]] = i
                             /\ \/ \E d \in Calls : Open(d) /\ Id(d) = i
                                \/ \E d \in C \ {c} : IdOf[f[d]] = i}

\* process_events gathers one task per event of its argument; a singleton C is
\* a caller awaiting process_event itself.  The tasks start later.
Submit(C, f) ==
    /\ \A c \in C : pc[c] = "idle"
    /\ pc' = [c \in Calls |-> IF c \in C THEN "ready" ELSE pc[c]]
    /\ target' = [c \in Calls |-> IF c \in C THEN f[c] ELSE target[c]]
    /\ overlapped' = overlapped \cup Overlaps(C, f)
    /\ UNCHANGED <<attempt, timer, result, eventVars, agentVars, ran>>

\* The task is cancelled (a timeout of its caller, the server shutting down).
\* CancelledError is no Exception: the handler of the loop does not see it and
\* the event keeps the status it had.
Cancel(c) ==
    /\ Open(c)
    /\ pc' = [pc EXCEPT ![c] = "done"]
    /\ timer' = [timer EXCEPT ![c] = 0]
    /\ result' = [result EXCEPT ![c] = "cancelled"]
    /\ UNCHANGED <<target, attempt, eventVars, agentVars, historyVars>>
-----------------------------------------------------------------------------
(* process_event *)

\* faulty: the check is repeated after each sleep
IsDuplicate_Late(c) == Open(c) /\ timer[c] = 0 /\ Id(c) \in processed

\* The idempotency check: it is made once, when the task starts.
IsDuplicate(c) == pc[c] = "ready" /\ Id(c) \in processed

SkipDuplicate(c) ==
    /\ IsDuplicate(c)
    /\ pc' = [pc EXCEPT ![c] = "done"]
    /\ result' = [result EXCEPT ![c] = "duplicate"]
    /\ UNCHANGED <<target, attempt, timer, eventVars, agentVars, historyVars>>

\* faulty: no idempotency check
MayAttempt_Unchecked(c) == Open(c) /\ timer[c] = 0

\* c is about to call the handler: for the first time, or after a sleep.
MayAttempt(c) ==
    \/ pc[c] = "ready" /\ Id(c) \notin processed
    \/ pc[c] = "sleeping" /\ timer[c] = 0

NextAttempt_Same(c) == attempt[c]                           \* faulty: no count
Record_Lost(c) == processed                                 \* faulty: no add
Enqueue_Once(c) ==                          \* faulty: an object is queued once
    IF \E k \in DOMAIN dlq : dlq[k] = target[c] THEN dlq
    ELSE Append(dlq, target[c])

NextAttempt(c) == attempt[c] + 1
MayRetry(c) == attempt[c] < MaxRetriesOf[target[c]]
Record(c) == processed \cup {Id(c)}
Enqueue(c) == Append(dlq, target[c])

\* The handler returns.  A coroutine function returns at once, with a coroutine
\* object nobody awaits: no work is done.
AttemptSucceeds(c) ==
    /\ MayAttempt(c)
    /\ status' = [status EXCEPT ![target[c]] = "completed"]
    /\ processed' = Record(c)
    /\ log' = [log EXCEPT ![Id(c)] = target[c]]
    /\ ran' = IF AsyncHandler THEN ran ELSE [ran EXCEPT ![Id(c)] = @ + 1]
    /\ pc' = [pc EXCEPT ![c] = "done"]
    /\ result' = [result EXCEPT ![c] = "success"]
    /\ UNCHANGED <<retries, dlq, target, attempt, timer, overlapped>>

\* The handler raises and there are attempts left: back off.
AttemptFails(c) ==
    /\ ~AsyncHandler
    /\ MayAttempt(c)
    /\ MayRetry(c)
    /\ status' = [status EXCEPT ![target[c]] = "processing"]
    /\ retries' = [retries EXCEPT ![target[c]] = NextAttempt(c)]
    /\ timer' = [timer EXCEPT ![c] = BackoffDelay(attempt[c])]
    /\ attempt' = [attempt EXCEPT ![c] = NextAttempt(c)]
    /\ pc' = [pc EXCEPT ![c] = "sleeping"]
    /\ UNCHANGED <<target, result, agentVars, historyVars>>

\* The handler raises on the last attempt: the event becomes a dead letter.
LastAttemptFails(c) ==
    /\ ~AsyncHandler
    /\ MayAttempt(c)
    /\ attempt[c] = MaxRetriesOf[target[c]]
    /\ status' = [status EXCEPT ![target[c]] = "dead_letter"]
    /\ retries' = [retries EXCEPT ![target[c]] = NextAttempt(c)]
    /\ dlq' = Enqueue(c)
    /\ log' = [log EXCEPT ![Id(c)] = target[c]]
    /\ pc' = [pc EXCEPT ![c] = "done"]
    /\ result' = [result EXCEPT ![c] = "dead"]
    /\ UNCHANGED <<processed, target, attempt, timer, historyVars>>

\* A second passes for every sleeping call.
Tick ==
    /\ \E c \in Calls : pc[c] = "sleeping" /\ timer[c] > 0
    /\ timer' = [c \in Calls |-> IF pc[c] = "sleeping" /\ timer[c] > 0
                                 THEN timer[c] - 1 ELSE timer[c]]
    /\ UNCHANGED <<pc, target, attempt, result, eventVars, agentVars,
                   historyVars>>

Step(c) ==
    \/ SkipDuplicate(c)
    \/ AttemptSucceeds(c)
    \/ AttemptFails(c)
    \/ LastAttemptFails(c)

Next ==
    \/ \E C \in SUBSET Calls \ {{}} : \E f \in [C -> Objects] : Submit(C, f)
    \/ \E c \in Calls : Step(c) \/ Cancel(c)
    \/ Tick

Safety == Init /\ [][Next]_vars

\* The event loop runs every task that can run, and time passes.
Fairness ==
    /\ \A c \in Calls : WF_vars(Step(c))
    /\ WF_vars(Tick)

Spec == Safety /\ Fairness
-----------------------------------------------------------------------------
(* Properties *)

\* An id is recorded as processed exactly when its work was really done: a
\* failed, abandoned or dead-lettered attempt leaves no record and a done one
\* always does, in whatever order overlapping calls finish.
DedupRecordExact == \A i \in Ids : i \in processed <=> ran[i] > 0

\* A COMPLETED event is one whose work was done (handler documented as async).
CompletedMeansDone ==
    \A o \in Objects : status[o] = "completed" => ran[IdOf[o]] > 0

\* An event shown as a dead letter has had all its attempts, also when two
\* calls handle the same object.
DeadLetterSpent ==
    \A o \in Objects :
        status[o] = "dead_letter" => retries[o] = MaxRetriesOf[o] + 1

\* An event is left in PROCESSING only by a call that is still backing off or
\* by a call that was cancelled: no path of the code itself abandons it.
StuckOnlyByCancel ==
    \A o \in Objects :
        status[o] = "processing" =>
            \E c \in Calls : /\ target[c] = o
                             /\ pc[c] = "sleeping" \/ result[c] = "cancelled"

\* Once an id is processed, its work is repeated at most by the calls that were
\* already backing off then: the runs done plus the calls still backing off
\* never grow again, however often the id is delivered.
LateWorkBounded ==
    [][\A i \in processed :
          LET load(p, r) == r[i] + Cardinality({c \in Calls :
                                     p[c] = "sleeping" /\ Id(c) = i})
          IN  load(pc', ran') <= load(pc, ran)]_vars

\* The work of an event id is done at most once (idempotent execution).
ExecutedAtMostOnce == \A i \in Ids : ran[i] <= 1

\* It is, for an id whose deliveries never overlapped, however often it is
\* delivered, fails, is cancelled or dead-lettered.
SerialOnce == \A i \in Ids \ overlapped : ran[i] <= 1

\* Why: at most one call of such an id is open, and the call that is backing
\* off would not have been let in had the id been processed since.
OneOpenCall ==
    \A c, d \in Calls :
        Open(c) /\ Open(d) /\ Id(c) = Id(d) /\ Id(c) \notin overlapped => c = d
SleeperUnprocessed ==
    \A c \in Calls :
        pc[c] = "sleeping" /\ Id(c) \notin overlapped => Id(c) \notin processed
RanRecorded == \A i \in Ids : ran[i] > 0 => i \in processed
OnceInv ==
    /\ TypeOK
    /\ OneOpenCall
    /\ SleeperUnprocessed
    /\ RanRecorded
    /\ SerialOnce

\* A completed event is final: no later delivery of its id puts the object
\* back to work or replaces the logged object, unless deliveries overlapped.
CompletedIsFinal ==
    [][\A i \in processed \ overlapped' :
          log'[i] = log[i] /\ status'[log[i]] = "completed"]_vars

\* Every accepted call returns or is cancelled; no call backs off for ever.
EveryCallSettles == \A c \in Calls : pc[c] = "ready" ~> pc[c] = "done"

\* The agent implements its promise.
Phase == [c \in Calls |-> IF pc[c] = "idle" THEN "idle"
                          ELSE IF pc[c] = "ready" THEN "waiting"
                          ELSE IF pc[c] = "sleeping" THEN "working"
                          ELSE result[c]]

Delivery == INSTANCE EventDelivery
                WITH phase <- Phase, event <- target,
                     committed <- processed, deadLetters <- dlq

DeliverySafety == Delivery!Safety
DeliverySpec == Delivery!Spec
=============================================================================
