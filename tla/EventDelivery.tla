--------------------------- MODULE EventDelivery ---------------------------
(***************************************************************************)
(* What the event agent promises to whoever delivers events to it, without *)
(* its retries, its timers or its bookkeeping on the Event objects.  Every *)
(* delivery is answered once: it committed its id, it was recognised as a  *)
(* duplicate of a committed id on arrival, it was put on the dead-letter   *)
(* queue, or its caller cancelled it.  A delivery that passed the check on *)
(* arrival (it is "working") is no longer looked at: it may commit an id   *)
(* that has been committed meanwhile.                                      *)
(***************************************************************************)
EXTENDS Naturals, Sequences

CONSTANTS
    Calls,      \* deliveries: one per call of process_event
    Objects,    \* Event objects
    IdOf,       \* IdOf[o]: the id field of Event object o
    None

VARIABLES
    phase,        \* phase[c]: how far delivery c is, or how it was answered
    event,        \* event[c]: the Event object delivered by c
    committed,    \* ids whose work has been recorded as done
    deadLetters   \* the dead-letter queue, oldest first

vars == <<phase, event, committed, deadLetters>>

Answers == {"success", "duplicate", "dead", "cancelled"}

Id(c) == IdOf[event[c]]

Init ==
    /\ phase = [c \in Calls |-> "idle"]
    /\ event = [c \in Calls |-> None]
    /\ committed = {}
    /\ deadLetters = <<>>

\* The deliveries of C arrive together, c delivering the object f[c].
Arrive(C, f) ==
    /\ \A c \in C : phase[c] = "idle"
    /\ phase' = [c \in Calls |-> IF c \in C THEN "waiting" ELSE phase[c]]
    /\ event' = [c \in Calls |-> IF c \in C THEN f[c] ELSE event[c]]
    /\ UNCHANGED <<committed, deadLetters>>

\* Passed the check on arrival: the id was not committed when c was started.
Admitted(c) ==
    \/ phase[c] = "working"
    \/ phase[c] = "waiting" /\ Id(c) \notin committed

Begin(c) ==
    /\ phase[c] = "waiting"
    /\ Id(c) \notin committed
    /\ phase' = [phase EXCEPT ![c] = "working"]
    /\ UNCHANGED <<event, committed, deadLetters>>

Commit(c) ==
    /\ Admitted(c)
    /\ phase' = [phase EXCEPT ![c] = "success"]
    /\ committed' = committed \cup {Id(c)}
    /\ UNCHANGED <<event, deadLetters>>

Duplicate(c) ==
    /\ phase[c] = "waiting"
    /\ Id(c) \in committed
    /\ phase' = [phase EXCEPT ![c] = "duplicate"]
    /\ UNCHANGED <<event, committed, deadLetters>>

DeadLetter(c) ==
    /\ Admitted(c)
    /\ phase' = [phase EXCEPT ![c] = "dead"]
    /\ deadLetters' = Append(deadLetters, event[c])
    /\ UNCHANGED <<event, committed>>

Cancel(c) ==
    /\ phase[c] \in {"waiting", "working"}
    /\ phase' = [phase EXCEPT ![c] = "cancelled"]
    /\ UNCHANGED <<event, committed, deadLetters>>

Answer(c) == Commit(c) \/ Duplicate(c) \/ DeadLetter(c)

Next ==
    \/ \E C \in SUBSET Calls \ {{}} : \E f \in [C -> Objects] : Arrive(C, f)
    \/ \E c \in Calls : Begin(c) \/ Answer(c) \/ Cancel(c)

Safety == Init /\ [][Next]_vars

\* An accepted delivery is not left unanswered for ever.
Spec == Safety /\ \A c \in Calls : WF_vars(Answer(c))
=============================================================================
