--------------------------- MODULE RollbackManager ---------------------------
(***************************************************************************)
(* src/src/observability/rollback.py: RollbackManager, versioned snapshots *)
(* of the configuration, with the endpoints of src/src/main.py.            *)
(*                                                                         *)
(* A configuration is a dict with lists in it (the tools' capabilities,    *)
(* which orchestrator.list_tools hands out uncopied), and its holders may  *)
(* go on changing both: dicts and the lists they refer to are objects      *)
(* here, and the manager's deep copies make new ones of both.              *)
(***************************************************************************)
EXTENDS Naturals, Sequences

CONSTANTS
    Configs,       \* what the fields of a dict, and a list, may contain
    MaxObjects,    \* bound: dicts made in a run
    MaxLog         \* bound: entries of the rollback log

ASSUME BoundAssumption == MaxObjects \in Nat /\ MaxLog \in Nat

VARIABLES
    live,       \* the fields of the configuration the system runs with
    dicts,      \* each dict: its fields, and the list it refers to
    lists,      \* the contents of each list; the first is the running tools'
    held,       \* the dicts callers have a reference to
    snapshots,  \* _snapshots, oldest first: the dict of each
    current,    \* position of _current_snapshot, 0 for None
    log         \* _rollback_log

rollbackVars == <<live, dicts, lists, held, snapshots, current, log>>

Actions == {"rollback", "rollforward"}

RollbackInit ==
    /\ live \in Configs
    /\ dicts = <<>>
    /\ \E c \in Configs : lists = <<c>>
    /\ held = {}
    /\ snapshots = <<>>
    /\ current = 0
    /\ log = <<>>
-----------------------------------------------------------------------------
\* What a dict holds, its list included.
Contents(d) == <<dicts[d].fields, lists[dicts[d].list]>>

\* faulty: copy.copy, a new dict that refers to the same list
DeepCopy_Shallow(d) == [dict |-> d, lists |-> lists]

\* copy.deepcopy of d: a dict with a list of its own, and all lists with it.
DeepCopy(d) == [dict |-> [d EXCEPT !.list = Len(lists) + 1],
                lists |-> Append(lists, lists[d.list])]

\* snapshot: the caller collects the live configuration in a dict of its own,
\* as lifespan and take_snapshot do, and passes it.
Snapshot ==
    /\ Len(dicts) + 2 <= MaxObjects
    /\ LET config == [fields |-> live, list |-> 1]
           copy == DeepCopy(config)
       IN  /\ dicts' = dicts \o <<config, copy.dict>>
           /\ lists' = copy.lists
    /\ held' = held \cup {Len(dicts) + 1}
    /\ snapshots' = Append(snapshots, Len(dicts) + 2)
    /\ current' = Len(snapshots')
    /\ UNCHANGED <<live, log>>

\* faulty: the second of the two switches is not logged
WithEntry_Rollback(action, i) ==
    IF action = "rollback" THEN Append(log, [action |-> action, id |-> i])
                           ELSE log

WithEntry(action, i) == Append(log, [action |-> action, id |-> i])

\* What rollback_to and rollforward share; an id that is not found (uuids are
\* unique: at most one is) changes nothing.
Restore(i, action) ==
    /\ i \in DOMAIN snapshots
    /\ Len(dicts) < MaxObjects /\ Len(log) < MaxLog
    /\ current' = i
    /\ log' = WithEntry(action, i)
    /\ LET copy == DeepCopy(dicts[snapshots[i]])
       IN  /\ dicts' = Append(dicts, copy.dict)
           /\ lists' = copy.lists
    /\ held' = held \cup {Len(dicts) + 1}
    /\ UNCHANGED <<live, snapshots>>

RollbackTo(i) == Restore(i, "rollback")
Rollforward(i) == Restore(i, "rollforward")

\* A holder changes a field of a dict it passed in or was given, or the list
\* the dict refers to.
HolderChanges(d, c) ==
    /\ d \in held
    /\ \/ dicts' = [dicts EXCEPT ![d].fields = c] /\ UNCHANGED lists
       \/ lists' = [lists EXCEPT ![dicts[d].list] = c] /\ UNCHANGED dicts
    /\ UNCHANGED <<live, held, snapshots, current, log>>

\* A tool is registered, the budget changes, ...
LiveChanges(c) ==
    /\ live' = c
    /\ UNCHANGED <<dicts, lists, held, snapshots, current, log>>

RollbackNext ==
    \/ Snapshot
    \/ \E i \in DOMAIN snapshots : RollbackTo(i) \/ Rollforward(i)
    \/ \E d \in held, c \in Configs : HolderChanges(d, c)
    \/ \E c \in Configs : LiveChanges(c)

RollbackSpec == RollbackInit /\ [][RollbackNext]_rollbackVars
-----------------------------------------------------------------------------
(* Properties *)

RollbackTypeOK ==
    /\ live \in Configs
    /\ lists \in Seq(Configs) /\ lists # <<>>
    /\ dicts \in Seq([fields : Configs, list : DOMAIN lists])
    /\ held \subseteq DOMAIN dicts
    /\ snapshots \in Seq(DOMAIN dicts)
    /\ current \in 0..Len(snapshots)
    /\ log \in Seq([action : Actions, id : DOMAIN snapshots])

\* A snapshot, once taken, keeps its contents, the nested list's too, whatever
\* the holders of the dicts that went in and came out do with them.
SnapshotsFrozen ==
    [][\A i \in DOMAIN snapshots :
          Contents(snapshots[i])' = Contents(snapshots[i])]_rollbackVars

\* The audit log accounts for the current snapshot: it is the newest one, or
\* the one the last entry of the log switched to.
LogExplainsCurrent ==
    current # Len(snapshots) =>
        log # <<>> /\ log[Len(log)].id = current
=============================================================================
