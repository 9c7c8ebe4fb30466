----------------------------- MODULE ToolAccess -----------------------------
(***************************************************************************)
(* The tools: src/src/tools/orchestrator.py (ToolOrchestrator), the role   *)
(* check of src/src/security/auth.py and the endpoint of src/src/main.py   *)
(* that runs a tool for a client.                                          *)
(*                                                                         *)
(* The endpoint awaits the request's body, then looks the tool up, checks  *)
(* the role and starts the tool without another await; an async tool is    *)
(* awaited.  Tools may be registered and unregistered in between.          *)
(* route_task, which only sorts the tools of a capability, is left out.    *)
(***************************************************************************)
EXTENDS Integers, FiniteSets

CONSTANTS
    Tools,   \* Tool objects: [name, level, kind]
    Calls,   \* requests of the endpoint and calls of execute_tool
    Roles,   \* roles an API key may have
    None

Levels == {"user", "admin", "system"}
Kinds == {"sync", "async", "missing"}   \* missing: fn is None
ToolNames == {t.name : t \in Tools}

ASSUME ToolsAssumption ==
    \A t \in Tools : /\ t.level \in Levels \cup Roles
                     /\ t.kind \in Kinds
ASSUME NoneAssumption ==
    None \notin ToolNames /\ None \notin Roles /\ None \notin Tools

VARIABLES
    tools,   \* _tools: the registered Tool objects, by name
    pc,      \* where each call is
    role,    \* the role of an endpoint call, None for a direct one
    target,  \* the name each call asks for
    started, \* history: the Tool object whose function each call started
    result   \* what each call answered

toolVars == <<tools, pc, role, target, started, result>>

Results == {"refused", "not found", "no callable", "success", "failure",
            "error"}   \* an exception: response 500

ToolInit ==
    /\ tools = {}
    /\ pc = [c \in Calls |-> "idle"]
    /\ role = [c \in Calls |-> None]
    /\ target = [c \in Calls |-> None]
    /\ started = [c \in Calls |-> None]
    /\ result = [c \in Calls |-> None]
-----------------------------------------------------------------------------
(* SecurityManager.is_authorized *)

Rank(r) == IF r = "viewer" THEN 0 ELSE IF r = "operator" THEN 1
           ELSE IF r = "admin" THEN 2 ELSE -1
Needed(r) == IF Rank(r) >= 0 THEN Rank(r) ELSE 99

IsAuthorized(r, required) == Rank(r) >= Needed(required)
-----------------------------------------------------------------------------
(* ToolOrchestrator *)

Taken(t) == \E u \in tools : u.name = t.name

\* register_tool raises ValueError when the name is taken.
RegisterTool(t) ==
    /\ ~Taken(t)
    /\ tools' = tools \cup {t}
    /\ UNCHANGED <<pc, role, target, started, result>>

UnregisterTool(n) ==
    /\ \E t \in tools : t.name = n
    /\ tools' = {t \in tools : t.name # n}
    /\ UNCHANGED <<pc, role, target, started, result>>

\* execute_tool, up to the await of an async tool: a call that finds no tool
\* or no function answers at once, a plain function returns or raises.  So does
\* the call of any function whose parameters the arguments do not fit: it is
\* answered as a failure, and the function's body does not run.
Found(c) == {t \in tools : t.name = target[c]}

Answer(c, res) ==
    /\ pc' = [pc EXCEPT ![c] = "done"]
    /\ result' = [result EXCEPT ![c] = res]

StartTool(c) ==
    /\ \/ Found(c) = {} /\ Answer(c, "not found") /\ UNCHANGED started
       \/ \E t \in Found(c) :
             \/ /\ t.kind = "missing"
                /\ Answer(c, "no callable")
                /\ UNCHANGED started
             \/ /\ t.kind # "missing"
                /\ Answer(c, "failure")
                /\ UNCHANGED started
             \/ /\ t.kind = "sync"
                /\ started' = [started EXCEPT ![c] = t]
                /\ \E res \in {"success", "failure"} : Answer(c, res)
             \/ /\ t.kind = "async"
                /\ started' = [started EXCEPT ![c] = t]
                /\ pc' = [pc EXCEPT ![c] = "running"]
                /\ UNCHANGED result
    /\ UNCHANGED <<tools, role, target>>

\* faulty: the registry is asked again when the tool returns
Outcome_Lookup(c, res) == IF Found(c) = {} THEN "not found" ELSE res

Outcome(c, res) == res

\* The awaited tool returns or raises.
ToolReturns(c, res) ==
    /\ pc[c] = "running"
    /\ Answer(c, Outcome(c, res))
    /\ UNCHANGED <<tools, role, target, started>>

\* execute_parallel, by code that uses the class: gather makes one task per
\* entry of the list, and the tasks start later, in any order.
ExecuteParallel(C, f) ==
    /\ \A c \in C : pc[c] = "idle"
    /\ pc' = [c \in Calls |-> IF c \in C THEN "queued" ELSE pc[c]]
    /\ target' = [c \in Calls |-> IF c \in C THEN f[c] ELSE target[c]]
    /\ UNCHANGED <<tools, role, started, result>>

StartQueued(c) == pc[c] = "queued" /\ StartTool(c)
-----------------------------------------------------------------------------
(* POST /api/tools/execute *)

\* require_role("operator"), then the await of the body.
Request(c, r, n) ==
    /\ pc[c] = "idle"
    /\ role' = [role EXCEPT ![c] = r]
    /\ target' = [target EXCEPT ![c] = n]
    /\ IF IsAuthorized(r, "operator")
       THEN pc' = [pc EXCEPT ![c] = "reading"] /\ UNCHANGED result
       ELSE Answer(c, "refused")
    /\ UNCHANGED <<tools, started>>

MayRun_Unchecked(c) == TRUE   \* faulty: no check once the body is read

\* The check of the tool's own level: a name without a tool passes it.
MayRun(c) == \A t \in Found(c) : IsAuthorized(role[c], t.level)

Refuse(c) ==
    /\ pc[c] = "reading"
    /\ ~MayRun(c)
    /\ Answer(c, "refused")
    /\ UNCHANGED <<tools, role, target, started>>

Execute(c) == pc[c] = "reading" /\ MayRun(c) /\ StartTool(c)

\* A key "tool_name" of the body or the query becomes a keyword argument that
\* meets execute_tool's own: the call raises before it looks at any tool.
ExecuteClashes(c) ==
    /\ pc[c] = "reading"
    /\ MayRun(c)
    /\ Answer(c, "error")
    /\ UNCHANGED <<tools, role, target, started>>

ToolNext ==
    \/ \E t \in Tools : RegisterTool(t)
    \/ \E n \in ToolNames : UnregisterTool(n)
    \/ \E c \in Calls : \E r \in Roles, n \in ToolNames : Request(c, r, n)
    \/ \E c \in Calls :
          Refuse(c) \/ Execute(c) \/ ExecuteClashes(c) \/ StartQueued(c)
    \/ \E c \in Calls, res \in {"success", "failure"} : ToolReturns(c, res)
    \/ \E C \in SUBSET Calls \ {{}} :
          \E f \in [C -> ToolNames] : ExecuteParallel(C, f)

ToolSpec == ToolInit /\ [][ToolNext]_toolVars
-----------------------------------------------------------------------------
(* Properties *)

ToolTypeOK ==
    /\ tools \subseteq Tools
    /\ \A t, u \in tools : t.name = u.name => t = u
    /\ pc \in [Calls -> {"idle", "reading", "queued", "running", "done"}]
    /\ role \in [Calls -> Roles \cup {None}]
    /\ target \in [Calls -> ToolNames \cup {None}]
    /\ started \in [Calls -> Tools \cup {None}]
    /\ result \in [Calls -> Results \cup {None}]

\* The tool a client's call really runs is one its role is enough for and the
\* one it asked for, whatever was unregistered and registered anew under that
\* name between the request and the run.
RunsWhatWasChecked ==
    \A c \in Calls :
        started[c] # None /\ role[c] # None =>
            /\ Rank(role[c]) >= 1
            /\ Rank(role[c]) >= Needed(started[c].level)
            /\ started[c].name = target[c]

\* A success is reported only for a tool that was run, and a tool that was run
\* is answered for: no call is reported as refused or not found after its tool
\* had its effects.
AnswerTellsEffects ==
    \A c \in Calls :
        pc[c] = "done" =>
            /\ result[c] = "success" => started[c] # None
            /\ started[c] # None => result[c] \in {"success", "failure"}

\* An operator can execute the registered tools of level "user".
UserToolsUsable ==
    \A c \in Calls :
        role[c] = "operator" /\ pc[c] = "reading" =>
            \A t \in Found(c) : t.level = "user" => MayRun(c)
=============================================================================
