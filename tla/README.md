# A verification development for NexusCore Enterprise (AgenticForge)

TLA+ models of the stateful parts of the repository, TLC configurations that
check them on small instances, and TLAPS proofs of the properties that matter
most.  Paths such as `src/src/main.py` are relative to the directory above
`src/`, the repository's root.  Every definition that models code has an entry
in `PROJECT.json` ("map") with the lines it stands for.

## 1. The system

NexusCore is one FastAPI process.  All of its state lives in Python objects
created when `src/src/main.py` is imported (lines 45-61); nothing is written to
disk, so a restart begins from nothing and there is no recovery to model.  All
coroutines run on one event loop: code between two awaits is atomic, and the
only interleavings are at awaits.  That fact decides the grain of every model
here: **an action is a stretch of code between two awaits.**

| Component | State | Operations | Interacts with |
|---|---|---|---|
| `EventAgent` (`agents/event_agent.py`) | `_processed_ids`, `_dead_letter_queue`, `_event_log`, fields of `Event` objects | `create_event`, `process_event` (awaits its backoff), `process_events` (gather) | the workflow handler; `POST /api/agents/events` |
| `HITLWorkflow` (`workflows/hitl_workflow.py`) | state, context, audit trail | `analyze`, `provide_human_input`, `get_paused_context`, `run` | registry `workflows` and two endpoints of `main.py`; reviewers |
| `HybridMemory` (`memory/memory_manager.py`) | window (bounded deque), long-term list | `add`, `recall_*`, `search`, `clear_session` | react and memory endpoints |
| `MetricsCollector` (`observability/metrics.py`) | six deques of points, deque of snapshots | `record_*`, getters that trim | react endpoint, middleware, dashboard |
| `AlertEngine` (`observability/alerting.py`) | rules, alerts, time each rule last fired | `register_rule`, `unregister_rule`, `evaluate`, `acknowledge` | middleware, alert endpoints |
| `ObservabilityMiddleware` (`observability/middleware.py`) | none of its own | `dispatch` (awaits the endpoint) | collector, engine, tracer |
| `ToolOrchestrator` (`tools/orchestrator.py`) | registry of tools | `register_tool`, `unregister_tool`, `execute_tool` (awaits async tools), `execute_parallel`, `route_task` | `POST /api/tools/execute` |
| RBAC (`security/auth.py`) | table of keys | `verify_api_key`, `require_role`, `is_authorized` | every endpoint |
| `RollbackManager` (`observability/rollback.py`) | snapshots, current one, log | `snapshot`, `rollback_to`, `rollforward` | lifespan, rollback endpoints |
| `CanaryTester` (`observability/canary.py`) | candidates and their results, baseline | `start_canary`, `execute`, `evaluate_and_maybe_promote`, `promote`, `rollback`, `update_baseline_metrics` | code that uses the class; an endpoint lists names |
| `ReActAgent`, `SelfReflectiveAgent`, `WorkflowAgent`, `CostAwareRouter` (`agents/`) | parameters only | `run`, `reflect`, `run`, `route`, each without an await | agent endpoints; the language model and tools |
| `DebateAgent` (`agents/debate_agent.py`) | the number of proposers, which each request sets | `debate` | debate endpoint |
| `CrewAgent` (`agents/crew_agent.py`) | members, which requests add and nobody removes | `add_member`, `remove_member`, `execute` | crew endpoint |
| `TracerManager` (`observability/tracer.py`) | provider | `trace` | middleware |
| dashboard helpers | none | formatting | metrics endpoint |
| `data_protection`, `safe_eval` | none | masking, encryption, arithmetic | endpoints |

What makes each of them correct, and where it is hard:

- **EventAgent**: an id's work is done once; a failing event gets exactly
  `max_retries + 1` attempts and then one dead letter; every accepted call is
  answered.  Hard: other deliveries run during a backoff sleep, on the same id
  or even on the same `Event` object, and a sleeping call may be cancelled.
- **HITL**: a workflow is completed only with confidence or approval (the state
  and `success`: the endpoint's answer carries the output of a paused run too,
  `hitl_workflow.py:206-212`); of several reviewers the first counts and decides
  on what the workflow still holds; the trail is complete and append-only.
  Hard: time passes between a reviewer's look and the decision; `analyze` has no
  guard.
- **HybridMemory**: the window stays the newest part of the store, and queries
  agree with what is stored.  Hard: two copies of every item, dropped and
  cleared separately; a query merges two sources.
- **MetricsCollector**: a reader of a buffer sees the last window, although
  trimming is lazy and the wall clock may be set back.  **AlertEngine**:
  cooldowns hold and indices stay valid whatever happens to rules and clock.
  **Middleware**: alerts are evaluated periodically and rest on the window.
  Hard: a count read after an await, a head of a buffer that is younger than
  what follows it.
- **Tools**: what runs is what the role was checked for.  Hard: tools are
  replaced between a request, its check, its start and its end.
- **Agents**: each call of one holds the event loop, so it must end whatever the
  model answers, and its result must mean what a client takes it for.  Hard:
  thresholds, a NaN that passes every clamp, outputs nobody judged, and the
  little state that one request leaves for the next.
- **CostAwareRouter**: an accepted decision can be paid.  Hard: one test looks
  at a price, the other at a cost.
- **RollbackManager**: snapshots share neither a dict nor a nested list with
  their callers and the running system.
- **CanaryTester**: candidates come and go without moving the tasks of others.

`PROJECT.json` ("hazards") lists each such hazard at its line with the
properties that cover it, and says why when none does.

## 2. Plan

The order is by what the system stands or falls with: first the two components
that promise something under interleaving (events, reviews), then shared data
(memory, metrics), then compositions, then the remaining classes.

1. `EventDelivery` (abstract) and `EventAgent`, with proofs - *done*
2. `HITLService`, with proofs - *done*
3. `HybridMemory`, with proofs - *done*
4. `MetricsCollector`, `AlertEngine`, with proofs, and `Observability`, which
   composes both with the tracer - *done*
5. `ToolAccess`, `RollbackManager` and `CanaryTester`, with proofs - *done*
6. `ReActAgent` and `SelfReflectiveAgent`: the two loops, with iteration
   limits, early exits and the confidence gate - *done*
7. `CrewAgent`, `WorkflowAgent`, `DebateAgent`, `CostAwareRouter` - *done*
8. `NexusService`, the agents behind one event loop with what one request
   leaves for the next, with proofs - *done*

Every invariant and every action property that a run checks is now a theorem
too.  What a continuation would add: an abstract specification of the review
workflow, as `EventDelivery` is one of the deliveries, and a bound on how many
executions overlapping requests of `Observability` can leave unevaluated, of
which `EvaluatedPeriodically` says nothing.  Liveness stays with TLC (section 6).

## 3. Modules, and how they correspond to the code

A module `X` models a component, `MCX` gives its constants small values,
`XProofs` holds its theorems; `StoreProofs` has those of `HybridMemory`,
`RollbackManager` and `CanaryTester`, and `AgentProofs` those of `NexusService`
and its agents.  Definitions whose comment starts with *faulty*
are variants of the definition that follows them, each with a bug the code
might plausibly have had; `PROJECT.json` ("mutants") names, for every property
of every passing run, a variant under which TLC finds the property violated.

- **`EventAgent`** - `Submit` is `process_events` (or one `process_event`):
  tasks are created and start later.  `SkipDuplicate`, `AttemptSucceeds`,
  `AttemptFails` and `LastAttemptFails` are the segments of `process_event`
  between two awaits: the check on arrival, or the end of a sleep, up to the
  next sleep or the return.  `Tick` lets a second pass for every sleeper,
  `Cancel` cancels a task.  Whether the handler returns or raises is
  nondeterministic.  `AsyncHandler` says that the handler is a coroutine
  function.  Two history variables: `ran` counts how often the work of an id
  was really done, and `overlapped` holds the ids two deliveries of which were
  in the hands of the agent together.  `process_event` promises less for those
  ids, so some properties are about the others only, in the same runs.
- **`EventDelivery`** - the promise without retries, timers and objects: a
  delivery commits its id, is a duplicate, is dead-lettered or is cancelled.
  `EventAgent!DeliverySpec` is its `Spec` under the refinement mapping
  `Phase`.
- **`HITLService`** - the methods of `HITLWorkflow` are operators from a
  workflow to a workflow; `HitlAnalyze` and `HitlInput` are the two endpoints
  (no await, hence one action each), `Look` is a reviewer reading a paused
  output, `Rerun` a user of the class calling `run` on an old object; the
  history variable `rerun` remembers which.
- **`HybridMemory`** - `Add` and `ClearSession`; the queries are operators
  checked in every state, with an arbitrary score per item for similarity.  The
  endpoint passes any limit: `Upto` is what Python's slice makes of it, counting
  a negative one from the end.  `SearchIsRecall` is claimed of limits that are
  not negative, `NoGhosts` of all.
- **`MetricsCollector`** - the methods are operators on the buffers, shared with
  `Observability`; `Read` is the trim of any getter.  `ClockMoves` sets the wall
  clock to any second, also back.  Two history variables: `recorded` has every
  point without any trimming, `latest` the latest time the clock has shown.
- **`AlertEngine`** - `Evaluate(holds)` is one evaluation in which the checks
  named by `holds` return true; it visits the rules in order, skips those in
  cooldown and stops at a message that cannot be formatted.  `ClockMoves` sets
  the wall clock to any value, also back.
- **`Observability`** - `dispatch` around its await: `Dispatch`, then the
  endpoint (`RunReact`, `RunOther`, `EndpointRaises`), then `Finish` or
  `FinishRaised`.  `Holds` evaluates the default rules, and one a user added, on
  the trimmed buffers.  A rule whose message cannot be formatted makes the
  evaluation raise; dispatch catches that with what the endpoint raises, counts
  a second outcome and loses the answer (`pc` is then "spoiled").  It
  instantiates `MetricsCollector` and `AlertEngine`; acknowledging an alert and
  changing rules stay with `AlertEngine`.  The clock is the collector's, which
  may be set back.  A client that goes away in the middle of a request is not
  modelled.  `Provider` is what
  `TracerManager.__init__` chooses, `SpanEntered` whether `trace` can be entered
  with it, and `DispatchRaises` a request that fails there.  The history
  variable `disturbed` remembers that requests were in flight together
  ("overlap") or that an execution was recorded whose answer was lost ("lost").
  `EvaluatedPeriodically` is about the time before both, and takes an evaluation
  that raised for one.
- **`ToolAccess`** - `Request` is the endpoint up to the await of the body,
  `Refuse`/`Execute` what follows, `ExecuteClashes` a body with a key
  `tool_name`, on which the call of `execute_tool` itself raises.  `StartTool` is
  `execute_tool` up to an async tool's await, `ToolReturns` the rest; arguments
  that do not fit the tool's parameters are a failure whose body never ran.
  `ExecuteParallel` queues calls that `StartQueued` starts.  A tool is a record,
  so two tools of one name differ.  `route_task`, which sorts and
  changes nothing, is left out.
- **`RollbackManager`** - dicts are objects, each with fields and a reference to
  one of `lists`, as the tools' capabilities are lists inside the configuration.
  `DeepCopy` makes a new dict with a new list; `HolderChanges` lets any outside
  holder change the dicts it has and the lists they refer to.  With a shallow
  copy the snapshot would share the list, which is this model's mutant.
- **`CanaryTester`** - candidates in insertion order; `RouteToCanary` is the
  loop of `execute`, including that only the first candidate sees the caller's
  percentage.  `start_canary` does not keep the candidate's function, so
  `execute` books a success and runs nothing; `verdict` is `passed` together
  with `reason`.
- **`AgentCall`** - what the agents share.  As they run without an await, at
  most one call of any agent is under way: it is the variable `call`, a record
  with the agent's local variables, and `at` says before which call of the model
  or of a tool it is.  Each such call is a step, in which anything may be
  answered or an exception end the run (`Raises`, then a response 500).  Between
  two of them everything is deterministic and part of the same action.  `Parse`
  is `float()`, the default and the clamp; numbers are integers in finer units
  (a confidence in percent, a score in tenths, money in billionths of a dollar),
  and two integers outside the scales stand for NaN and for text that is no
  number.
- **`ReActAgent`** - `ThinkEnds`/`ThinkGoesOn` (two answers: plan and
  confidence), `ActByTool`/`ActByLlm`, `ReflectOn`; `ReActIterate` is the head of
  the loop and what follows it.
- **`SelfReflectiveAgent`** - `Execute`, `Evaluate`, `Regenerate`; outputs are
  numbered, so that "the best output" is the number of the evaluation that kept
  it.  The field `improvement` is left out: it is the difference of two scores of
  the result, rounded to two digits.
- **`DebateAgent`** - `Debate(n)` also sets `num_proposers` of the one agent, as
  the endpoint does; `Propose`, `Critique`, `Aggregate`.  `Votes` are the shares
  cut off to whole numbers; the code computes them on floats, which may fall
  just short of a whole share (2.9 of 10.0 gives 28), so `short` chooses the
  whole shares that come out one less.  `Before` is the order in which Python's
  stable `sorted` puts the proposals, and `Top` the first two of it.
- **`CrewAgent`** - `members` in the order of the dict, which all requests
  share; `EnlistAll` adds the names of one request, one after the other, and a
  known name keeps its place.  `Decompose` takes an answer as lines with the
  words of experts in them, of which `Subtasks` keeps the first four that are
  numbered;
  `Assign` chooses and asks one member.  `AddMember` and `RemoveMember` are for
  users of the class; the endpoint only adds.
- **`WorkflowAgent`** - texts are known by the call of the model that answered
  them (0 is the task); a step records which texts its agent was given.  The
  count of tokens, a display, is left out.
- **`CostAwareRouter`** - `Route` is one atomic decision over a task's features
  (words, technical keyword, steps), with the validation that turns a decision
  into an exception.
- **`NexusService`** - the six agents over one event loop.  What a call leaves
  for the next is `proposers` and `members`.
- **`MCNexusService`** - its instance, together with `HybridMemory`,
  `RollbackManager` and `CanaryTester`.  None of these reads a variable of
  another or of the agents, and only the crew reads its members, so each
  behaviour runs one `part` (the agents over an empty crew, the crew, or one of
  the three), chosen at the start: in an interleaving of the parts, each part's own steps are one of
  these behaviours, and a property of one part's variables holds in the
  interleaving when it holds here.  (A react request adds an item to the memory;
  `Add` may happen at any time.)
- **`MCPlatform`** - the instances of `MetricsCollector`, `AlertEngine` and
  `ToolAccess` in one run, which share no variable either.

## 4. Runs

| Run | Asks | Answer |
|---|---|---|
| `event_deliveries` | deliveries one after the other and overlapping, also on one object; failures, retries, cancellations | record exact, dead letters have had all attempts, late work bounded; without overlap work at most once, completion final; every call settles, refines `EventDelivery` |
| `event_overlap_twice`, `event_async_handler` | what the docs promise | **violated**, see section 7 |
| `hitl_review` | analyses and decisions of two reviewers through the endpoints, and objects that are run again in any state | no bypass, trails complete and append-only; run once: first decision counts, desks current |
| `platform_calls` | recordings, reads, a clock set to any second; evaluations, changed rules, a clock set back; tools replaced under calls | a read of a buffer shows the end of what was recorded, loses no point that did not fall out of the window, and is exactly the window where the clock was not set back; cooldowns and indices hold; runs what was checked, answers tell effects |
| `obs_overlap` | requests one after the other and overlapping, endpoints that raise before and after they record, a rule that breaks the evaluation, a clock set back | every request counted, alerts justified by their window; undisturbed, alerts evaluated in every `EvalEvery` executions |
| `obs_traced` | LangSmith configured and installed | **violated**: no observed request reaches its endpoint |
| `tool_user` | operators use tools of level "user" | **violated** |
| `service_calls` | the synchronous endpoints: agents with every answer of the model, and the stores behind them (adds and clears of a small window; holders who change their dicts between snapshots and restores; candidates that come, run, are judged and go) | results of agents mean what they say, calls are bounded, decisions can be paid; window is the newest part of the store, what a search returns of the session is the recall, no ghosts; snapshots frozen, log explains current; ranks and routes stable |
| `memory_session_filter` | a search for a session returns its items | **violated** |
| `react_doubtful` | low confidence pauses the agent | **violated** |
| `router_refuses` | the documented degradation to a cheaper model | **violated** |

**Bounds.**  Every bound is a named constant or the size of a constant set.

- Events: three calls, two ids, three objects, two of which share an id.  Three
  calls are enough for one to sleep, one to complete and one to arrive; budgets
  0, 1 and 2 meet every stage of one another.  No budget reaches the cap of 60
  seconds: that the delay never exceeds it is the lemma `BackoffBounded`.
- HITL: two workflows, two tasks, two reviewers, a score below and one at the
  threshold; `MaxTrail` lets a workflow be run again when it waits, when it was
  rejected, and after a first rerun.
- Memory: five adds over a window of two, three sessions: the window is full,
  drops, is cleared in its middle and refills.  Limits from -1 to one more than
  the window.
- Metrics: a window of one second and three clock values (0 to 2), so points are
  young, at the edge and too old; one snapshot slot, so the deque overflows.
- Alerts: two names, each with two rules that replace one another, clock values
  3 to 7.  `MaxAlerts` stops evaluations.
- Observability: alerts are evaluated at every second execution and not every
  tenth, and the deque of snapshots holds 2 entries and not 1000; what matters
  is that the capacity is a multiple of the period, and that runs go past both.
  Two clock values and a window of 0 seconds: points are young or too old;
  cooldowns of 1 and 2 seconds.  Requests are interchangeable, hence the
  symmetry sets.
- Tools: three names, two objects for each of the first two, two calls, all
  three roles.
- Rollback: six dicts and two log entries, enough for two snapshots, two
  restores and changes of each dict and list.
- Canary: two candidates, tasks on both sides of a share of 5 and of the default
  share of 10, shares of 5, 10 and 50, elapsed times with and without a
  regression.
- Agents: confidences, scores and critiques on both sides of every threshold,
  beyond both ends of the scale, NaN and no number.  Two iterations of
  `ReActAgent` and three reflections, so that a loop is left at its first, in its
  middle and at its last round (the code's defaults are 15 and 3, and the bodies
  do not look at the number of the round); at most three proposers, the default,
  and also none and a negative number; two names in the crew, one of them added
  again, and answers with no, two and five numbered lines (at most four are
  kept).  `WorkflowAgent` has the code's own sizes.
- Router: tasks at the borders of the tiers (19, 20, 59, 60, 149, 150 words) and
  of the agreement of its two tests (181, 182, 2000), with each combination of
  features; budgets at the borders of the models' prices, none, and a negative
  one.

Symmetry (of tasks, reviewers, requests) is used only in runs without liveness
properties, whose definitions treat the permuted values alike.  `CHECK_DEADLOCK
FALSE` is set only where a run is made of finitely many calls or workflows and
really ends when they are used up (events, HITL).  The other models
never stop.

**Fairness.**  Only `EventAgent` states fairness: weak fairness of each call's
`Step`, because the event loop runs every task that is ready, and of `Tick`,
because `asyncio.sleep` is served by a clock that advances.  Nothing is assumed
of callers (`Submit`, `Cancel`) or of the handler's outcome: a handler may fail
for ever, which ends in a dead letter.  There is no fairness for reviewers,
since no code makes one answer; so nothing is claimed about paused workflows
being decided.

## 5. Proofs

All proofs hold for every value of the constants that satisfies the named
assumptions of the module.

- `EventAgentProofs`: `TypeCorrect` (with `CallOK`, which ties a call's loop
  variable to its event's budget).  `RecordExact`: with a handler that does its
  work when called, `DedupRecordExact`; it is inductive together with the types,
  because the record and the history change in the same segment.  `AtMostOnce`:
  `SerialOnce`, the work of an id whose deliveries never overlapped is done at
  most once.  It is not inductive: a call that wakes up might meet a processed
  id.  `OnceInv` adds that at most one call of such an id is open
  (`OneOpenCall`, because `Submit` notes the ids it makes overlap), hence that a
  sleeper's id is unprocessed (`SleeperUnprocessed`), and that what ran is
  recorded.  `CompletedStays`: `CompletedIsFinal`, from `OnceInv` and
  `FinalInv`: a completed event of such an id is logged under it and has the
  status, and a call that is let in works on another id.  `DeadLettersSpent` and
  `NoneAbandoned`, both also for overlapping deliveries and shared objects.
  `AgentDelivers`: every behaviour is one of `EventDelivery`'s `Safety`; each
  action maps to a step or a stutter.  `LateWorkOnly`: `LateWorkBounded`, for
  any finite set of calls; it counts.  Whoever falls asleep has found its id
  unprocessed, so no call joins the sleepers of a processed id, and whoever does
  the work of a processed id was one of them (`SleepersWork`): runs and sleepers
  together never become more.
- `HITLServiceProofs`: `TypeCorrect` (ids are 1..n without a gap, so `NewId` is
  new); `NeverBypassed`, which also covers reruns: the invariant adds that a
  paused or finished workflow has a context, and that `success` and state
  agree; `FirstDecision`, for workflows that were run once: the invariant adds
  that a paused workflow has no verdict yet (it is part of the property) and
  that every desk shows the workflow's task, which is `DesksCurrent`.
  `TrailsComplete` and `TrailsOnlyGrow` (`CompleteTrail`, `TrailAppendOnly`), for
  every method, also of an object that is run again: an operation is a chain of
  transitions, each of which extends the trail by the edge it takes, and
  `Continues`, the relation they establish, is transitive.
- `MetricsCollectorProofs`: `TypeCorrect`; `ReadsAreOfWindow` (`ReadsWindow`)
  from `WindowComplete`, the inductive strengthening: a buffer is a tail of what
  was recorded, and everything before the tail had fallen out of the window by
  `latest`.  No order of the recordings in time is assumed: a trim stops at a
  young head, and a point dropped once stays out whatever the clock shows later.
- `AlertEngineProofs`: `TypeCorrect`; `CooldownsRespected` from `Remembered`: no
  alert of a name is younger than the time remembered for it.  The proof needs
  that `unregister_rule` keeps that time, and it needs nothing of the clock.
  `IndicesStable`: `IndexStable`, because an evaluation only appends.
- `ObservabilityProofs`, about the composition: `EachRequestCounted`
  (`OutcomeRecorded`), `AlertsHaveGrounds` (`AlertsJustified`), `AlertsKeepUp`
  (`EvaluatedPeriodically`) and `ServiceReadsWindow`, the collector's
  `ReadsWindow` when requests, evaluations and summaries all trim.  It
  instantiates `MetricsCollectorProofs` and cites its lemmas: what a trimmed
  buffer holds was recorded in the window or behind a point of it (`Shown`),
  however the clock was set, so a condition that holds on the buffers holds on
  the history, and the history before an alert stays as it was when later points
  are appended.  `OutcomeRecorded` equates two cardinalities, of requests by
  where they are and of points by their agent; each step changes both by the
  same.  `Periodic` is what makes the last property inductive: as long as
  nothing disturbed it, at most one request is in flight, and the executions
  since the last evaluation are the remainder that the count of snapshots
  leaves, or this remainder is 0 and the request that will see it is on its way.
  Assumed: finitely many requests (a process serves no more), rules whose
  cooldown is below the time at which the process starts (it counts from the
  epoch), and a capacity of the deque that is a multiple of the period (1000 and
  10).  Without the last the count would stop at a remainder other than 0 and no
  alert would be evaluated again.
- `ToolAccessProofs`: `TypeCorrect`; `RunsChecked` and `AnswersTrue`
  (`RunsWhatWasChecked`, `AnswerTellsEffects`) for any tools, names and number
  of calls.  The invariant adds `CallOK`: a call that reads its body has passed
  the first check and has started nothing, and a finished one answers a success
  only if it started a tool, and a success or a failure if it did.  What makes
  it inductive is that the second check, the lookup and the start happen in one
  segment (`StartInv`).
- `StoreProofs`, on `HybridMemory`: `WindowCorrect`, for every capacity, number
  of adds and sessions; the invariant adds that new items are newer than all
  stored ones and that the window is part of the store.  `NothingHaunts`:
  `NoGhosts` for all limits and scores, from `ClearedInv`: what was cleared is
  older than what comes next, and neither copy of it is left.
  `SearchesAreRecalls`: `SearchIsRecall` for all scores and filters and every
  limit that is not negative.  Both
  queries cut a ranking at the limit (`NewestIsFirst` and the like), and the
  lemmas on rankings of finite sets say what merging two cuts leaves.
- `StoreProofs`, on `RollbackManager`: `TypeCorrect`, `LogExplains`,
  `StaysFrozen` (`SnapshotsFrozen`) for any configurations and number of
  snapshots.  The invariant adds `Apart`: no holder has the dict of a snapshot,
  and no dict of a holder, nor the running system, refers to its list.  A deep
  copy has both for itself (`CopyIsNew`), and making objects changes no contents
  (`AddingFreezes`).
- `StoreProofs`, on `CanaryTester`: `TasksStayPut` (`RoutesStable`), for any
  candidates and tasks and every share, from `CanaryInv`: the names of the
  active candidates are distinct.  The loop of `execute` comes to the first
  candidate, which is asked with the caller's share, or to the second, with the
  default, or to none (`OneOfTwoTakes`).
- `AgentProofs`, over `ServiceSpec`: calls of all agents after one another, with
  every answer of the model and whatever earlier calls left.  `ServiceInv` says
  of the call under way, agent by agent, what its fields hold at each point of
  its loop, and of what stays between calls that the crew has each name once.  A
  step of an agent keeps that agent's part; because the call names its agent, no
  other agent's step is possible, and because a call owns the event loop,
  `proposers` and `members` are the ones it began with.  From it:
  - `DecisionsAffordable`, `ShortTasks`: for every task and budget.  A cost is
    seven prices a token (`CostIsSevenfold`), so a feasible model can be paid
    for up to 285 tokens (`FeasibleIsPayable`).
  - `ReActExplains` (`ReActResultExplained`): every step but the last is one
    after which the loop goes on, and `Ending` lists the ways out.  That a
    doubtful reflection is not one of them is in section 7.
  - `BestIsReturned` (`BestReturned`): for every number of reflections,
    threshold and judgement, NaN included; the output kept is the first of those
    with the highest score (`BestSoFar`).
  - `VotesAreFair` (`VotesFair`): for every number of proposers, and every score.
    The shares are cut off, and a whole one may come out one less, so their sum
    is 100 only up to an error; the proof carries the partial sums along with the
    error, at most one for each share, and shows that the order of the votes is
    that of the scores, as equal scores have equal votes.
  - `OldestAlwaysServes` (`OldestOfEqualsServes`): when all have one expertise,
    the first that suits, or the first of all, is the member added first.
  - `AnswersReviewed` (`AnswerIsReviewed`): in closed form, the steps each
    pattern has after n answers.
  - `CallsAreBounded` (`CallsBounded`), for every setting of the loops.
  - `RanksNeverChange` (`RanksStable`): the members a request adds stand behind
    those the crew had, which keep their places (`Grown`).

  Assumed: a confidence, score or critique is an integer of its scale or stands
  for NaN or for no number (section 3), and requests add sequences of names.
  Votes and rosters are recursive functions over the numbers 0..n.  That the
  recursion has a value, and what it is, cannot come from the library's
  induction rule (its parameter is an operator); the proofs go by the least
  number for which a statement fails, in the set of such numbers (`NatsBySteps`,
  from the well-foundedness of `<`).

## 6. Only model-checked

Liveness is out of the prover's reach: `EveryCallSettles`, and of `DeliverySpec`
the fairness (`AgentDelivers` proves the rest of it).  TLC checks both on the
instance of `event_deliveries`.  The history variables and the invariants that
the proofs add, `ServiceInv` of the agents among them, were checked by TLC on the
instances of section 4 before they were proved.

## 7. Where code and documentation disagree

Seven disagreements have a run that TLC ends with a counterexample;
`PROJECT.json` ("findings") quotes the lines.

- `ExecutedAtMostOnce`: overlapping deliveries of one id do the work twice, as
  the check for duplicates is made before the first attempt only.
- `CompletedMeansDone`: the handler is documented as async and never awaited.
- `UserToolsUsable`: the default level of tools is no role.
- `EveryRequestCounted`: the spans of both tracing services are plain generators
  (`tracer.py:106` and 109), so `with` raises on them.  `dispatch` enters the
  span outside its `try`: with LangSmith or Phoenix configured, every observed
  request fails, and no metric shows it.
- `RefusedOnlyIfNothingFits`: a task that the cheapest model could do within the
  budget is refused, by an exception nobody catches (`router.py:111`).
- `LowConfidencePauses`: the gate of `ReActAgent` looks at the plan only
  (`react_agent.py:173`); a run whose reflections are all doubtful is a success
  after its last iteration.
- `SearchInSession`: a search with a session filter adds recent items of other
  sessions (`memory_manager.py:187`).

Others showed while the code was translated.  The models contain the behaviour,
and no property claims the opposite:

- A dead letter that is delivered again may complete, and stays on the queue
  (`event_agent.py:59`, "permanently failed events").
- `HITLWorkflow.analyze` restarts a workflow from any state, on edges its state
  machine (`hitl_workflow.py:69-74`) does not have.
- `HybridMemory.search` with a negative `top_k`, which the endpoint lets through,
  drops items from the end of what it recalled (`memory_manager.py:199`).
- The output of a paused workflow is in the endpoint's answer
  (`hitl_workflow.py:206-212`).
- Trimming stops at the first young point (`metrics.py:70`), so after the wall
  clock was set back points older than the window, which the docstring says are
  removed, stay behind it and are counted.
- `get_throughput` counts snapshots, which are never trimmed (`metrics.py:141`),
  for the "requests per second over the current window".
- When executions overlap, the multiple of ten at which alerts are evaluated
  may be jumped over (`middleware.py:74`).
- Conflicts between tools are decided by the permission level before the
  relevance (`orchestrator.py:93`), although "the highest confidence score wins"
  (`docs/overview.md:49`), and "system" comes before the "admin" that the
  docstring prefers (`orchestrator.py:85`).
- `AlertStatus.RESOLVED` is never set: an alert stays active when its condition
  is over (`alerting.py:215`, "still firing").
- The success rate of the agents is mixed with that of HTTP responses
  (`metrics.py:129`, `alerting.py:115`), and `no_heartbeat` looks at a count
  that never goes back to 0 (`metrics.py:156`).
- A request whose endpoint raises leaves no latency (`middleware.py:83`).
- A rollback restores nothing but the pointer to the current snapshot
  (`rollback.py:85`), and a rollforward needs no rollback (`rollback.py:111`).
- A rule whose message cannot be formatted, when it comes up for firing, takes
  the answer of the request that triggered the evaluation (`middleware.py:76`),
  and the rules behind it are not evaluated (`alerting.py:178`).
- A body with the key `tool_name` is answered with 500 (`main.py:475`).
- `float()` accepts "nan", and comparisons with NaN are false: a NaN passes every
  clamp.  In `ReActAgent` it passes both gates and cannot be encoded in the
  response, so that a run that was recorded is answered with 500; in
  `DebateAgent` it makes `int()` raise; in `SelfReflectiveAgent` it makes the
  improvement NaN.
- `SelfReflectiveAgent` generates an output after its last evaluation, which
  nobody judges or returns (`self_reflective_agent.py:122`), and `improvement`
  compares the last judgement with the first, while the best output is returned,
  and is rounded (line 125), so that it may be a little more than the gain.
- Members that the crew endpoint adds are all "general", so the oldest of the
  process serves every subtask; members stay for later requests
  (`main.py:305`), and the result names only the manager.
- The router may refuse with a larger budget what it accepts with a smaller one,
  because the larger one makes a more expensive model feasible.  A technical
  keyword lowers a long task from VERY_HIGH to HIGH.
- `WorkflowAgent` counts tokens for the pattern chain only.
- `CanaryTester` never calls the function of a candidate (`canary.py:102`), so
  what its evaluation compares is no evidence about it, against
  `canary.py:39-40`.  A candidate that was rolled back keeps taking tasks
  (`canary.py:177`; "rollback and remove"), and one without a failure fails for
  its failures when the baseline has none (`canary.py:139`).  It ignores the
  share a candidate is started with (`canary.py:81`), and promotes one whatever
  its evaluation said (`canary.py:165`).

## 8. Not modelled

- Dashboard helpers, `src/ui`, `src/demos`, `src/scripts`: presentation and
  clients; they keep no state of the system.
- `data_protection` (masking and encryption): regular expressions and ciphers
  over strings, without control.
- `safe_eval`: a stateless recursion over Python's expression trees on floats and
  unbounded integers.  No order of calls matters to it, and a model would be
  Python's arithmetic.
- The table of API keys and its loading: configuration.  The models start from
  the role a key has.
- What is written into spans: it goes to services outside and is read by nobody
  here.
- The lifespan, which runs once before any request, and the endpoints that only
  display.  Every endpoint of `main.py` that changes state is modelled with the
  component it uses.
- The wording of prompts and answers.  A model's answer is whatever the code
  reads from it: a number, a NaN, no number, numbered lines.
