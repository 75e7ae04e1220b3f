-------------------------- MODULE ExecutionBudget --------------------------
(***************************************************************************)
(* The budget of one inbound execution and the threads that spend it:      *)
(* runtime/execution/budget.py, the claims of models/provider.py and       *)
(* tools/executor.py, the parallel subagents of agents/subagent/parallel.py*)
(* and the end of the scope in applications/turn_coordinator.py.           *)
(*                                                                         *)
(* The root thread runs the turn and may delegate it once to a pool of     *)
(* subtasks that share its budget.  Every thread looks at the budget       *)
(* without the lock, then claims an attempt under it; what a model call    *)
(* used is known when it returns, which may be long after, or never.  The  *)
(* root waits for the subtasks up to a timeout, stops the budget for those *)
(* it gives up, and at the end closes the scope and reports what was used. *)
(***************************************************************************)
EXTENDS Integers, FiniteSets

CONSTANTS Root,        \* the thread of the turn
          Tasks,       \* the subtasks of its one delegation
          PoolSize,    \* workers of the thread pool
          MaxModel,    \* max_model_attempts
          MaxTool,     \* max_tool_attempts
          MaxTokens,   \* max_known_tokens
          Cost         \* bound on the tokens of one model call

ASSUME BudgetAssumption ==
  /\ Root \notin Tasks /\ IsFiniteSet(Tasks)
  /\ PoolSize \in Nat \ {0}
  /\ MaxModel \in Nat /\ MaxTool \in Nat
  /\ MaxTokens \in Nat \ {0} /\ Cost \in Nat

VARIABLES
  model, tool,    \* attempts granted so far
  known,          \* known_tokens
  settled,        \* known_usage_attempts
  unknown,        \* unknown_usage_attempts
  closed, stopped,
  cancelled,      \* what cancel_requested() answers
  expired,        \* the deadline has passed
  pc,             \* where each thread stands
  phase,          \* where the root stands around its delegation
  late,           \* the wait for the subtasks timed out
  results,        \* what the root has of each subtask
  report          \* the final snapshot, NoReport before

counters == <<model, tool, known, settled, unknown>>
flags == <<closed, stopped, cancelled, expired>>
delegation == <<phase, late, results, report>>
vars == <<model, tool, known, settled, unknown, closed, stopped, cancelled,
          expired, pc, phase, late, results, report>>

Threads == Tasks \cup {Root}

NoReport == [complete |-> FALSE, known |-> 0, model |-> 0]

Stands == {"idle", "queued", "cancelled", "ready", "checked", "calling",
           "using", "done"}
Phases == {"turn", "collect", "sweep", "join", "closed", "reported"}

---------------------------------------------------------------------------
(* ExecutionBudget.                                                        *)

(* Neither close() nor stop() has been called.                             *)
Open == ~closed /\ ~stopped

(* _check_resource_limits: the deadline and the known tokens.              *)
WithinLimits == ~expired /\ known < MaxTokens

(* check(), which takes no lock.                                           *)
Allowed == Open /\ ~cancelled /\ WithinLimits

(* A thread runs its agent loop; the root not while it waits for subtasks. *)
Runs(t) == t = Root => phase = "turn"

Moves(t, place) == pc' = [pc EXCEPT ![t] = place]

(* The check before a claim; a thread that is refused ends its loop.       *)
Check(t) ==
  /\ pc[t] = "ready" /\ Runs(t)
  /\ Moves(t, IF Allowed THEN "checked" ELSE "done")
  /\ UNCHANGED <<counters, flags, delegation>>

\* Mutant: stop() and close() are looked at before the lock only.
Grantable_Checked == WithinLimits

(* claim(kind), under the lock.                                            *)
Grantable == Open /\ WithinLimits

\* Mutant: the last attempt is granted twice.
ClaimModel_Extra(t) ==
  /\ pc[t] = "checked" /\ Grantable /\ model <= MaxModel
  /\ model' = model + 1
  /\ Moves(t, "calling")
  /\ UNCHANGED <<tool, known, settled, unknown, flags, delegation>>

ClaimModel(t) ==
  /\ pc[t] = "checked" /\ Grantable /\ model < MaxModel
  /\ model' = model + 1
  /\ Moves(t, "calling")
  /\ UNCHANGED <<tool, known, settled, unknown, flags, delegation>>

ClaimTool(t) ==
  /\ pc[t] = "checked" /\ Grantable /\ tool < MaxTool
  /\ tool' = tool + 1
  /\ Moves(t, "using")
  /\ UNCHANGED <<model, known, settled, unknown, flags, delegation>>

Refuse(t) ==
  /\ pc[t] = "checked"
  /\ ~Grantable \/ model >= MaxModel \/ tool >= MaxTool
  /\ Moves(t, "done")
  /\ UNCHANGED <<counters, flags, delegation>>

(* _bounded_model_call: the call returns or fails, the budget is checked   *)
(* once more, and in any case the usage is recorded, once; the thread goes *)
(* on or has its answer.                                                   *)
Proceeds(t) == \E place \in {"ready", "done"} :
                 (place = "ready" => Allowed) /\ Moves(t, place)

SettleKnown(t, tokens) ==
  /\ pc[t] = "calling"
  /\ known' = known + tokens /\ settled' = settled + 1
  /\ Proceeds(t)
  /\ UNCHANGED <<model, tool, unknown, flags, delegation>>

SettleUnknown(t) ==
  /\ pc[t] = "calling"
  /\ unknown' = unknown + 1
  /\ Proceeds(t)
  /\ UNCHANGED <<model, tool, known, settled, flags, delegation>>

(* A tool returns; the root's only outside its delegation.                 *)
Return(t) ==
  /\ pc[t] = "using" /\ Runs(t)
  /\ Moves(t, "ready")
  /\ UNCHANGED <<counters, flags, delegation>>

---------------------------------------------------------------------------
(* run_parallel_tasks, called by a tool of the root.                       *)

Dispatch ==
  /\ pc[Root] = "using" /\ phase = "turn"
  /\ Tasks # {} /\ \A i \in Tasks : pc[i] = "idle"
  /\ phase' = "collect"
  /\ pc' = [t \in Threads |-> IF t = Root THEN "using" ELSE "queued"]
  /\ UNCHANGED <<counters, flags, late, results, report>>

(* A worker of the pool takes a subtask.                                   *)
Running == {i \in Tasks : pc[i] \in {"ready", "checked", "calling", "using"}}

Start(i) ==
  /\ pc[i] = "queued" /\ Cardinality(Running) < PoolSize
  /\ Moves(i, "ready")
  /\ UNCHANGED <<counters, flags, delegation>>

(* as_completed hands over a finished subtask.                             *)
Collect(i) ==
  /\ phase = "collect" /\ results[i] = "none" /\ pc[i] = "done"
  /\ results' = [results EXCEPT ![i] = "answer"]
  /\ UNCHANGED <<counters, flags, pc, phase, late, report>>

Missing == {i \in Tasks : results[i] = "none"}

TimeOut ==
  /\ phase = "collect" /\ Missing # {}
  /\ phase' = "sweep" /\ late' = TRUE
  /\ UNCHANGED <<counters, flags, pc, results, report>>

\* Mutant: the timeout is recorded and the budget left open.
SweepUnfinished_Open(i) ==
  /\ phase = "sweep" /\ i \in Missing /\ pc[i] # "done"
  /\ results' = [results EXCEPT ![i] = "timeout"]
  /\ IF pc[i] = "queued" THEN Moves(i, "cancelled") ELSE UNCHANGED pc
  /\ UNCHANGED <<counters, flags, phase, late, report>>

(* The subtasks without a result: one that has finished meanwhile is still *)
(* collected, for another the budget is stopped, its future cancelled if   *)
(* it has not begun, and a timeout recorded.                               *)
SweepFinished(i) ==
  /\ phase = "sweep" /\ i \in Missing /\ pc[i] = "done"
  /\ results' = [results EXCEPT ![i] = "answer"]
  /\ UNCHANGED <<counters, flags, pc, phase, late, report>>

SweepUnfinished(i) ==
  /\ phase = "sweep" /\ i \in Missing /\ pc[i] # "done"
  /\ stopped' = TRUE
  /\ results' = [results EXCEPT ![i] = "timeout"]
  /\ IF pc[i] = "queued" THEN Moves(i, "cancelled") ELSE UNCHANGED pc
  /\ UNCHANGED <<counters, closed, cancelled, expired, phase, late, report>>

Gathered ==
  /\ phase \in {"collect", "sweep"} /\ Missing = {}
  /\ phase' = "join"
  /\ UNCHANGED <<counters, flags, pc, late, results, report>>

\* Mutant: the pool is always waited for.
Join_Waits ==
  /\ phase = "join" /\ Running = {}
  /\ phase' = "turn"
  /\ UNCHANGED <<counters, flags, pc, late, results, report>>

(* executor.shutdown waits for the workers unless the wait timed out.      *)
Join ==
  /\ phase = "join" /\ (late \/ Running = {})
  /\ phase' = "turn"
  /\ UNCHANGED <<counters, flags, pc, late, results, report>>

---------------------------------------------------------------------------
(* The end of the turn: the scope is closed, then the report is written.   *)
Close ==
  /\ phase = "turn" /\ pc[Root] = "done"
  /\ closed' = TRUE /\ phase' = "closed"
  /\ UNCHANGED <<counters, stopped, cancelled, expired, pc, late, results, report>>

\* Mutant: an attempt in flight is taken for settled.
Snapshot_Optimist == [complete |-> unknown = 0, known |-> known, model |-> model]

Snapshot ==
  [complete |-> unknown = 0 /\ model <= settled, known |-> known, model |-> model]

Report ==
  /\ phase = "closed"
  /\ report' = Snapshot /\ phase' = "reported"
  /\ UNCHANGED <<counters, flags, pc, late, results>>

(* The user cancels, time passes.                                          *)
Cancel ==
  /\ ~cancelled /\ cancelled' = TRUE
  /\ UNCHANGED <<counters, closed, stopped, expired, pc, delegation>>

Expire ==
  /\ ~expired /\ expired' = TRUE
  /\ UNCHANGED <<counters, closed, stopped, cancelled, pc, delegation>>

---------------------------------------------------------------------------
Init ==
  /\ model = 0 /\ tool = 0 /\ known = 0 /\ settled = 0 /\ unknown = 0
  /\ closed = FALSE /\ stopped = FALSE /\ cancelled = FALSE /\ expired = FALSE
  /\ pc = [t \in Threads |-> IF t = Root THEN "ready" ELSE "idle"]
  /\ phase = "turn" /\ late = FALSE
  /\ results = [i \in Tasks |-> "none"]
  /\ report = NoReport

AgentStep(t) ==
  \/ Check(t) \/ ClaimModel(t) \/ ClaimTool(t) \/ Refuse(t)
  \/ (\E tokens \in 0 .. Cost : SettleKnown(t, tokens)) \/ SettleUnknown(t)
  \/ Return(t)

RootStep ==
  \/ AgentStep(Root)
  \/ Dispatch \/ TimeOut \/ Gathered \/ Join \/ Close \/ Report
  \/ \E i \in Tasks : Collect(i) \/ SweepFinished(i) \/ SweepUnfinished(i)

WorkerStep == \E i \in Tasks : Start(i) \/ AgentStep(i)

Next == RootStep \/ WorkerStep \/ Cancel \/ Expire

(* The root's own calls and tools carry timeouts and its waits are timed;  *)
(* nothing is assumed of the subtasks, which may hang in a call for ever.  *)
Spec == Init /\ [][Next]_vars /\ WF_vars(RootStep)

---------------------------------------------------------------------------
(* Properties.                                                             *)

(* The types of the variables: the fields of ExecutionBudget               *)
(* (budget.py:33-47) and the states of a future.                           *)
TypeOK ==
  /\ model \in 0 .. MaxModel /\ tool \in 0 .. MaxTool
  /\ known \in Nat /\ settled \in Nat /\ unknown \in Nat
  /\ closed \in BOOLEAN /\ stopped \in BOOLEAN
  /\ cancelled \in BOOLEAN /\ expired \in BOOLEAN
  /\ pc \in [Threads -> Stands]
  /\ phase \in Phases /\ late \in BOOLEAN
  /\ results \in [Tasks -> {"none", "answer", "timeout"}]
  /\ report \in [complete : BOOLEAN, known : Nat, model : Nat]

InFlight == {t \in Threads : pc[t] = "calling"}

(* The token limit is exceeded by at most one call of each worker of the   *)
(* pool, although calls are granted before their usage is known: the calls *)
(* in flight count at their full cost.  It needs the stop of a timeout:    *)
(* without it the root would go on next to the workers it gave up          *)
(* (budget.py:77-96, parallel.py:98-101).                                  *)
OvershootBounded ==
  known + Cost * Cardinality(InFlight) <= MaxTokens - 1 + Cost * PoolSize

(* Once a subtask was reported as timed out, or the scope was closed, no   *)
(* thread is granted anything more, whatever it had checked before         *)
(* ("further work is stopped until its outcome is inspected",              *)
(* parallel.py:101; tests/test_execution_budget_scope.py:152-173).         *)
Over == phase \in {"closed", "reported"} \/ \E i \in Tasks : results[i] = "timeout"

NothingGrantedAfter ==
  [][Over => model' = model /\ tool' = tool]_vars

(* A final report that calls the usage complete is never contradicted: no  *)
(* attempt is in flight, and what is known does not change any more        *)
(* (tests/test_execution_budget_scope.py:176-185).                         *)
ReportHonest ==
  phase = "reported" /\ report.complete =>
    /\ report.known = known /\ report.model = model
    /\ InFlight = {} /\ unknown = 0

(* The turn ends with its report although a subtask hangs for ever.        *)
TurnEnds == <>(phase = "reported")

=============================================================================
