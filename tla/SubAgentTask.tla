----------------------------- MODULE SubAgentTask -----------------------------
(***************************************************************************)
(* Calls of the task tool (core/lumen-task.ts) that one reply makes in     *)
(* parallel: each runs a sub-agent per task, waits for all of them, and    *)
(* shows their progress in a map that all calls share, by the task's id.   *)
(* A sub-agent is an Agent; of its run only the outcome matters here.      *)
(***************************************************************************)
EXTENDS Naturals, FiniteSets

CONSTANTS TaskCalls,     \* calls of the tool
          TaskIds,       \* the ids the model gives its tasks; two calls may use the same
          NoTask

VARIABLES tasks,         \* tasks[c]: the ids of a call's tasks
          signalAborted, \* the signal of the run that made the calls
          toolCall,      \* toolCall[c]: "waiting", "running", "returned"
          subAgent,      \* subAgent[c][id]: "none", "running", "stopping", "ended"
          reported,      \* reported[c][id]: the status of the result, or "none"
          sameTime,      \* the calls start their sub-agents in one millisecond
          localMap,      \* localMap[c]: the ids in progressMap
          shared,        \* sessionTaskProgress: id -> the call whose sub-agent has reported last
          replaced       \* session_shutdown and session_start have emptied the map meanwhile

taskVars == <<tasks, signalAborted, toolCall, subAgent, reported, sameTime, localMap, shared, replaced>>

TaskInit ==
  /\ tasks \in [TaskCalls -> SUBSET TaskIds \ {{}}]
  /\ signalAborted = FALSE /\ replaced = FALSE
  /\ toolCall = [c \in TaskCalls |-> "waiting"]
  /\ subAgent = [c \in TaskCalls |-> [id \in TaskIds |-> "none"]]
  /\ reported = [c \in TaskCalls |-> [id \in TaskIds |-> "none"]]
  /\ sameTime \in BOOLEAN
  /\ localMap = [c \in TaskCalls |-> {}]
  /\ shared = [id \in TaskIds |-> NoTask]

\* onProgress: an event of a sub-agent reaches the map of its call and the one of the session.
Report(c, id) == /\ localMap' = [localMap EXCEPT ![c] = @ \cup {id}]
                 /\ shared' = [shared EXCEPT ![id] = c]

\* The tool starts all its sub-agents at once.  A signal that is already aborted finds no run it could abort.
StartTasks(c) ==
  /\ toolCall[c] = "waiting"
  /\ toolCall' = [toolCall EXCEPT ![c] = "running"]
  /\ subAgent' = [subAgent EXCEPT ![c] = [id \in TaskIds |-> IF id \in tasks[c] THEN "running" ELSE "none"]]
  /\ UNCHANGED <<tasks, signalAborted, reported, sameTime, localMap, shared, replaced>>

\* There is no such agent, no task, or no model.
RefuseTasks(c) ==
  /\ toolCall[c] = "waiting"
  /\ toolCall' = [toolCall EXCEPT ![c] = "returned"]
  /\ UNCHANGED <<tasks, signalAborted, subAgent, reported, sameTime, localMap, shared, replaced>>

\* Mutation: only the tasks that have shown progress are told.
Stopped(c, id) == subAgent[c][id] = "running" /\ id \in localMap[c]

\* The sub-agents that listen to the signal.
Listening(c, id) == subAgent[c][id] = "running"

AbortTasks ==
  /\ ~signalAborted /\ signalAborted' = TRUE
  /\ subAgent' = [c \in TaskCalls |-> [id \in TaskIds |-> IF Listening(c, id) THEN "stopping" ELSE subAgent[c][id]]]
  /\ UNCHANGED <<tasks, toolCall, reported, sameTime, localMap, shared, replaced>>

Progress(c, id) ==
  /\ subAgent[c][id] \in {"running", "stopping"}
  /\ Report(c, id)
  /\ UNCHANGED <<tasks, signalAborted, toolCall, subAgent, reported, sameTime, replaced>>

\* prompt resolves, also after an error or an abort, which are messages: such a task is reported
\* completed, too.  It rejects only when a run fails outside the loop.  agent_end, and the result, are
\* reported.
SubAgentEnds(c, id) ==
  /\ subAgent[c][id] \in {"running", "stopping"}
  /\ subAgent' = [subAgent EXCEPT ![c][id] = "ended"]
  /\ \E status \in (IF subAgent[c][id] = "stopping" THEN {"completed"} ELSE {"completed", "failed"}) :
       reported' = [reported EXCEPT ![c][id] = status]
  /\ Report(c, id)
  /\ UNCHANGED <<tasks, signalAborted, toolCall, sameTime, replaced>>

\* Mutation: a call takes all its ids out of the shared map.
ClearedAll(c) == [id \in TaskIds |-> IF id \in localMap[c] THEN NoTask ELSE shared[id]]

\* Mutation: a call leaves its last reports in the shared map.
ClearedNone(c) == shared

\* clearSessionTaskProgress: entries that were started when this call's were.
Cleared(c) ==
  [id \in TaskIds |-> IF id \in localMap[c] /\ (sameTime \/ shared[id] = c) THEN NoTask ELSE shared[id]]

\* All sub-agents have ended: the tool returns.
Return(c) ==
  /\ toolCall[c] = "running" /\ \A id \in tasks[c] : subAgent[c][id] = "ended"
  /\ toolCall' = [toolCall EXCEPT ![c] = "returned"]
  /\ shared' = Cleared(c)
  /\ UNCHANGED <<tasks, signalAborted, subAgent, reported, sameTime, localMap, replaced>>

\* The session is replaced, or the extensions are reloaded, while sub-agents run.
Replace ==
  /\ ~replaced /\ replaced' = TRUE
  /\ shared' = [id \in TaskIds |-> NoTask]
  /\ UNCHANGED <<tasks, signalAborted, toolCall, subAgent, reported, sameTime, localMap>>

TaskStep(c) == Return(c) \/ \E id \in TaskIds : SubAgentEnds(c, id)
TaskNext ==
  \/ AbortTasks \/ Replace
  \/ \E c \in TaskCalls : StartTasks(c) \/ RefuseTasks(c) \/ TaskStep(c) \/ \E id \in TaskIds : Progress(c, id)

\* A sub-agent is a run of the agent, which ends (RunEnds of AgentLoop).
TaskFairness == \A c \in TaskCalls : WF_taskVars(TaskStep(c))

---------------------------------------------------------------------------
\* Type invariant.
TaskTypeOK ==
  /\ toolCall \in [TaskCalls -> {"waiting", "running", "returned"}]
  /\ subAgent \in [TaskCalls -> [TaskIds -> {"none", "running", "stopping", "ended"}]]
  /\ reported \in [TaskCalls -> [TaskIds -> {"none", "completed", "failed"}]]
  /\ sameTime \in BOOLEAN /\ localMap \in [TaskCalls -> SUBSET TaskIds] /\ shared \in [TaskIds -> TaskCalls \cup {NoTask}]

\* The progress that is shown is that of calls that have not returned, however many use one id and
\* wherever the session is replaced; and the last report of an id is not taken away by the return of
\* another call, unless both were started in one millisecond.
ProgressIsTrue ==
  \A id \in TaskIds : shared[id] # NoTask => toolCall[shared[id]] = "running"
ProgressStays ==
  [][\A c \in TaskCalls, id \in TaskIds :
       shared[id] = c /\ shared'[id] = NoTask /\ replaced' = replaced =>
         \/ toolCall'[c] = "returned"
         \/ sameTime /\ toolCall # toolCall']_taskVars

\* An abort reaches every sub-agent that had been started.
AbortsAreHeard ==
  [][signalAborted # signalAborted' => \A c \in TaskCalls, id \in TaskIds : subAgent'[c][id] # "running"]_taskVars

\* A call of the tool returns, when all its sub-agents have ended.
TaskCallWaits(c) == toolCall[c] = "running"
TaskCallsReturn == \A c \in TaskCalls : TaskCallWaits(c) ~> ~TaskCallWaits(c)
=============================================================================
