---------------------------- MODULE AgentSession ----------------------------
(***************************************************************************)
(* AgentSession (core/agent-session.ts): the driver between the clients, a *)
(* running agent and the session on disk.  The agent emits its events and  *)
(* goes on; the session handles them behind it, one at a time, through a   *)
(* chain of promises (_agentEventQueue).  Persistence, automatic retry and *)
(* automatic compaction all happen in that queue, while prompt, steer,     *)
(* abort, bash and manual compaction act at once.                          *)
(*                                                                         *)
(* A message is a number, given out in the order of the timestamps, and    *)
(* info[m] says what it is.  The session log is linear here: the tree of   *)
(* entries is the subject of SessionManager, the inside of a run that of   *)
(* AgentLoop.  A promise is named by what it waits for: the callers of     *)
(* prompt that await _retryPromise are those whose pc is "waiting".        *)
(***************************************************************************)
EXTENDS Naturals, Sequences, FiniteSets, SequencesExt, SequenceFilter

CONSTANTS
    Callers,        \* calls of prompt
    Scenarios,      \* who the client is and what may happen, see below
    MaxRetries,     \* settings: retry.maxRetries
    MaxSilent,      \* bound on the replies that overflow silently
    NoOne           \* no owner, no controller

(***************************************************************************)
(* A scenario says how the client behaves: "patient" clients wait until    *)
(* the session has settled, "eager" ones do not, "stalled" ones are eager  *)
(* and may besides stop reading the output of the RPC mode; which          *)
(* operations they call and how often a call of prompt is made; how the    *)
(* model may answer; and whether handlers of events may throw.             *)
(***************************************************************************)
Operations == {"steer", "clear", "bash", "abort", "abort_compaction", "compact"}
Outcomes == {"ok", "large", "retryable", "fatal", "overflow", "silent"}

ASSUME ScenariosAssumption ==
    \A s \in Scenarios :
        /\ s.client \in {"patient", "eager", "stalled"}
        /\ s.callers \subseteq Callers
        /\ s.operations \subseteq Operations /\ s.outcomes \subseteq Outcomes
        /\ s.throws \in BOOLEAN
ASSUME CallersAssumption ==
    NoOne \notin Callers \cup {"queue", "manual"} /\ Callers \cap {"queue", "manual"} = {}
ASSUME RetriesAssumption == MaxRetries \in Nat /\ MaxSilent \in Nat

VARIABLES
    scenario,       \* the scenario of this behaviour, chosen at the start
    info,           \* info[m]: role, outcome and, for a summary, what it keeps
    messages,       \* agent.state.messages
    run,            \* agent.activeRun: its state, its caller, its reply, its abort signal
    steering,       \* the agent's queue of steering messages
    timers,         \* the calls of agent.continue() that setTimeout holds, by reason
    log,            \* the entries of the session
    connected,      \* _unsubscribeAgent is defined
    events,         \* _agentEventQueue: the events not yet handled
    handler,        \* where _processAgentEvent stands in the first of them
    lastAssistant,  \* _lastAssistantMessage, 0 when undefined
    attempt,        \* _retryAttempt
    retryPromise,   \* _retryPromise is defined
    overflowTried,  \* _overflowRecoveryAttempted
    steeringShown,  \* _steeringMessages
    pendingBash,    \* _pendingBashMessages
    compaction,     \* compaction[k]: phase, reason and preparation of k's compaction
    controller,     \* whose controller _autoCompactionAbortController is
    cancelled,      \* the compactions whose signal has fired, and "backoff"
    pc,             \* where each call of prompt stands
    used,           \* the other operations called so far
    emitted,        \* messages emitted to the connected session, in order (history)
    retries         \* retries begun since the last good reply or prompt (history)

agentVars == <<info, messages, run, steering>>
queueVars == <<events, handler, lastAssistant>>
retryVars == <<attempt, retryPromise, retries>>
compactVars == <<compaction, controller, overflowTried>>
clientVars == <<scenario, used>>
vars == <<agentVars, timers, log, connected, queueVars, retryVars, compactVars,
          cancelled, steeringShown, pendingBash, pc, clientVars, emitted>>

Compactors == {"queue", "manual"} \cup Callers
Idle == [state |-> "idle", owner |-> NoOne, reply |-> 0, aborted |-> FALSE]
NoCompaction == [phase |-> "none", reason |-> "none", first |-> 0, recent |-> <<>>]

(***************************************************************************)
(* Messages and the session's context.                                     *)
(***************************************************************************)
Role(m) == info[m].role
IsAssistant(m) == Role(m) = "assistant"
Failed(m) == info[m].outcome \in {"retryable", "fatal", "overflow"}

\* isContextOverflow: an error that says so, or a good reply ("stop", or "length" with no output) whose
\* usage fills the window or exceeds it.
Overflows(m) == info[m].outcome \in {"overflow", "silent"}
Silent == {m \in DOMAIN info : info[m].outcome = "silent"}
New(role) == [role |-> role, outcome |-> "none", first |-> 0, recent |-> <<>>,
              replaces |-> FALSE]
NextId == Len(info) + 1
EndsWithAssistant(s) == s # <<>> /\ IsAssistant(Last(s))
WithoutLastAssistant(s) == IF EndsWithAssistant(s) THEN Front(s) ELSE s

Summaries(entries) == {i \in DOMAIN entries : Role(entries[i]) = "summary"}

\* The last compaction of the branch, 0 when there is none.
LatestCompaction(entries) ==
    IF Summaries(entries) = {} THEN 0 ELSE entries[Max(Summaries(entries))]

\* buildSessionContext: the summary, what it keeps, and what came after it.
\* An entry with replacement messages keeps these and nothing else.
Context(entries, inf) ==
    LET sums == {i \in DOMAIN entries : inf[entries[i]].role = "summary"}
        c == Max(sums)
        first == CHOOSE i \in DOMAIN entries : entries[i] = inf[entries[c]].first
        kept == {m \in ToSet(entries) : inf[m].role # "summary"}
    IN IF sums = {} THEN entries
       ELSE IF inf[entries[c]].replaces
       THEN inf[entries[c]].recent \o SubSeq(entries, c, Len(entries))
       ELSE <<entries[c]>> \o Filtered(SubSeq(entries, first, c - 1), kept)
                           \o SubSeq(entries, c + 1, Len(entries))

(***************************************************************************)
(* The agent's events and _processAgentEvent's queue.                      *)
(***************************************************************************)
Event(type, m) == [type |-> type, msg |-> m]

\* Mutation: an event is put in front of those that wait.
EmitFirst(evs, ms) ==
    /\ events' = IF connected THEN evs \o events ELSE events
    /\ emitted' = IF connected THEN emitted \o ms ELSE emitted

\* _handleAgentEvent chains the event behind the ones before it.
Emit(evs, ms) ==
    /\ events' = IF connected THEN events \o evs ELSE events
    /\ emitted' = IF connected THEN emitted \o ms ELSE emitted

MessageEvents(ms) == [i \in DOMAIN ms |-> Event("message", ms[i])]

\* A turn begins: the messages that go before it are emitted, and the reply
\* gets its timestamp.  inf is info with those messages in it.
BeginTurn(inf, ms, owner, aborted) ==
    /\ info' = Append(inf, New("assistant"))
    /\ messages' = messages \o ms
    /\ run' = [state |-> "turn", owner |-> owner, reply |-> Len(inf) + 1,
               aborted |-> aborted]
    /\ Emit(MessageEvents(ms), ms)

\* runAgentLoop and runAgentLoopContinue, with the poll of steering messages
\* that starts them.
StartRun(inf, ms, owner) ==
    IF steering = <<>>
    THEN BeginTurn(inf, ms, owner, FALSE) /\ UNCHANGED steering
    ELSE BeginTurn(inf, Append(ms, Head(steering)), owner, FALSE)
         /\ steering' = Tail(steering)

\* Mutation: the promise is created by _handleRetryableError only.
CreateRetryPromiseLate(outcome) == UNCHANGED retryPromise

\* _createRetryPromiseForAgentEnd, called before the event is queued.
CreateRetryPromise(outcome) ==
    retryPromise' = (retryPromise \/ (connected /\ outcome = "retryable"))

\* finishRun: every waitForIdle resolves, and the caller's agent.prompt; the
\* caller goes on into waitForRetry before anything else can happen.
Finished(owner, retrying) ==
    [c \in Callers |->
        IF owner = c THEN IF retrying THEN "waiting" ELSE "done"
        ELSE IF pc[c] = "idling" THEN "done" ELSE pc[c]]

\* The reply is complete.  A steering message begins another turn; a failed
\* turn, or one that nothing follows, ends the run with agent_end.  The run is
\* finished before any timer or input can be served, unless the listener of
\* the RPC mode waits for a client that does not read.
Reply(outcome) ==
    LET m == run.reply
        goesOn == outcome \in {"ok", "large", "silent"} /\ steering # <<>>
    IN /\ run.state = "turn"
       /\ run.aborted <=> outcome = "aborted"
       /\ outcome = "silent" => Cardinality(Silent) < MaxSilent
       /\ info' = IF goesOn
                  THEN Append([info EXCEPT ![m].outcome = outcome], New("assistant"))
                  ELSE [info EXCEPT ![m].outcome = outcome]
       /\ IF goesOn
          THEN /\ messages' = messages \o <<m, Head(steering)>>
               /\ run' = [run EXCEPT !.reply = NextId]
               /\ steering' = Tail(steering)
               /\ Emit(MessageEvents(<<m, Head(steering)>>), <<m, Head(steering)>>)
               /\ UNCHANGED <<retryPromise, pc>>
          ELSE /\ messages' = Append(messages, m)
               /\ Emit(<<Event("message", m), Event("agent_end", m)>>, <<m>>)
               /\ CreateRetryPromise(outcome)
               /\ IF scenario.client = "stalled"
                  THEN run' = [run EXCEPT !.state = "over"] /\ UNCHANGED pc
                  ELSE run' = Idle /\ pc' = Finished(run.owner, retryPromise')
               /\ UNCHANGED steering
       /\ UNCHANGED <<timers, log, connected, handler, lastAssistant, attempt, retries,
                      compactVars, cancelled, steeringShown, pendingBash, clientVars>>

\* The stalled client has read at last.
FinishRun ==
    /\ run.state = "over"
    /\ run' = Idle
    /\ pc' = Finished(run.owner, retryPromise)
    /\ UNCHANGED <<info, messages, steering, timers, log, connected, queueVars, retryVars,
                   compactVars, cancelled, steeringShown, pendingBash, clientVars, emitted>>

\* agent.continue(), from a timer.  It throws, and nobody listens, when a run
\* is active, when there is nothing to go on from, and when the last message
\* is a reply and no message is queued.
Continue(reason) ==
    /\ timers[reason] > 0
    /\ timers' = [timers EXCEPT ![reason] = @ - 1]
    /\ IF run.state # "idle" \/ messages = <<>> \/ (EndsWithAssistant(messages) /\ steering = <<>>)
       THEN UNCHANGED <<agentVars, events, emitted, retries>>
       ELSE /\ StartRun(info, <<>>, NoOne)
            /\ retries' = IF reason = "retry" THEN retries + 1 ELSE retries
    /\ UNCHANGED <<log, connected, handler, lastAssistant, attempt, retryPromise, compactVars,
                   cancelled, steeringShown, pendingBash, pc, clientVars>>

(***************************************************************************)
(* _processAgentEvent: a synchronous prefix, the extensions' handlers, and *)
(* then persistence, or the decisions that agent_end calls for.            *)
(***************************************************************************)
Current == Head(events)

\* Mutation: a message stays in the list that is shown when it is sent.
ShownAfterAll(m) == steeringShown

ShownAfter(m) == Filtered(steeringShown, ToSet(steeringShown) \ {m})

\* The event's turn comes.  A user message leaves the list that is shown.
TakeEvent ==
    /\ handler = "free" /\ events # <<>>
    /\ handler' = "emitting"
    /\ IF Current.type = "message" /\ Role(Current.msg) = "user"
       THEN /\ overflowTried' = FALSE
            /\ steeringShown' = ShownAfter(Current.msg)
       ELSE UNCHANGED <<overflowTried, steeringShown>>
    /\ UNCHANGED <<agentVars, timers, log, connected, events, lastAssistant, retryVars,
                   compaction, controller, cancelled, pendingBash, pc, clientVars, emitted>>

EventDone == handler' = "free" /\ events' = Tail(events)

\* Mutation: every reply resets the counter, a failed one too.
CountSuccessAlways(m) == attempt' = 0 /\ retries' = retries

\* A good reply ends a series of retries.
CountSuccess(m) ==
    IF Failed(m) THEN UNCHANGED <<attempt, retries>> ELSE attempt' = 0 /\ retries' = 0

\* message_end: persisted, in the order of the events.
PersistMessage ==
    LET m == Current.msg IN
    /\ handler = "emitting" /\ Current.type = "message"
    /\ EventDone
    /\ log' = Append(log, m)
    /\ IF IsAssistant(m)
       THEN /\ lastAssistant' = m
            /\ overflowTried' = (overflowTried /\ Failed(m))
            /\ CountSuccess(m)
       ELSE UNCHANGED <<lastAssistant, overflowTried, attempt, retries>>
    /\ UNCHANGED <<agentVars, timers, connected, retryPromise, compaction, controller,
                   cancelled, steeringShown, pendingBash, pc, clientVars, emitted>>

\* A handler of the event, a listener or the file throws: the queue goes on
\* with the next event.
EventFails ==
    /\ scenario.throws
    /\ handler = "emitting"
    /\ EventDone
    /\ UNCHANGED <<agentVars, timers, log, connected, lastAssistant, retryVars, compactVars,
                   cancelled, steeringShown, pendingBash, pc, clientVars, emitted>>

\* agent_end of a run none of whose replies has been handled.
NothingToDecide ==
    /\ handler = "emitting" /\ Current.type = "agent_end" /\ lastAssistant = 0
    /\ EventDone
    /\ UNCHANGED <<agentVars, timers, log, connected, lastAssistant, retryVars, compactVars,
                   cancelled, steeringShown, pendingBash, pc, clientVars, emitted>>

\* The callers whose retry promise is resolved: agent.waitForIdle() is next.
Released ==
    [c \in Callers |->
        IF pc[c] # "waiting" THEN pc[c]
        ELSE IF run.state = "idle" THEN "done" ELSE "idling"]

\* Mutation: the promise is dropped before it is resolved.
ResolveRetryLost == retryPromise' = FALSE /\ UNCHANGED pc

ResolveRetry == retryPromise' = FALSE /\ pc' = Released

Deciding == handler = "emitting" /\ Current.type = "agent_end" /\ lastAssistant # 0
IsRetryable(m) == info[m].outcome = "retryable"

\* Mutation: the counter is compared before it is incremented.
AttemptsLeftOneMore == attempt <= MaxRetries

AttemptsLeft == attempt < MaxRetries

\* _handleRetryableError up to its sleep: the failed reply leaves the agent's
\* messages and stays in the session.
BeginBackoff ==
    /\ Deciding /\ IsRetryable(lastAssistant) /\ AttemptsLeft
    /\ handler' = "backoff"
    /\ attempt' = attempt + 1
    /\ retryPromise' = TRUE
    /\ messages' = WithoutLastAssistant(messages)
    /\ cancelled' = cancelled \ {"backoff"}
    /\ UNCHANGED <<info, run, steering, timers, log, connected, events, lastAssistant, retries,
                   compactVars, steeringShown, pendingBash, pc, clientVars, emitted>>

\* The sleep is over: setTimeout holds the retry, and the handler is done.
EndBackoff ==
    /\ handler = "backoff" /\ "backoff" \notin cancelled
    /\ EventDone
    /\ lastAssistant' = 0
    /\ timers' = [timers EXCEPT !["retry"] = @ + 1]
    /\ UNCHANGED <<agentVars, log, connected, retryVars, compactVars, cancelled,
                   steeringShown, pendingBash, pc, clientVars, emitted>>

(***************************************************************************)
(* Compaction.  A message is too large for the context ("overflow", or     *)
(* "silent" when the provider answers all the same) or brings it near its  *)
(* end ("large"); the tokens of a failed reply are estimated from the last *)
(* good one.                                                               *)
(***************************************************************************)
Stale(m) == m < LatestCompaction(log)

LastGood(s) ==
    LET good == {i \in DOMAIN s : info[s[i]].outcome \in {"ok", "large", "silent"}}
    IN IF good = {} THEN 0 ELSE s[Max(good)]

Large(m) ==
    IF ~Failed(m) THEN info[m].outcome = "large"
    ELSE LET u == LastGood(messages)
         IN u # 0 /\ ~Stale(u) /\ info[u].outcome \in {"large", "silent"}

\* _checkCompaction: what the reply m calls for.
CheckCompaction(m) ==
    IF Stale(m) THEN "none"
    ELSE IF Overflows(m) THEN IF overflowTried THEN "none" ELSE "overflow"
    ELSE IF Large(m) THEN "threshold" ELSE "none"

\* _runAutoCompaction begins: a controller, and the wait for a key.  The reply that overflowed has been
\* taken off the agent's messages, a good one too.
BeginCompaction(k, reason, msgs) ==
    /\ compaction' = [compaction EXCEPT ![k] = [NoCompaction EXCEPT !.phase = "key", !.reason = reason]]
    /\ controller' = k
    /\ cancelled' = cancelled \ {k}
    /\ IF reason = "overflow"
       THEN overflowTried' = TRUE /\ messages' = WithoutLastAssistant(msgs)
       ELSE overflowTried' = overflowTried /\ messages' = msgs

\* The rest of agent_end when there is no retry.  gaveUp: the attempts are
\* used up, or the backoff was cancelled.
Decide(gaveUp) ==
    LET m == lastAssistant
        reason == CheckCompaction(m)
    IN /\ lastAssistant' = 0
       /\ ResolveRetry
       /\ IF gaveUp THEN attempt' = 0 /\ retries' = 0 ELSE UNCHANGED <<attempt, retries>>
       /\ IF reason = "none"
          THEN EventDone /\ UNCHANGED <<compactVars, messages, cancelled>>
          ELSE handler' = "compacting" /\ BeginCompaction("queue", reason, messages) /\ UNCHANGED events
       /\ UNCHANGED <<info, run, steering, timers, log, connected, steeringShown, pendingBash,
                      clientVars, emitted>>

EndWithoutRetry == Deciding /\ ~IsRetryable(lastAssistant) /\ Decide(FALSE)
GiveUp == Deciding /\ IsRetryable(lastAssistant) /\ ~AttemptsLeft /\ Decide(TRUE)
BackoffCancelled == handler = "backoff" /\ "backoff" \in cancelled /\ Decide(TRUE)

\* prepareCompaction: nothing to do right behind a compaction, otherwise any
\* message since the last boundary may be the first one kept.
CanCompact == log # <<>> /\ Role(Last(log)) # "summary"

KeepPoints ==
    LET c == LatestCompaction(log)
        boundary == IF c = 0 THEN 1 ELSE CHOOSE i \in DOMAIN log : log[i] = info[c].first
    IN {log[i] : i \in {j \in boundary..Len(log) : Role(log[j]) # "summary"}}

\* extractRecentUserMessages and createCodexStyleReplacementMessages: the last
\* messages of the user from the first kept entry on.
RecentUsers(first, reason) ==
    LET from == CHOOSE i \in DOMAIN log : log[i] = first
        users == Filtered(SubSeq(log, from, Len(log)), {m \in ToSet(log) : Role(m) = "user"})
        most == IF reason = "overflow" THEN 3 ELSE 2
    IN SubSeq(users, Max({1, Len(users) - most + 1}), Len(users))

Prepare(k) ==
    /\ compaction[k].phase = "key" /\ CanCompact
    /\ k # "manual" => controller # NoOne
    /\ \E first \in KeepPoints :
           compaction' = [compaction EXCEPT
               ![k].phase = "summary", ![k].first = first,
               ![k].recent = RecentUsers(first, compaction[k].reason)]
    /\ UNCHANGED <<agentVars, timers, log, connected, queueVars, retryVars, controller,
                   overflowTried, cancelled, steeringShown, pendingBash, pc, clientVars, emitted>>

\* The signal read after the summary is that of the controller of the moment;
\* without one the read throws.
NotCancelled(k) ==
    IF k = "manual" THEN k \notin cancelled
    ELSE controller # NoOne /\ controller \notin cancelled

\* Mutation: the context is built from the entries of the time of Prepare.
SavedContextStale(k, inf, entries) ==
    Context(Filtered(entries, 1..compaction[k].first \cup {Last(entries)}), inf)

SavedContext(k, inf, entries) == Context(entries, inf)

\* The summary has come: the entry is appended and the agent's messages are
\* replaced by the session's context.  The program's own summaries come with
\* replacement messages; an extension may give one that keeps the messages
\* from the first kept entry on.
SaveCompaction(k, replaces) ==
    LET summary == [New("summary") EXCEPT !.first = compaction[k].first,
                        !.recent = compaction[k].recent, !.replaces = replaces]
        inf == Append(info, summary)
        entries == Append(log, NextId)
    IN /\ compaction[k].phase = "summary" /\ NotCancelled(k)
       /\ compaction' = [compaction EXCEPT ![k].phase = "saved"]
       /\ info' = inf
       /\ log' = entries
       /\ messages' = SavedContext(k, inf, entries)
       /\ UNCHANGED <<run, steering, timers, connected, queueVars, retryVars, controller,
                      overflowTried, cancelled, steeringShown, pendingBash, pc, clientVars,
                      emitted>>

\* The finally blocks, and what waited for the compaction.
LeaveCompaction(k) ==
    /\ compaction' = [compaction EXCEPT ![k] = NoCompaction]
    /\ IF k = "manual"
       THEN connected' = TRUE /\ UNCHANGED controller
       ELSE controller' = NoOne /\ UNCHANGED connected
    /\ IF k = "queue" THEN EventDone ELSE UNCHANGED <<handler, events>>
    /\ pc' = IF k \in Callers THEN [pc EXCEPT ![k] = "prepared"] ELSE pc

\* After the handlers of session_compact: go on with what overflowed, or
\* with what was queued meanwhile.
EndCompaction(k) ==
    LET auto == k # "manual"
        overflow == compaction[k].reason = "overflow"
    IN /\ compaction[k].phase = "saved"
       /\ LeaveCompaction(k)
       /\ messages' = IF auto /\ overflow /\ EndsWithAssistant(messages) /\ Failed(Last(messages))
                      THEN Front(messages) ELSE messages
       /\ timers' = IF auto /\ (overflow \/ steering # <<>>)
                    THEN [timers EXCEPT !["resume"] = @ + 1] ELSE timers
       /\ UNCHANGED <<info, run, steering, log, lastAssistant, retryVars, overflowTried,
                      cancelled, steeringShown, pendingBash, clientVars, emitted>>

\* No key, an extension or the user cancels, nothing to compact, the model
\* fails, the controller has been taken away.
CompactionFails(k) ==
    /\ compaction[k].phase \in {"key", "summary"}
    /\ LeaveCompaction(k)
    /\ UNCHANGED <<agentVars, timers, log, lastAssistant, retryVars, overflowTried,
                   cancelled, steeringShown, pendingBash, clientVars, emitted>>

(***************************************************************************)
(* Clients.                                                                *)
(***************************************************************************)
InPrompt(c) == pc[c] \notin {"idle", "done", "rejected"}

\* Nothing is left to do without a client.
Settled ==
    /\ run.state = "idle" /\ events = <<>> /\ handler = "free"
    /\ \A reason \in DOMAIN timers : timers[reason] = 0
    /\ \A k \in Compactors : compaction[k].phase = "none"
    /\ \A c \in Callers : ~InPrompt(c)

MayCall == scenario.client # "patient" \/ Settled

Use(op) ==
    /\ op \in scenario.operations \ used
    /\ used' = used \cup {op}
    /\ UNCHANGED scenario

\* Mutation: the flushed results reach the agent and not the session.
FlushedLogUnsaved == log

\* _flushPendingBashMessages: both transcripts get what was kept.
FlushedLog == log \o pendingBash
FlushedMessages == messages \o pendingBash

\* prompt up to its first await: pending bash results are flushed, and the
\* last reply may call for a compaction first.
Prompt(c) ==
    LET replies == {i \in DOMAIN FlushedMessages : IsAssistant(FlushedMessages[i])}
        reason == IF replies = {} THEN "none"
                  ELSE CheckCompaction(FlushedMessages[Max(replies)])
    IN /\ pc[c] = "idle" /\ run.state = "idle" /\ MayCall
       /\ log' = FlushedLog
       /\ pendingBash' = <<>>
       /\ IF reason = "none"
          THEN /\ pc' = [pc EXCEPT ![c] = "prepared"]
               /\ messages' = FlushedMessages
               /\ UNCHANGED <<compactVars, cancelled>>
          ELSE /\ pc' = [pc EXCEPT ![c] = "compacting"]
               /\ BeginCompaction(c, reason, FlushedMessages)
       /\ UNCHANGED <<info, run, steering, timers, connected, queueVars, retryVars,
                      steeringShown, clientVars, emitted>>

\* A prompt during a run that says nothing of steering is refused.
PromptRefused(c) ==
    /\ pc[c] = "idle" /\ run.state # "idle" /\ MayCall
    /\ pc' = [pc EXCEPT ![c] = "rejected"]
    /\ UNCHANGED <<agentVars, timers, log, connected, queueVars, retryVars, compactVars,
                   cancelled, steeringShown, pendingBash, clientVars, emitted>>

\* The handlers of before_agent_start are done: agent.prompt, which throws
\* when another run has begun.
Submit(c) ==
    /\ pc[c] = "prepared"
    /\ IF run.state = "idle"
       THEN /\ StartRun(Append(info, New("user")), <<NextId>>, c)
            /\ pc' = [pc EXCEPT ![c] = "running"]
       ELSE /\ pc' = [pc EXCEPT ![c] = "rejected"]
            /\ UNCHANGED <<agentVars, events, emitted>>
    /\ UNCHANGED <<timers, log, connected, handler, lastAssistant, retryVars, compactVars,
                   cancelled, steeringShown, pendingBash, clientVars>>

\* A prompt with steering, or steer: shown and queued.
Steer ==
    /\ run.state # "idle" /\ Use("steer")
    /\ info' = Append(info, New("user"))
    /\ steeringShown' = Append(steeringShown, NextId)
    /\ steering' = Append(steering, NextId)
    /\ UNCHANGED <<messages, run, timers, log, connected, queueVars, retryVars, compactVars,
                   cancelled, pendingBash, pc, emitted>>

ClearQueue ==
    /\ steeringShown # <<>> /\ Use("clear")
    /\ steeringShown' = <<>> /\ steering' = <<>>
    /\ UNCHANGED <<info, messages, run, timers, log, connected, queueVars, retryVars,
                   compactVars, cancelled, pendingBash, pc, emitted>>

\* recordBashResult: at once, or kept for the next prompt while a run is on.
RecordBash ==
    /\ run.state # "idle" \/ MayCall
    /\ Use("bash")
    /\ info' = Append(info, New("bash"))
    /\ IF run.state = "idle"
       THEN /\ messages' = Append(messages, NextId)
            /\ log' = Append(log, NextId)
            /\ UNCHANGED pendingBash
       ELSE /\ pendingBash' = Append(pendingBash, NextId)
            /\ UNCHANGED <<messages, log>>
    /\ UNCHANGED <<run, steering, timers, connected, queueVars, retryVars, compactVars,
                   cancelled, steeringShown, pc, emitted>>

\* abortRetry, and the abort of the run if there is one.
AbortAll ==
    /\ ResolveRetry
    /\ cancelled' = IF handler = "backoff" THEN cancelled \cup {"backoff"} ELSE cancelled
    /\ run' = IF run.state = "turn" THEN [run EXCEPT !.aborted = TRUE] ELSE run

Abort ==
    /\ Use("abort")
    /\ AbortAll
    /\ UNCHANGED <<info, messages, steering, timers, log, connected, queueVars, attempt, retries,
                   compactVars, steeringShown, pendingBash, emitted>>

AbortCompaction ==
    /\ Use("abort_compaction")
    /\ controller # NoOne \/ compaction["manual"].phase \in {"key", "summary", "saved"}
    /\ cancelled' = cancelled \cup ({controller} \ {NoOne}) \cup {"manual"}
    /\ UNCHANGED <<agentVars, timers, log, connected, queueVars, retryVars, compactVars,
                   steeringShown, pendingBash, pc, emitted>>

\* compact: disconnect, abort, and wait for the run to end.
Compact ==
    /\ Use("compact")
    /\ connected' = FALSE
    /\ AbortAll
    /\ compaction' = [compaction EXCEPT !["manual"].phase = "idle"]
    /\ UNCHANGED <<info, messages, steering, timers, log, queueVars, attempt, retries, controller,
                   overflowTried, steeringShown, pendingBash, emitted>>

\* agent.waitForIdle() has resolved: a controller, and the wait for a key.
CompactIdle ==
    /\ compaction["manual"].phase = "idle" /\ run.state = "idle"
    /\ compaction' = [compaction EXCEPT !["manual"].phase = "key"]
    /\ cancelled' = cancelled \ {"manual"}
    /\ UNCHANGED <<agentVars, timers, log, connected, queueVars, retryVars, controller,
                   overflowTried, steeringShown, pendingBash, pc, clientVars, emitted>>

(***************************************************************************)
(* Specification.                                                          *)
(***************************************************************************)
Init ==
    /\ scenario \in Scenarios
    /\ info = <<>> /\ messages = <<>> /\ run = Idle /\ steering = <<>>
    /\ timers = [reason \in {"retry", "resume"} |-> 0]
    /\ log = <<>> /\ connected = TRUE
    /\ events = <<>> /\ handler = "free" /\ lastAssistant = 0
    /\ attempt = 0 /\ retryPromise = FALSE /\ retries = 0
    /\ compaction = [k \in Compactors |-> NoCompaction]
    /\ controller = NoOne /\ overflowTried = FALSE
    /\ cancelled = {} /\ steeringShown = <<>> /\ pendingBash = <<>>
    /\ pc = [c \in Callers |-> "idle"]
    /\ used = {} /\ emitted = <<>>

Agent == (\E outcome \in scenario.outcomes \cup {"aborted"} : Reply(outcome)) \/ FinishRun
Timer == \E reason \in DOMAIN timers : Continue(reason)
Handler ==
    \/ TakeEvent \/ PersistMessage \/ EventFails \/ NothingToDecide
    \/ BeginBackoff \/ EndBackoff \/ BackoffCancelled \/ GiveUp \/ EndWithoutRetry
Compacting(k) ==
    \/ Prepare(k) \/ EndCompaction(k) \/ CompactionFails(k)
    \/ \E replaces \in BOOLEAN : SaveCompaction(k, replaces)
Client ==
    \/ \E c \in scenario.callers : Prompt(c) \/ PromptRefused(c)
    \/ Steer \/ ClearQueue \/ RecordBash \/ Abort \/ AbortCompaction \/ Compact

Next ==
    \/ Agent \/ Timer \/ Handler \/ CompactIdle \/ Client
    \/ \E k \in Compactors : Compacting(k)
    \/ \E c \in Callers : Submit(c)

Spec == Init /\ [][Next]_vars

\* What the runtime and the services do by themselves goes on; clients may
\* stop at any point.
FairSpec ==
    /\ Spec
    /\ WF_vars(Agent) /\ WF_vars(Timer) /\ WF_vars(Handler) /\ WF_vars(CompactIdle)
    /\ \A k \in Compactors : WF_vars(Compacting(k))
    /\ \A c \in Callers : WF_vars(Submit(c))

(***************************************************************************)
(* Properties.                                                             *)
(***************************************************************************)
Ids == 1..Len(info)
Steps == {"idle", "prepared", "compacting", "running", "waiting", "idling",
          "done", "rejected"}

\* Every variable keeps its type; messages, log and queues hold messages.
TypeOK ==
    /\ scenario \in Scenarios
    /\ \A s \in {messages, log, steering, steeringShown, pendingBash, emitted} :
           ToSet(s) \subseteq Ids
    /\ run.state \in {"idle", "turn", "over"} /\ run.owner \in Callers \cup {NoOne}
    /\ run.reply \in 0..Len(info)
    /\ \A i \in DOMAIN events : events[i].type \in {"message", "agent_end"} /\ events[i].msg \in Ids
    /\ handler \in {"free", "emitting", "backoff", "compacting"}
    /\ lastAssistant \in 0..Len(info) /\ attempt \in 0..MaxRetries
    /\ {connected, retryPromise, overflowTried} \subseteq BOOLEAN
    /\ controller \in Compactors \cup {NoOne}
    /\ pc \in [Callers -> Steps]

MessagesIn(evs) ==
    LET own == Filtered(evs, [type : {"message"}, msg : Nat])
    IN  [i \in DOMAIN own |-> own[i].msg]

\* The session holds the messages of the runs in the order the agent emitted
\* them, and what it does not hold yet waits in the queue: slow handlers and
\* a second run reorder nothing and lose nothing.
SavedInOrder ==
    ~scenario.throws =>
        Filtered(log, ToSet(emitted)) \o MessagesIn(events) = emitted

\* Neither a manual compaction, which disconnects, nor a handler that throws.
Undisturbed == "compact" \notin used /\ ~scenario.throws

\* A patient client whose prompts schedule no resumption beside the run they
\* begin.  A compaction before a prompt does so after an overflow that was not
\* handled and for a steering message that is still queued.
ResumesAlone ==
    /\ scenario.client = "patient"
    /\ \/ \A c, d \in scenario.callers : c = d
       \/ "steer" \notin scenario.operations /\ scenario.outcomes \cap {"overflow", "silent"} = {}
       \/ scenario.outcomes \cap {"large", "overflow", "silent"} = {}

Good(s) == Filtered(s, {m \in ToSet(s) : ~Failed(m) /\ ~Overflows(m)})

\* When everything has settled, the agent's transcript is the session's
\* context, so that the next request and a reopened session agree, and the
\* messages shown as queued are those the agent still holds.  Two exceptions:
\* failed replies, which only the session keeps, and good ones that overflowed
\* silently, which the agent loses when their compaction fails
\* (agent-session.ts:2107).  A run beside another may be saved by a compaction
\* before all it said has reached the session.
Agreement ==
    Settled /\ Undisturbed =>
        /\ ResumesAlone => Good(messages) = Good(Context(log, info))
        /\ steeringShown = steering

\* A compaction without replacement messages drops nothing from the first
\* entry it keeps on, neither what was there nor what reached the session
\* while the summary was written.
CompactionKeepsRest ==
    [][\A k \in Compactors :
          compaction[k].phase = "summary" /\ compaction'[k].phase = "saved"
          /\ ~Last(info').replaces =>
              \A i, j \in DOMAIN log :
                  log[i] = compaction[k].first /\ i <= j /\ Role(log[j]) # "summary" =>
                      log[j] \in ToSet(messages')]_vars

Undecided == IF handler = "compacting" THEN Tail(events) ELSE events

RetryPending ==
    \/ handler = "backoff" \/ timers["retry"] > 0
    \/ attempt < MaxRetries /\ \E i \in DOMAIN Undecided :
           Undecided[i].type = "agent_end" /\ IsRetryable(Undecided[i].msg)

Returns(c) == pc[c] # "done" /\ pc'[c] = "done"

\* prompt does not return while its run is about to be retried, however slow
\* the handlers of earlier events are.
RetryIsAwaited ==
    [][\A c \in Callers :
          Returns(c) /\ used' \cap {"abort", "compact"} = {} => ~RetryPending']_vars

\* The same, for clients that wait for the session to settle.
PatientRetryIsAwaited ==
    [][\A c \in Callers :
          scenario.client = "patient" /\ Returns(c) /\ used' \cap {"abort", "compact"} = {} =>
              ~RetryPending']_vars

\* No more retries in a row than the settings allow.
RetriesBounded == ResumesAlone => retries <= MaxRetries

\* Whatever a patient client has called, the session settles again: every
\* prompt returns, and neither retries nor compactions go on for ever.  It does
\* not where a handler throws and nobody decides about the retry the caller
\* waits for, nor when reply after reply overflows silently: each of them is a
\* good one (agent-session.ts:677), so each is compacted and resumed.
PatientSettles ==
    scenario.client = "patient" =>
        \/ []<>Settled
        \/ scenario.throws /\ <>[](retryPromise /\ \E c \in Callers : pc[c] = "waiting")
        \/ []<><<Reply("silent")>>_vars

\* A patient client's prompt returns, but for the two cases above, and not
\* before its retries have ended.
PromptReturns == PatientRetryIsAwaited /\ PatientSettles

\* Every session settles whose client reads, patient or not.
EverySessionSettles == scenario.client # "stalled" => []<>Settled

\* A bash result kept back during a run is flushed when the run has ended and
\* its events have been handled.
BashFlushed == Settled => pendingBash = <<>>

\* After abort no retry of what was aborted begins.
AbortStopsRetry == [][("abort" \in used /\ Cardinality(scenario.callers) = 1) => retries' <= retries]_vars
=============================================================================
