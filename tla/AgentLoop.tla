----------------------------- MODULE AgentLoop -----------------------------
(***************************************************************************)
(* One Agent (packages/agent/src/agent.ts) running the low-level loop      *)
(* (agent-loop.ts): prompts, assistant replies, batches of tool calls run  *)
(* one by one or in parallel, steering and follow-up queues, abort, reset, *)
(* and the failure path of a run whose provider or listener throws.        *)
(*                                                                         *)
(* The program is single threaded: between two awaits nothing else runs.   *)
(* pc is the await the run stands at, mostly "the listeners of this event  *)
(* have not settled yet", and one action is the code from one await to the *)
(* next.  The public methods of Agent interleave at every await.  Text,    *)
(* usage and updates of partial messages are left out: a message is its    *)
(* kind, its number among that kind and, for a reply, how many tool calls  *)
(* it asks for and why it stopped.                                         *)
(***************************************************************************)
EXTENDS Integers, Sequences, FiniteSets, SequencesExt

CONSTANT
    Scenarios       \* the bounds, settings and faults to choose from, see below

Kinds == {"prompt", "steer", "follow", "reply"}

(***************************************************************************)
(* A scenario bounds a behaviour and sets up its agent: the number of      *)
(* messages of a kind and of tool calls of one reply, how batches may run, *)
(* how much of a queue one poll takes, whether reset may be called while a *)
(* run is active, and who may throw.                                       *)
(***************************************************************************)
ASSUME ScenariosAssumption ==
    \A s \in Scenarios :
        /\ s.maxSent \in [Kinds -> Nat] /\ s.maxCalls \in Nat
        /\ s.modes \subseteq {"sequential", "parallel"}
        /\ {s.steeringMode, s.followUpMode} \subseteq {"all", "one-at-a-time"}
        /\ s.resetInRun \in BOOLEAN
        /\ s.throws \subseteq {"listener", "provider"}

VARIABLES
    scenario,       \* the scenario of this behaviour, chosen at the start
    pc,             \* where the active run awaits; "idle" without one
    messages,       \* _state.messages
    pendingCalls,   \* _state.pendingToolCalls
    steering,       \* steeringQueue
    followUp,       \* followUpQueue
    aborted,        \* the signal of the active run
    context,        \* currentContext.messages of the loop
    prompts,        \* prompts of the run not announced yet
    pending,        \* pendingMessages of the loop
    skipPoll,       \* skipInitialSteeringPoll
    hasMore,        \* hasMoreToolCalls
    mode,           \* how the current batch runs
    calls,          \* calls[i]: what became of the i-th call of the batch
    at,             \* the call being prepared, or the result being announced
    orphans,        \* executions of a batch whose run has failed
    log,            \* the events emitted since the run began (history)
    sent,           \* sent[kind]: messages of that kind so far (history)
    dropped         \* queued messages removed by clear and reset (history)

agentVars == <<messages, pendingCalls, steering, followUp, aborted>>
batchVars == <<mode, calls, at>>
loopVars == <<context, prompts, pending, skipPoll, hasMore>>
history == <<log, sent, dropped>>
vars == <<scenario, pc, agentVars, loopVars, batchVars, orphans, history>>

MaxSent == scenario.maxSent
MaxCalls == scenario.maxCalls
Modes == scenario.modes
SteeringMode == scenario.steeringMode
FollowUpMode == scenario.followUpMode
ResetInRun == scenario.resetInRun
Throws == scenario.throws

(***************************************************************************)
(* Messages, events and queues.                                            *)
(***************************************************************************)
Message(kind, n, k, stop) == [kind |-> kind, n |-> n, k |-> k, stop |-> stop]
User(kind, n) == Message(kind, n, 0, "none")
NextReply == sent["reply"] + 1
\* The result of the i-th call of the n-th reply.
Result(n, i) == Message("result", n, i, "none")
\* The first partial message, which remembers whether the request it answers
\* was made with the signal already aborted.
Partial == Message("partial", NextReply, 0, IF aborted THEN "aborted" ELSE "none")
Interrupted == {"error", "aborted"}

Emit(event) == log' = Append(log, event)
Sending(kind) ==
    /\ sent[kind] < MaxSent[kind]
    /\ sent' = [sent EXCEPT ![kind] = @ + 1]

\* PendingMessageQueue.drain: what it returns, and what it leaves.
Drained(queue, queueMode) ==
    IF queueMode = "all" \/ queue = <<>> THEN queue ELSE <<Head(queue)>>
Left(queue, queueMode) ==
    IF queueMode = "all" \/ queue = <<>> THEN <<>> ELSE Tail(queue)

Init ==
    /\ scenario \in Scenarios
    /\ pc = "idle"
    /\ messages = <<>> /\ pendingCalls = {} /\ aborted = FALSE
    /\ steering = <<>> /\ followUp = <<>>
    /\ context = <<>> /\ prompts = <<>> /\ pending = <<>>
    /\ skipPoll = FALSE /\ hasMore = FALSE
    /\ mode = "parallel" /\ calls = <<>> /\ at = 0
    /\ orphans = {}
    /\ log = <<>> /\ sent = [kind \in Kinds |-> 0] /\ dropped = {}

(***************************************************************************)
(* The public methods of Agent.                                            *)
(***************************************************************************)

\* runWithLifecycle up to the listeners of agent_start.  The loop works on a
\* copy of the transcript, to which the prompts are already added.
StartRun(newPrompts, skip) ==
    /\ pc = "idle"
    /\ pc' = "agent_start"
    /\ prompts' = newPrompts
    /\ context' = messages \o newPrompts
    /\ pending' = <<>>
    /\ skipPoll' = skip
    /\ hasMore' = TRUE
    /\ aborted' = FALSE
    /\ log' = <<"agent_start">>
    /\ UNCHANGED <<messages, pendingCalls, batchVars, orphans, dropped>>

Prompt ==
    /\ Sending("prompt")
    /\ StartRun(<<User("prompt", sent'["prompt"])>>, FALSE)
    /\ UNCHANGED <<steering, followUp>>

EndsWithReply == messages # <<>> /\ Last(messages).kind = "reply"

\* Mutation: continue drains both queues before it looks at the first.
ContinueDrainsBoth ==
    /\ EndsWithReply /\ steering # <<>>
    /\ StartRun(Drained(steering, SteeringMode), TRUE)
    /\ steering' = Left(steering, SteeringMode)
    /\ followUp' = Left(followUp, FollowUpMode)
    /\ UNCHANGED sent

ContinueSteering ==
    /\ EndsWithReply /\ steering # <<>>
    /\ StartRun(Drained(steering, SteeringMode), TRUE)
    /\ steering' = Left(steering, SteeringMode)
    /\ UNCHANGED <<followUp, sent>>

ContinueFollowUp ==
    /\ EndsWithReply /\ steering = <<>> /\ followUp # <<>>
    /\ StartRun(Drained(followUp, FollowUpMode), FALSE)
    /\ followUp' = Left(followUp, FollowUpMode)
    /\ UNCHANGED <<steering, sent>>

ContinueTranscript ==
    /\ messages # <<>> /\ ~EndsWithReply
    /\ StartRun(<<>>, FALSE)
    /\ UNCHANGED <<steering, followUp, sent>>

Steer ==
    /\ Sending("steer")
    /\ steering' = Append(steering, User("steer", sent'["steer"]))
    /\ UNCHANGED <<pc, messages, pendingCalls, followUp, aborted>>
    /\ UNCHANGED <<loopVars, batchVars, orphans, log, dropped>>

FollowUp ==
    /\ Sending("follow")
    /\ followUp' = Append(followUp, User("follow", sent'["follow"]))
    /\ UNCHANGED <<pc, messages, pendingCalls, steering, aborted>>
    /\ UNCHANGED <<loopVars, batchVars, orphans, log, dropped>>

\* clearSteeringQueue and clearFollowUpQueue; clearAllQueues calls both.
ClearQueues ==
    \E queues \in {{"steer"}, {"follow"}, {"steer", "follow"}} :
        /\ steering' = IF "steer" \in queues THEN <<>> ELSE steering
        /\ followUp' = IF "follow" \in queues THEN <<>> ELSE followUp
        /\ dropped' = dropped \cup (ToSet(steering) \ ToSet(steering'))
                              \cup (ToSet(followUp) \ ToSet(followUp'))
        /\ UNCHANGED <<pc, messages, pendingCalls, aborted>>
        /\ UNCHANGED <<loopVars, batchVars, orphans, log, sent>>

Abort ==
    /\ pc # "idle"
    /\ aborted' = TRUE
    /\ UNCHANGED <<pc, messages, pendingCalls, steering, followUp>>
    /\ UNCHANGED <<loopVars, batchVars, orphans, history>>

Reset ==
    /\ ResetInRun \/ pc = "idle"
    /\ messages' = <<>>
    /\ pendingCalls' = {}
    /\ steering' = <<>>
    /\ followUp' = <<>>
    /\ dropped' = dropped \cup ToSet(steering) \cup ToSet(followUp)
                          \cup ToSet(messages)
    /\ UNCHANGED <<pc, aborted, loopVars, batchVars, orphans, log, sent>>

\* The owner of the agent takes a failed reply off the transcript before it
\* calls continue (AgentSession._handleRetryableError).
DropFailedReply ==
    /\ pc = "idle"
    /\ EndsWithReply /\ Last(messages).stop = "error"
    /\ sent["reply"] < MaxSent["reply"]
    /\ messages' = Front(messages)
    /\ UNCHANGED <<pc, pendingCalls, steering, followUp, aborted>>
    /\ UNCHANGED <<loopVars, batchVars, orphans, history>>

(***************************************************************************)
(* runAgentLoop and runLoop: prompts, turns and injected messages.         *)
(***************************************************************************)
FirstTurn ==
    /\ pc = "agent_start"
    /\ pc' = "first_turn"
    /\ Emit("turn_start")
    /\ UNCHANGED <<agentVars, loopVars, batchVars, orphans, sent, dropped>>

PromptStart ==
    /\ pc \in {"first_turn", "prompt_end"}
    /\ prompts # <<>>
    /\ pc' = "prompt_start"
    /\ Emit("message_start")
    /\ UNCHANGED <<agentVars, loopVars, batchVars, orphans, sent, dropped>>

PromptEnd ==
    /\ pc = "prompt_start"
    /\ pc' = "prompt_end"
    /\ messages' = Append(messages, Head(prompts))
    /\ prompts' = Tail(prompts)
    /\ Emit("message_end")
    /\ UNCHANGED <<pendingCalls, steering, followUp, aborted>>
    /\ UNCHANGED <<context, pending, skipPoll, hasMore>>
    /\ UNCHANGED <<batchVars, orphans, sent, dropped>>

\* getSteeringMessages, which a continuation makes skip its first call.
PollSteering(next) ==
    /\ pc' = next
    /\ pending' = IF skipPoll THEN <<>> ELSE Drained(steering, SteeringMode)
    /\ steering' = IF skipPoll THEN steering ELSE Left(steering, SteeringMode)
    /\ skipPoll' = FALSE
    /\ UNCHANGED <<messages, pendingCalls, followUp, aborted>>
    /\ UNCHANGED <<context, prompts, hasMore, batchVars, orphans, history>>

FirstPoll ==
    /\ pc \in {"first_turn", "prompt_end"}
    /\ prompts = <<>>
    /\ PollSteering("first_poll")

InjectStart ==
    /\ pc \in {"first_poll", "turn_start", "inject_end"}
    /\ pending # <<>>
    /\ pc' = "inject_start"
    /\ Emit("message_start")
    /\ UNCHANGED <<agentVars, loopVars, batchVars, orphans, sent, dropped>>

\* Mutation: the injected message reaches the transcript only.
InjectTranscriptOnly ==
    /\ pc = "inject_start"
    /\ pc' = "inject_end"
    /\ messages' = Append(messages, Head(pending))
    /\ pending' = Tail(pending)
    /\ Emit("message_end")
    /\ UNCHANGED <<pendingCalls, steering, followUp, aborted, context>>
    /\ UNCHANGED <<prompts, skipPoll, hasMore, batchVars, orphans, sent, dropped>>

\* The loop adds the message to its own context when the listeners have
\* settled; nobody reads that context before.
InjectEnd ==
    /\ pc = "inject_start"
    /\ pc' = "inject_end"
    /\ messages' = Append(messages, Head(pending))
    /\ context' = Append(context, Head(pending))
    /\ pending' = Tail(pending)
    /\ Emit("message_end")
    /\ UNCHANGED <<pendingCalls, steering, followUp, aborted>>
    /\ UNCHANGED <<prompts, skipPoll, hasMore, batchVars, orphans, sent, dropped>>

EndTurn(next) ==
    /\ pc' = next
    /\ Emit("turn_end")
    /\ UNCHANGED <<agentVars, prompts, pending, skipPoll>>
    /\ UNCHANGED <<batchVars, orphans, sent, dropped>>

\* Mutation: an aborted run does not poll the queue after its turn.
PollUnlessAborted ==
    /\ pc = "turn_end"
    /\ \/ ~aborted /\ PollSteering("polled")
       \/ aborted /\ pc' = "polled"
          /\ UNCHANGED <<agentVars, loopVars, batchVars, orphans, history>>

PollAfterTurn ==
    /\ pc = "turn_end"
    /\ PollSteering("polled")

NextTurn ==
    /\ pc = "polled"
    /\ hasMore \/ pending # <<>>
    /\ pc' = "turn_start"
    /\ Emit("turn_start")
    /\ UNCHANGED <<agentVars, loopVars, batchVars, orphans, sent, dropped>>

\* No tool calls and no steering: ask for follow-up messages, and end the run
\* when there are none.
WouldStop == pc = "polled" /\ ~hasMore /\ pending = <<>>

PollFollowUp ==
    /\ WouldStop
    /\ followUp # <<>>
    /\ pending' = Drained(followUp, FollowUpMode)
    /\ followUp' = Left(followUp, FollowUpMode)
    /\ hasMore' = TRUE
    /\ UNCHANGED <<pc, messages, pendingCalls, steering, aborted>>
    /\ UNCHANGED <<context, prompts, skipPoll, batchVars, orphans, history>>

EndRun ==
    /\ pc = "last_turn_end" \/ (WouldStop /\ followUp = <<>>)
    /\ pc' = "agent_end"
    /\ Emit("agent_end")
    /\ UNCHANGED <<agentVars, loopVars, batchVars, orphans, sent, dropped>>

\* finishRun, when the listeners of agent_end have settled.
FinishRun ==
    /\ pc' = "idle"
    /\ pendingCalls' = {}
    /\ context' = <<>> /\ prompts' = <<>> /\ pending' = <<>>
    /\ skipPoll' = FALSE /\ hasMore' = FALSE
    /\ calls' = <<>> /\ at' = 0
    /\ UNCHANGED <<messages, steering, followUp, aborted, mode, orphans, history>>

Finish == pc \in {"agent_end", "fail_agent_end"} /\ FinishRun

(***************************************************************************)
(* streamAssistantResponse.  The provider is external: its reply asks for  *)
(* tool calls or not, fails, or is aborted; a request made with the signal *)
(* already aborted always ends aborted (every provider tests the signal).  *)
(***************************************************************************)
ReadyToStream ==
    pc \in {"first_poll", "turn_start", "inject_end"} /\ pending = <<>>

ReplyStart ==
    /\ ReadyToStream
    /\ pc' = "reply_start"
    /\ context' = Append(context, Partial)
    /\ Emit("message_start")
    /\ UNCHANGED <<agentVars, prompts, pending, skipPoll, hasMore>>
    /\ UNCHANGED <<batchVars, orphans, sent, dropped>>

Replies ==
    IF Last(context).stop = "aborted"
    THEN {Message("reply", NextReply, 0, "aborted")}
    ELSE {Message("reply", NextReply, k, "none") :
              k \in 0 .. (IF NextReply < MaxSent["reply"] THEN MaxCalls ELSE 0)}
         \cup {Message("reply", NextReply, 0, "error")}
         \cup (IF aborted THEN {Message("reply", NextReply, 0, "aborted")} ELSE {})

ReplyEnd ==
    /\ pc = "reply_start"
    /\ pc' = "reply_end"
    /\ \E reply \in Replies :
        /\ context' = Append(Front(context), reply)
        /\ messages' = Append(messages, reply)
    /\ sent' = [sent EXCEPT !["reply"] = NextReply]
    /\ Emit("message_end")
    /\ UNCHANGED <<pendingCalls, steering, followUp, aborted>>
    /\ UNCHANGED <<prompts, pending, skipPoll, hasMore, batchVars, orphans, dropped>>

\* The reply the loop is working on, until its tool results are added.
Reply == Last(context)

InterruptedTurn ==
    /\ pc = "reply_end"
    /\ Reply.stop \in Interrupted
    /\ EndTurn("last_turn_end")
    /\ UNCHANGED <<context, hasMore>>

TurnWithoutCalls ==
    /\ pc = "reply_end"
    /\ Reply.stop = "none" /\ Reply.k = 0
    /\ hasMore' = FALSE
    /\ EndTurn("turn_end")
    /\ UNCHANGED context

(***************************************************************************)
(* executeToolCalls.  A call is started, then answered at once (unknown    *)
(* tool, invalid arguments, blocked, aborted) or prepared and run.         *)
(***************************************************************************)
CallId(i) == <<Reply.n, i>>
\* The calls the batch has reached: an abort leaves the rest untouched.
Reached == Cardinality({i \in DOMAIN calls : calls[i] # "todo"})
NoneRunning == \A i \in DOMAIN calls : calls[i] \notin {"running", "ending"}

StartCall(i, states) ==
    /\ pc' = "call_start"
    /\ at' = i
    /\ calls' = [states EXCEPT ![i] = "started"]
    /\ pendingCalls' = pendingCalls \cup {CallId(i)}
    /\ Emit("call_start")

RunTools ==
    /\ pc = "reply_end"
    /\ Reply.stop = "none" /\ Reply.k > 0
    /\ mode' \in Modes
    /\ StartCall(1, [i \in 1 .. Reply.k |-> "todo"])
    /\ UNCHANGED <<messages, steering, followUp, aborted>>
    /\ UNCHANGED <<loopVars, orphans, sent, dropped>>

\* Mutation: a call answered at once stays open.
AnswerLeavesOpen ==
    /\ pc = "call_start"
    /\ pc' = "call_end"
    /\ calls' = [calls EXCEPT ![at] = "immediate"]
    /\ Emit("call_end")
    /\ UNCHANGED <<agentVars, loopVars, mode, at, orphans, sent, dropped>>

AnswerAtOnce ==
    /\ pc = "call_start"
    /\ pc' = "call_end"
    /\ calls' = [calls EXCEPT ![at] = "immediate"]
    /\ pendingCalls' = pendingCalls \ {CallId(at)}
    /\ Emit("call_end")
    /\ UNCHANGED <<messages, steering, followUp, aborted, loopVars, mode, at>>
    /\ UNCHANGED <<orphans, sent, dropped>>

RunCall ==
    /\ pc = "call_start"
    /\ mode = "sequential" /\ ~aborted
    /\ pc' = "running"
    /\ calls' = [calls EXCEPT ![at] = "running"]
    /\ UNCHANGED <<agentVars, loopVars, mode, at, orphans, history>>

\* Parallel mode prepares every call before it runs any of them.
AfterPreparing(states) ==
    IF aborted \/ at = Len(states)
    THEN /\ pc' = "running"
         /\ calls' = [i \in DOMAIN states |->
                         IF states[i] = "prepared" THEN "running" ELSE states[i]]
         /\ UNCHANGED <<pendingCalls, at, log>>
    ELSE StartCall(at + 1, states)

Prepare ==
    /\ pc = "call_start"
    /\ mode = "parallel" /\ ~aborted
    /\ AfterPreparing([calls EXCEPT ![at] = "prepared"])
    /\ UNCHANGED <<messages, steering, followUp, aborted, loopVars, mode>>
    /\ UNCHANGED <<orphans, sent, dropped>>

PrepareNext ==
    /\ pc = "call_end"
    /\ mode = "parallel"
    /\ AfterPreparing(calls)
    /\ UNCHANGED <<messages, steering, followUp, aborted, loopVars, mode>>
    /\ UNCHANGED <<orphans, sent, dropped>>

\* A tool, and the afterToolCall hook, are done with the call.
FinishCall(i) ==
    /\ pc = "running"
    /\ calls[i] = "running"
    /\ calls' = [calls EXCEPT ![i] = "ending"]
    /\ pendingCalls' = pendingCalls \ {CallId(i)}
    /\ Emit("call_end")
    /\ UNCHANGED <<pc, messages, steering, followUp, aborted, loopVars, mode, at>>
    /\ UNCHANGED <<orphans, sent, dropped>>

CallEnded(i) ==
    /\ pc = "running"
    /\ calls[i] = "ending"
    /\ calls' = [calls EXCEPT ![i] = "done"]
    /\ UNCHANGED <<pc, agentVars, loopVars, mode, at, orphans, history>>

\* The results are announced in the order of the calls, whatever the order
\* in which they ended.
AnnounceResult(i) ==
    /\ pc' = "result_start"
    /\ at' = i
    /\ Emit("message_start")
    /\ UNCHANGED <<agentVars, loopVars, mode, calls, orphans, sent, dropped>>

\* Mutation: the results are announced before every call has ended.
FirstResultEarly ==
    /\ \/ pc = "running" /\ \E i \in DOMAIN calls : calls[i] = "done"
       \/ pc = "call_end" /\ mode = "sequential"
    /\ AnnounceResult(IF mode = "parallel" THEN 1 ELSE at)

FirstResult ==
    /\ \/ pc = "running" /\ NoneRunning
       \/ pc = "call_end" /\ mode = "sequential"
    /\ AnnounceResult(IF mode = "parallel" THEN 1 ELSE at)

\* Mutation: the results are announced from the last call to the first.
ResultsReversed ==
    /\ pc = "result_start"
    /\ pc' = "result_end"
    /\ messages' = Append(messages,
           Result(Reply.n, IF mode = "parallel" THEN Reached + 1 - at ELSE at))
    /\ Emit("message_end")
    /\ UNCHANGED <<pendingCalls, steering, followUp, aborted, loopVars>>
    /\ UNCHANGED <<batchVars, orphans, sent, dropped>>

ResultEnd ==
    /\ pc = "result_start"
    /\ pc' = "result_end"
    /\ messages' = Append(messages, Result(Reply.n, at))
    /\ Emit("message_end")
    /\ UNCHANGED <<pendingCalls, steering, followUp, aborted, loopVars>>
    /\ UNCHANGED <<batchVars, orphans, sent, dropped>>

NextResult ==
    /\ pc = "result_end"
    /\ mode = "parallel" /\ at < Reached
    /\ AnnounceResult(at + 1)

\* Mutation: the batch goes on past its last call.
NextCallPastEnd ==
    /\ pc = "result_end"
    /\ mode = "sequential" /\ ~aborted /\ at <= Len(calls)
    /\ StartCall(at + 1, calls)
    /\ UNCHANGED <<messages, steering, followUp, aborted, loopVars, mode>>
    /\ UNCHANGED <<orphans, sent, dropped>>

\* A sequential batch goes on to its next call unless the run is aborted.
NextCall ==
    /\ pc = "result_end"
    /\ mode = "sequential" /\ ~aborted /\ at < Len(calls)
    /\ StartCall(at + 1, calls)
    /\ UNCHANGED <<messages, steering, followUp, aborted, loopVars, mode>>
    /\ UNCHANGED <<orphans, sent, dropped>>

\* Mutation: a sequential batch may stop after any of its calls.
EndBatchEarly ==
    /\ pc = "result_end"
    /\ mode = "parallel" => at = Reached
    /\ hasMore' = TRUE
    /\ context' = context \o [i \in 1 .. Reached |-> Result(Reply.n, i)]
    /\ EndTurn("turn_end")

\* The batch ends the loop when every result asks for it; an answer given at
\* once never does.
EndBatch ==
    /\ pc = "result_end"
    /\ \/ mode = "parallel" /\ at = Reached
       \/ mode = "sequential" /\ (aborted \/ at = Len(calls))
    /\ hasMore' \in IF \E i \in DOMAIN calls : calls[i] = "immediate"
                    THEN {TRUE} ELSE BOOLEAN
    /\ context' = context \o [i \in 1 .. Reached |-> Result(Reply.n, i)]
    /\ EndTurn("turn_end")

(***************************************************************************)
(* handleRunFailure: the provider or a listener throws.                    *)
(***************************************************************************)
Listening ==
    \/ pc \in {"agent_start", "first_turn", "prompt_start", "prompt_end",
               "turn_start", "inject_start", "inject_end", "reply_start",
               "reply_end", "call_start", "call_end", "result_start",
               "result_end", "turn_end", "last_turn_end", "agent_end"}
    \/ pc = "running" /\ \E i \in DOMAIN calls : calls[i] = "ending"

\* The executions still running when their batch fails are not waited for.
RunFails ==
    /\ pc' = "fail_start"
    /\ context' = <<Message("reply", NextReply, 0,
                            IF aborted THEN "aborted" ELSE "error")>>
    /\ prompts' = <<>> /\ pending' = <<>>
    /\ orphans' = orphans \cup {CallId(i) : i \in {j \in DOMAIN calls :
                                     pc = "running" /\ calls[j] = "running"}}
    /\ calls' = <<>> /\ at' = 0
    /\ Emit("message_start")
    /\ UNCHANGED <<agentVars, skipPoll, hasMore, mode, sent, dropped>>

ListenerThrows == "listener" \in Throws /\ Listening /\ RunFails
ProviderThrows ==
    "provider" \in Throws /\ (ReadyToStream \/ pc = "reply_start") /\ RunFails

FailEnd ==
    /\ pc = "fail_start"
    /\ pc' = "fail_end"
    /\ messages' = Append(messages, Reply)
    /\ sent' = [sent EXCEPT !["reply"] = NextReply]
    /\ Emit("message_end")
    /\ UNCHANGED <<pendingCalls, steering, followUp, aborted, loopVars>>
    /\ UNCHANGED <<batchVars, orphans, dropped>>

FailTurnEnd ==
    /\ pc = "fail_end"
    /\ EndTurn("fail_turn_end")
    /\ UNCHANGED <<context, hasMore>>

FailRunEnd ==
    /\ pc = "fail_turn_end"
    /\ pc' = "fail_agent_end"
    /\ Emit("agent_end")
    /\ UNCHANGED <<agentVars, loopVars, batchVars, orphans, sent, dropped>>

\* Mutation: a second failure leaves the run active for ever.
ThrowsAgainUnfinished ==
    /\ "listener" \in Throws
    /\ pc \in {"fail_start", "fail_end", "fail_turn_end", "fail_agent_end"}
    /\ pc' = "stuck"
    /\ UNCHANGED <<agentVars, loopVars, batchVars, orphans, history>>

\* A listener that throws while the failure is reported: prompt rejects.
ThrowsAgain ==
    /\ "listener" \in Throws
    /\ pc \in {"fail_start", "fail_end", "fail_turn_end", "fail_agent_end"}
    /\ FinishRun

\* A forgotten execution ends: its event goes to the listeners of whatever
\* run is active then.
OrphanEnds(call) ==
    /\ orphans' = orphans \ {call}
    /\ pendingCalls' = pendingCalls \ {call}
    /\ log' = IF pc = "idle" THEN log ELSE Append(log, "call_end")
    /\ UNCHANGED <<pc, messages, steering, followUp, aborted, loopVars, batchVars>>
    /\ UNCHANGED <<sent, dropped>>

(***************************************************************************)
(* The specification.                                                      *)
(***************************************************************************)
Api ==
    \/ Prompt \/ ContinueSteering \/ ContinueFollowUp \/ ContinueTranscript
    \/ Steer \/ FollowUp \/ ClearQueues \/ Abort \/ Reset \/ DropFailedReply

Turns ==
    \/ FirstTurn \/ PromptStart \/ PromptEnd \/ FirstPoll
    \/ InjectStart \/ InjectEnd \/ ReplyStart \/ ReplyEnd
    \/ InterruptedTurn \/ TurnWithoutCalls
    \/ PollAfterTurn \/ NextTurn \/ PollFollowUp \/ EndRun \/ Finish

Batch ==
    \/ RunTools \/ AnswerAtOnce \/ RunCall \/ Prepare \/ PrepareNext
    \/ \E i \in DOMAIN calls : FinishCall(i) \/ CallEnded(i)
    \/ FirstResult \/ ResultEnd \/ NextResult \/ NextCall \/ EndBatch

Failure ==
    \/ ListenerThrows \/ ProviderThrows \/ FailEnd \/ FailTurnEnd
    \/ FailRunEnd \/ ThrowsAgain
    \/ \E call \in orphans : OrphanEnds(call)

Next == (Api \/ Turns \/ Batch \/ Failure) /\ UNCHANGED scenario

Spec == Init /\ [][Next]_vars

\* The event loop runs what is ready; providers, tools and listeners settle.
FairSpec == Spec /\ WF_vars((Turns \/ Batch \/ Failure) /\ UNCHANGED scenario)

(***************************************************************************)
(* Properties.                                                             *)
(***************************************************************************)
PCs == {"idle", "agent_start", "first_turn", "prompt_start", "prompt_end",
        "first_poll", "polled", "turn_start", "inject_start", "inject_end",
        "reply_start", "reply_end", "call_start", "call_end", "running",
        "result_start", "result_end", "turn_end", "last_turn_end", "agent_end",
        "fail_start", "fail_end", "fail_turn_end", "fail_agent_end"}
Stops == {"none", "error", "aborted"}
UserMessages == [kind : {"prompt", "steer", "follow"}, n : Nat, k : {0}, stop : {"none"}]
Messages == UserMessages \cup
            [kind : {"reply", "partial", "result"}, n : Nat, k : Nat, stop : Stops]
Events == {"agent_start", "agent_end", "turn_start", "turn_end",
           "message_start", "message_end", "call_start", "call_end"}
Statuses == {"todo", "started", "immediate", "prepared", "running", "ending", "done"}

ControlTypes ==
    /\ pc \in PCs
    /\ mode \in {"sequential", "parallel"}
    /\ aborted \in BOOLEAN /\ skipPoll \in BOOLEAN /\ hasMore \in BOOLEAN
MessageTypes ==
    /\ messages \in Seq(Messages) /\ context \in Seq(Messages)
    /\ steering \in Seq(UserMessages) /\ followUp \in Seq(UserMessages)
    /\ prompts \in Seq(UserMessages) /\ pending \in Seq(UserMessages)
    /\ sent \in [Kinds -> Nat]
    /\ dropped \subseteq Messages
CallTypes ==
    /\ calls \in Seq(Statuses) /\ at \in 0 .. Len(calls)
    /\ pendingCalls \subseteq Nat \X Nat /\ orphans \subseteq Nat \X Nat
\* Type invariant: every variable of the agent and its loop keeps its type.
TypeOK ==
    scenario \in Scenarios /\ ControlTypes /\ MessageTypes /\ CallTypes /\ log \in Seq(Events)

\* A user message is in one place only, and the messages of a kind reach the
\* transcript in the order they were sent, through polls, continue, aborts
\* and failures (PendingMessageQueue, runLoop, continue): what the loop has
\* in hand is older than what is queued, and newer than what it announced.
Lists == <<messages, prompts, pending, steering, followUp>>
FromUser(m) == m.kind \in {"prompt", "steer", "follow"}
InOrder ==
    \A a, b \in DOMAIN Lists : \A i \in DOMAIN Lists[a], j \in DOMAIN Lists[b] :
        LET m == Lists[a][i]
            l == Lists[b][j]
        IN (a < b \/ (a = b /\ i < j)) /\ FromUser(m) /\ m.kind = l.kind
           => m.n < l.n

Held(m) == m \in ToSet(messages) \cup ToSet(prompts) \cup ToSet(pending)
                 \cup ToSet(steering) \cup ToSet(followUp) \cup dropped

\* No prompt and no queued message disappears: until clear or reset removes
\* it, it is in the transcript, about to be announced, or in its queue, also
\* when the run is aborted or the provider fails (runLoop, continue).
NothingLost ==
    \A kind \in {"prompt", "steer", "follow"} :
        \A n \in 1 .. sent[kind] : Held(User(kind, n))

\* When the model is asked, the context the loop has built message by message
\* is the transcript the agent has built from the events (runLoop's pushes
\* against processEvents).
ContextMatches ==
    pc = "reply_start" => Front(context) = messages

\* A tool result stands at the place of its call behind the reply that made
\* the call: in call order, once, with nothing in between, whatever the order
\* in which parallel executions end (executeToolCallsParallel).
ResultsInOrder ==
    \A j \in DOMAIN messages : messages[j].kind = "result" =>
        LET i == j - messages[j].k
        IN i > 0 /\ messages[i].kind = "reply" /\ messages[i].n = messages[j].n

Answered(i) ==
    LET last == i + context[i].k
    IN last < Len(context) /\ context[last].n = context[i].n
       /\ context[last].kind \in {"reply", "result"}
\* Within a run the model is not asked to go on from a reply some of whose
\* calls have no result, unless the signal is already aborted, which ends the
\* run with that request (the breaks on signal.aborted in executeToolCalls).
CallsAnswered ==
    pc = "reply_start" /\ Last(context).stop = "none"
        /\ Cardinality({i \in DOMAIN log : log[i] = "turn_start"}) > 1
    => \A i \in DOMAIN context :
           /\ context[i].kind = "reply"
           /\ \A j \in i + 1 .. Len(context) : context[j].kind # "reply"
           => Answered(i)

\* No call is open while the model is asked or when the agent is idle
\* (processEvents, finishRun).
NoOpenCall == pc \in {"idle", "reply_start"} => pendingCalls = {}

Follows ==
    {<<"agent_start", "turn_start">>, <<"turn_start", "message_start">>,
     <<"message_start", "message_end">>, <<"message_end", "message_start">>,
     <<"message_end", "turn_end">>, <<"turn_end", "turn_start">>,
     <<"turn_end", "agent_end">>, <<"message_end", "call_start">>,
     <<"call_start", "call_start">>, <<"call_start", "call_end">>,
     <<"call_end", "call_end">>, <<"call_end", "call_start">>,
     <<"call_end", "message_start">>}
\* The events of a run nest as packages/agent/README.md draws them: turns in
\* the run, messages and tool executions in turns, nothing after agent_end.
EventsNest ==
    \A i \in 1 .. Len(log) - 1 : <<log[i], log[i + 1]>> \in Follows

\* When waitForIdle resolves, nothing of the run is executing any more.
IdleIsQuiet == pc = "idle" => orphans = {}

\* Every run ends, aborted or not, whoever throws (waitForIdle resolves).
RunEnds == pc # "idle" ~> pc = "idle"

InTools == pc \in {"call_start", "call_end", "running", "result_start", "result_end"}
Gone(m) == m \in ToSet(messages) \cup dropped
\* The n-th steering message, when it is at the head of the queue while tools
\* run, is injected in the same run, aborted or not, or cleared.
SteeringInjected(n) ==
    ("listener" \notin Throws /\ InTools /\ steering # <<>>
        /\ Head(steering) = User("steer", n))
        ~> Gone(User("steer", n))

\* Each message is in one place, in the order in which it was sent, through
\* polls, continue, aborts and failures; and unless a listener throws none is
\* lost: it is waiting, in the transcript, or was cleared (PendingMessageQueue,
\* runLoop, continue).
MessagesKept == InOrder /\ ("listener" \notin Throws => NothingLost)

\* The two copies of the transcript are equal when the model is asked.  A
\* reset in a run empties only one of them.
TranscriptsAgree == ~ResetInRun => ContextMatches

\* Results follow the reply that made their calls, in call order and with
\* nothing in between, also when listeners throw, unless a reset in a run
\* empties the transcript under them; and the model goes on only from a
\* context in which every call is answered.
CallsPaired == (~ResetInRun => ResultsInOrder) /\ CallsAnswered

\* When nobody throws, the events of a run nest as docs/rpc.md says.
EventsOfRunNest == Throws = {} => EventsNest
============================================================================
