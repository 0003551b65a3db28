--------------------------- MODULE InteractiveMode ---------------------------
(***************************************************************************)
(* The interactive mode's input (modes/interactive/interactive-mode.ts)    *)
(* and what of the session it meets: a text of the editor is prompted by   *)
(* the loop, steers a run, or waits in a queue while the session compacts; *)
(* Escape does what its handler was last set to.  A text is a sequence of  *)
(* pieces, which the user types one after another.  An agent's start and   *)
(* end reach the interface through the session's queue of events, which    *)
(* backoffs and compactions hold up.  Extension commands and input hooks   *)
(* are left out; what runs before an agent starts may take its time.       *)
(***************************************************************************)
EXTENDS Naturals, Sequences, FiniteSets, SequencesExt

CONSTANTS MaxTyped,        \* pieces
          MaxCompactions, MaxDemands, MaxSummaries, MaxRetries, MaxRuns

VARIABLES editor, typed,
          readsInput,      \* onInputCallback is defined: the loop waits for a text
          compactionQueued, \* compactionQueuedMessages
          steering, followUp,
          prompts,         \* calls of session.prompt by the loop or for the queue, and where they stand
          activeRun, runs,
          connected,       \* the session hears the agent
          agentEvents,     \* what it has not handled
          backoff, attempt, retryPromise, timers, overflowTried,
          lastMessage,     \* of the agent
          measured,        \* the last reply is younger than the last compaction
          endedBadly,      \* ghost: its last run
          compacting,      \* whose compactions are under way
          controller,      \* whose controller _autoCompactionAbortController is
          cancelled, willRetry, compactions,
          manual, demands, \* compact() waits for the run it aborted
          summary, summaries,
          escape,          \* onEscape, and what each activity has saved of it
          delivered,
          unheard, lost,   \* ghosts: pieces nobody waited for, and those that were refused or cleared
          overlapped, contended, \* ghosts: two activities at once, two that want the agent
          stranded         \* ghost: a queue has been left without a compaction

queueVars == <<compactionQueued, steering, followUp, lost, stranded>>
textVars == <<editor, typed, readsInput, delivered, unheard, queueVars>>
runVars == <<activeRun, runs, connected, agentEvents, lastMessage, measured, endedBadly>>
retryVars == <<backoff, attempt, retryPromise, overflowTried>>
compactVars == <<compacting, controller, cancelled, willRetry, compactions, manual, demands>>
summaryVars == <<summary, summaries>>
modeVars == <<textVars, prompts, runVars, retryVars, timers, compactVars, summaryVars, escape, overlapped, contended>>

NoOne == "none"
Outcomes == {"ok", "large", "retryable", "overflow", "aborted"}
Failed(outcome) == outcome \in {"retryable", "overflow"}
Compactors == {"manual", "session", "loop", "flush"}

Streaming == activeRun # "idle"
IsCompacting == controller # NoOne \/ "manual" \in compacting \/ summary # "none"
\* The handler of agent_end waits out a backoff or a compaction.
HandlerBusy == backoff \/ "session" \in compacting

Pieces(texts) == UNION {ToSet(texts[i]) : i \in DOMAIN texts}
Texts(messages, mode) ==
  LET ofMode == SelectSeq(messages, LAMBDA m : m.mode = mode)
  IN [i \in DOMAIN ofMode |-> ofMode[i].text]
AllTexts(messages) == [i \in DOMAIN messages |-> messages[i].text]

ModeInit ==
  /\ editor = <<>> /\ typed = 0 /\ readsInput = TRUE
  /\ compactionQueued = <<>> /\ steering = <<>> /\ followUp = <<>> /\ prompts = {}
  /\ activeRun = "idle" /\ runs = 0 /\ connected = TRUE /\ agentEvents = <<>>
  /\ lastMessage = "none" /\ measured = FALSE /\ endedBadly = FALSE
  /\ backoff = FALSE /\ attempt = 0 /\ retryPromise = FALSE /\ overflowTried = FALSE /\ timers = {}
  /\ compacting = {} /\ controller = NoOne /\ cancelled = {} /\ willRetry = FALSE /\ compactions = 0
  /\ manual = FALSE /\ demands = 0
  /\ summary = "none" /\ summaries = 0
  /\ escape = [on |-> "main", compaction |-> NoOne, retry |-> NoOne, summary |-> NoOne]
  /\ delivered = {} /\ unheard = {} /\ lost = {} /\ overlapped = FALSE /\ contended = FALSE /\ stranded = FALSE

---------------------------------------------------------------------------
(* The handler of Escape: what an activity finds it saves, and puts back when it ends. *)

Saves(e, who) == [e EXCEPT ![who] = e.on, !.on = who]
PutsBack(e, who) == IF e[who] = NoOne THEN e ELSE [e EXCEPT !.on = e[who], ![who] = NoOne]

---------------------------------------------------------------------------
(* Calls of prompt. *)

\* Those that return make the loop listen again.
SetPrompts(ps) ==
  /\ prompts' = ps
  /\ readsInput' = (readsInput \/ ((\E p \in prompts : p.by = "loop") /\ ~\E p \in ps : p.by = "loop"))

Prompt(by, text, queued, at) == [by |-> by, text |-> text, queued |-> queued, at |-> at]
Moves(ps, from, to) == {IF p.at = from THEN [p EXCEPT !.at = to] ELSE p : p \in ps}
\* _resolveRetry: waitForRetry goes on into waitForIdle.
Released(ps) == IF Streaming THEN Moves(ps, "retrying", "idling") ELSE {p \in ps : p.at # "retrying"}

\* agent.prompt and agent.continue, with the poll of steering messages that starts a run.
StartRun(texts) ==
  /\ activeRun' = "turn" /\ runs' = runs + 1
  /\ agentEvents' = IF connected THEN Append(agentEvents, IF texts = <<>> THEN "start" ELSE "message") ELSE agentEvents
  /\ delivered' = delivered \cup Pieces(texts)
  /\ lastMessage' = IF texts = <<>> THEN lastMessage ELSE "user"
Polled == IF steering = <<>> THEN <<>> ELSE <<Head(steering)>>
Rest(queue) == IF queue = <<>> THEN <<>> ELSE Tail(queue)

\* _checkCompaction in a prompt's preflight may find that the last reply was large.
MayCompact == compactions < MaxCompactions /\ measured

---------------------------------------------------------------------------
(* The end of a compaction, and the queue it flushes. *)

\* Mutation: the queue is sent without being emptied.
FlushForRetryAgain ==
  /\ steering' = steering \o Texts(compactionQueued, "steer")
  /\ followUp' = followUp \o Texts(compactionQueued, "followUp")
  /\ UNCHANGED <<compactionQueued, lost, stranded>>
\* flushCompactionQueue, when the agent will go on by itself: everything is queued for it.
FlushForRetry ==
  /\ steering' = steering \o Texts(compactionQueued, "steer")
  /\ followUp' = followUp \o Texts(compactionQueued, "followUp")
  /\ compactionQueued' = <<>>
  /\ UNCHANGED <<lost, stranded>>

\* restoreQueue: the session's queues are cleared, whoever filled them.
RestoreQueue(queued, since) ==
  /\ compactionQueued' = queued
  /\ steering' = Texts(since, "steer") /\ followUp' = Texts(since, "followUp")
  /\ lost' = lost \cup ((Pieces(steering) \cup Pieces(followUp) \cup Pieces(AllTexts(compactionQueued)))
                          \ Pieces(AllTexts(queued)))
  /\ stranded' = TRUE

\* The first of the queue is prompted, the others steer it or follow; a prompt during a run is refused, before
\* the second of the others is queued.
Flush(ps, retry, compacts) ==
  IF compactionQueued = <<>>
  THEN ~compacts /\ SetPrompts(ps) /\ UNCHANGED <<compactionQueued, steering, followUp, lost, stranded>>
  ELSE IF retry
  THEN ~compacts /\ SetPrompts(ps) /\ FlushForRetry
  ELSE IF Streaming
  THEN ~compacts /\ SetPrompts(ps) /\ RestoreQueue(compactionQueued, SubSeq(compactionQueued, 3, Len(compactionQueued)))
  ELSE /\ SetPrompts(ps \cup {Prompt("flush", Head(compactionQueued).text, compactionQueued,
                                     IF compacts THEN "compacting" ELSE "hooks")})
       /\ steering' = steering \o Texts(Tail(compactionQueued), "steer")
       /\ followUp' = followUp \o Texts(Tail(compactionQueued), "followUp")
       /\ compactionQueued' = <<>>
       /\ UNCHANGED <<lost, stranded>>

CompactionStarts(e) == Saves(e, "compaction")
\* Mutation: the handler it found is not put back.
CompactionEndsHandled(e, compacts) == IF compacts THEN CompactionStarts(e) ELSE e
CompactionEnds(e, compacts) ==
  LET ended == PutsBack(e, "compaction") IN IF compacts THEN CompactionStarts(ended) ELSE ended

\* It fails when it was cancelled, or when another compaction's end has cleared the controller it reads.
\* The prompt that its end flushes may compact again: if it is an automatic one that ends, the new one's
\* controller is cleared at once.
EndCompaction(who, done, compacts) ==
  /\ who \in compacting
  /\ done => who \notin cancelled /\ (who # "manual" => controller \notin cancelled \cup {NoOne})
  /\ compacts => ~done /\ MayCompact
  /\ LET retry == done /\ who = "session" /\ willRetry
         ps == {IF p.by = who /\ p.at = "compacting" THEN [p EXCEPT !.at = "hooks"] ELSE p : p \in prompts}
     IN /\ Flush(ps, retry, compacts)
        /\ timers' = timers \cup (IF retry THEN {"overflow"} ELSE {})
                            \cup (IF done /\ ~retry /\ who # "manual" /\ (steering' # <<>> \/ followUp' # <<>>)
                                  THEN {"queued"} ELSE {})
        /\ lastMessage' = IF retry THEN "user" ELSE IF done THEN "assistant" ELSE lastMessage
        /\ measured' = (measured /\ ~done)
  /\ escape' = CompactionEnds(escape, compacts)
  /\ compacting' = (compacting \ {who}) \cup (IF compacts THEN {"flush"} ELSE {})
  /\ compactions' = IF compacts THEN compactions + 1 ELSE compactions
  /\ controller' = IF who # "manual" THEN NoOne ELSE IF compacts THEN "flush" ELSE controller
  /\ cancelled' = cancelled \ {who}
  /\ willRetry' = (willRetry /\ who # "session")
  /\ connected' = (connected \/ who = "manual")
  /\ UNCHANGED <<editor, typed, delivered, unheard, activeRun, runs, agentEvents, endedBadly, retryVars, manual,
                 demands, summaryVars>>

\* _runAutoCompaction, up to its first wait.
StartAutoCompaction(who, e) ==
  /\ compacting' = compacting \cup {who} /\ controller' = who /\ compactions' = compactions + 1
  /\ escape' = CompactionStarts(e)
NoAutoCompaction(e) == escape' = e /\ UNCHANGED <<compacting, controller, compactions>>

---------------------------------------------------------------------------
(* The keys. *)

Type ==
  /\ typed < MaxTyped
  /\ typed' = typed + 1 /\ editor' = Append(editor, typed')
  /\ UNCHANGED <<readsInput, compactionQueued, steering, followUp, delivered, unheard, lost, stranded, prompts,
                 runVars, retryVars, timers, compactVars, summaryVars, escape>>

\* Enter or Alt+Enter.  A text that nobody waits for is gone, but for the editor's history.
Submit(mode, compacts) ==
  /\ editor # <<>> /\ editor' = <<>>
  /\ compacts => MayCompact /\ ~IsCompacting /\ ~Streaming /\ readsInput
  /\ IF IsCompacting
     THEN /\ compactionQueued' = Append(compactionQueued, [text |-> editor, mode |-> mode])
          /\ UNCHANGED <<steering, followUp, readsInput, prompts, unheard>>
     ELSE IF Streaming
     THEN /\ IF mode = "steer" THEN steering' = Append(steering, editor) /\ UNCHANGED followUp
             ELSE followUp' = Append(followUp, editor) /\ UNCHANGED steering
          /\ UNCHANGED <<compactionQueued, readsInput, prompts, unheard>>
     ELSE /\ IF readsInput
             THEN /\ prompts' = prompts \cup {Prompt("loop", editor, <<>>, IF compacts THEN "compacting" ELSE "hooks")}
                  /\ readsInput' = FALSE /\ UNCHANGED unheard
             ELSE unheard' = unheard \cup ToSet(editor) /\ UNCHANGED <<prompts, readsInput>>
          /\ UNCHANGED <<compactionQueued, steering, followUp>>
  /\ IF compacts THEN StartAutoCompaction("loop", escape) ELSE NoAutoCompaction(escape)
  /\ UNCHANGED <<typed, delivered, lost, stranded, runVars, retryVars, timers, cancelled, willRetry, manual,
                 demands, summaryVars>>

\* Mutation: what waits for a compaction is cleared and not restored.
RestoredOfSession == FlattenSeq(steering \o followUp)
\* restoreQueuedMessagesToEditor: all that is queued, in front of what the editor holds.
Restored == FlattenSeq(steering \o Texts(compactionQueued, "steer") \o followUp \o Texts(compactionQueued, "followUp"))
RestoreToEditor ==
  /\ editor' = Restored \o editor
  /\ steering' = <<>> /\ followUp' = <<>> /\ compactionQueued' = <<>>

Dequeue ==
  /\ Restored # <<>> /\ RestoreToEditor
  /\ UNCHANGED <<typed, readsInput, delivered, unheard, lost, stranded, prompts, runVars, retryVars, timers,
                 compactVars, summaryVars, escape>>

\* abortRetry: a backoff ends and resolves the promise, and agent_end's handler goes on to its check of
\* compaction; without a backoff the promise alone is resolved.
AbortRetry(compacts) ==
  /\ backoff' = FALSE /\ retryPromise' = FALSE
  /\ attempt' = IF backoff THEN 0 ELSE attempt
  /\ SetPrompts(IF retryPromise THEN Released(prompts) ELSE prompts)
  /\ compacts => backoff /\ MayCompact
  /\ LET e == IF backoff THEN PutsBack(escape, "retry") ELSE escape
     IN IF compacts THEN StartAutoCompaction("session", e) ELSE NoAutoCompaction(e)

EscapeRun ==
  /\ escape.on = "main" /\ Streaming
  /\ RestoreToEditor /\ activeRun' = "aborted"
  /\ UNCHANGED <<typed, readsInput, delivered, unheard, lost, stranded, prompts, runs, connected, agentEvents,
                 lastMessage, measured, endedBadly, retryVars, timers, compactVars, summaryVars, escape>>
\* abortCompaction.
EscapeCompaction ==
  /\ escape.on = "compaction"
  /\ cancelled' = cancelled \cup ((compacting \cap {"manual"}) \cup ({controller} \ {NoOne}))
  /\ UNCHANGED <<textVars, prompts, runVars, retryVars, timers, compacting, controller, willRetry, compactions,
                 manual, demands, summaryVars, escape>>
EscapeRetry(compacts) ==
  /\ escape.on = "retry"
  /\ AbortRetry(compacts)
  /\ UNCHANGED <<editor, typed, compactionQueued, steering, followUp, delivered, unheard, lost, stranded, runVars,
                 overflowTried, timers, cancelled, willRetry, manual, demands, summaryVars>>
EscapeSummary ==
  /\ escape.on = "summary" /\ summary = "running"
  /\ summary' = "cancelled"
  /\ UNCHANGED <<textVars, prompts, runVars, retryVars, timers, compactVars, summaries, escape>>

---------------------------------------------------------------------------
(* Compaction on demand, and the summary of a branch one leaves. *)

\* compact aborts a run and waits for its end, or begins at once; the session hears the agent no more.
AskCompaction(compacts) ==
  /\ ~manual /\ "manual" \notin compacting /\ demands < MaxDemands /\ lastMessage # "none"
  /\ demands' = demands + 1 /\ connected' = FALSE
  /\ backoff' = FALSE /\ retryPromise' = FALSE
  /\ attempt' = IF backoff THEN 0 ELSE attempt
  /\ SetPrompts(IF retryPromise THEN Released(prompts) ELSE prompts)
  /\ compacts => backoff /\ MayCompact
  /\ controller' = IF compacts THEN "session" ELSE controller
  /\ compactions' = IF compacts THEN compactions + 1 ELSE compactions
  /\ manual' = Streaming /\ activeRun' = IF Streaming THEN "aborted" ELSE activeRun
  /\ compacting' = compacting \cup (IF compacts THEN {"session"} ELSE {}) \cup (IF Streaming THEN {} ELSE {"manual"})
  /\ LET e == IF backoff THEN PutsBack(escape, "retry") ELSE escape
         f == IF compacts THEN CompactionStarts(e) ELSE e
     IN escape' = IF Streaming THEN f ELSE CompactionStarts(f)
  /\ UNCHANGED <<editor, typed, compactionQueued, steering, followUp, delivered, unheard, lost, stranded, runs,
                 agentEvents, lastMessage, measured, endedBadly, overflowTried, timers, cancelled, willRetry,
                 summaryVars>>

StartSummary ==
  /\ summary = "none" /\ summaries < MaxSummaries /\ lastMessage # "none"
  /\ summary' = "running" /\ summaries' = summaries + 1
  /\ escape' = Saves(escape, "summary")
  /\ UNCHANGED <<textVars, prompts, runVars, retryVars, timers, compactVars>>

\* Only a summary that succeeds flushes the queue, on a branch whose last reply may be large; the
\* handler it found is put back behind that.
EndSummary(done, compacts) ==
  /\ summary # "none" /\ (done => summary = "running")
  /\ summary' = "none"
  /\ compacts => done /\ compactions < MaxCompactions
  /\ IF done THEN Flush(prompts, FALSE, compacts)
     ELSE /\ stranded' = (stranded \/ compactionQueued # <<>>)
          /\ UNCHANGED <<compactionQueued, steering, followUp, lost, prompts, readsInput>>
  /\ lastMessage' = IF done THEN "user" ELSE lastMessage
  /\ IF compacts
     THEN /\ compacting' = compacting \cup {"flush"} /\ controller' = "flush" /\ compactions' = compactions + 1
          /\ escape' = PutsBack(CompactionStarts(escape), "summary")
     ELSE NoAutoCompaction(PutsBack(escape, "summary"))
  /\ UNCHANGED <<editor, typed, delivered, unheard, summaries, activeRun, runs, connected, agentEvents, measured,
                 endedBadly, retryVars, timers, cancelled, willRetry, manual, demands>>

---------------------------------------------------------------------------
(* The agent. *)

\* What runs before an agent starts is done: agent.prompt, which refuses during a run.  The loop shows the error;
\* for the queue all of it is restored.
SendPrompt(p) ==
  /\ p \in prompts /\ p.at = "hooks"
  /\ IF ~Streaming
     THEN /\ runs < MaxRuns /\ StartRun(<<p.text>> \o Polled)
          /\ steering' = Rest(steering)
          /\ prompts' = (prompts \ {p}) \cup {Prompt(p.by, <<>>, <<>>, "running")}
          /\ UNCHANGED <<readsInput, compactionQueued, followUp, lost, stranded>>
     ELSE /\ SetPrompts(prompts \ {p})
          /\ IF p.by = "flush" THEN RestoreQueue(p.queued, <<>>)
             ELSE lost' = lost \cup ToSet(p.text) /\ UNCHANGED <<compactionQueued, steering, followUp, stranded>>
          /\ UNCHANGED <<activeRun, runs, agentEvents, delivered, lastMessage>>
  /\ UNCHANGED <<editor, typed, unheard, connected, measured, endedBadly, retryVars, timers, compactVars,
                 summaryVars, escape>>

\* agent.continue, from a timer.  It is refused during a run, and when the last message is a reply and nothing is
\* queued.
Continue(timer) ==
  /\ timer \in timers /\ timers' = timers \ {timer}
  /\ LET follows == lastMessage = "assistant" /\ steering = <<>>
     IN IF Streaming \/ (follows /\ followUp = <<>>)
        THEN UNCHANGED <<activeRun, runs, agentEvents, delivered, lastMessage, steering, followUp>>
        ELSE /\ runs < MaxRuns
             /\ StartRun(IF follows THEN <<Head(followUp)>> ELSE Polled)
             /\ steering' = Rest(steering) /\ followUp' = IF follows THEN Tail(followUp) ELSE followUp
  /\ UNCHANGED <<editor, typed, readsInput, compactionQueued, unheard, lost, stranded, prompts, connected, measured,
                 endedBadly, retryVars, compactVars, summaryVars, escape>>

\* A reply: behind a good one the agent goes on with what is queued, otherwise the run ends, and the compaction that
\* waited for it begins.  The caller of the run waits for a retry that was announced before.
Reply(outcome) ==
  /\ Streaming /\ (activeRun = "aborted" <=> outcome = "aborted")
  /\ IF outcome \in {"ok", "large"} /\ (steering # <<>> \/ followUp # <<>>)
     THEN LET next == IF steering # <<>> THEN Head(steering) ELSE Head(followUp)
          IN /\ delivered' = delivered \cup ToSet(next)
             /\ steering' = Rest(steering) /\ followUp' = IF steering # <<>> THEN followUp ELSE Tail(followUp)
             /\ agentEvents' = IF connected THEN Append(agentEvents, "reply") ELSE agentEvents
             /\ UNCHANGED <<activeRun, lastMessage, prompts, readsInput, retryPromise, manual, compacting, escape>>
     ELSE /\ activeRun' = "idle" /\ lastMessage' = "assistant"
          /\ manual' = FALSE
          /\ IF manual THEN compacting' = compacting \cup {"manual"} /\ escape' = CompactionStarts(escape)
             ELSE UNCHANGED <<compacting, escape>>
          /\ agentEvents' = IF connected THEN Append(agentEvents, outcome) ELSE agentEvents
          /\ retryPromise' = (retryPromise \/ (connected /\ outcome = "retryable"))
          /\ SetPrompts(LET ps == {p \in prompts : p.at # "idling"}
                        IN IF retryPromise' THEN Moves(ps, "running", "retrying") ELSE {p \in ps : p.at # "running"})
          /\ UNCHANGED <<delivered, steering, followUp>>
  /\ measured' = TRUE /\ endedBadly' = (outcome \notin {"ok", "large"})
  /\ UNCHANGED <<editor, typed, compactionQueued, unheard, lost, stranded, runs, connected, backoff, attempt,
                 overflowTried, timers, demands, controller, cancelled, willRetry, compactions, summaryVars>>

---------------------------------------------------------------------------
(* The session's handling of the agent's start and end, in their order. *)

Takes(types) ==
  /\ ~HandlerBusy /\ agentEvents # <<>> /\ Head(agentEvents) \in types
  /\ agentEvents' = Tail(agentEvents)
unmovedVars == <<editor, typed, delivered, unheard, activeRun, runs, connected, measured,
                 endedBadly, timers, cancelled, manual, demands, summaryVars>>

\* agent_start, and a good reply behind a failed one, put back the handler a retry has found; a user's message may
\* overflow anew, and a good reply ends a series of retries.
TakeMessage ==
  /\ Takes({"start", "message", "reply"})
  /\ escape' = IF Head(agentEvents) = "reply" /\ attempt = 0 THEN escape ELSE PutsBack(escape, "retry")
  /\ overflowTried' = (overflowTried /\ Head(agentEvents) = "start")
  /\ attempt' = IF Head(agentEvents) = "reply" THEN 0 ELSE attempt
  /\ UNCHANGED <<unmovedVars, queueVars, readsInput, prompts, lastMessage, backoff, retryPromise, compacting,
                 controller, compactions, willRetry>>

\* agent_end: the promise is resolved, and the session may compact.  After an overflow it does so once, and then goes
\* on; a reply that failed with an error may have followed a large one.
TakeEnd(compacts) ==
  /\ Takes(Outcomes)
  /\ LET outcome == Head(agentEvents)
         overflow == outcome = "overflow" /\ measured
         retry == overflow /\ ~overflowTried
         e == IF attempt > 0 /\ (outcome = "retryable" \/ ~Failed(outcome)) THEN PutsBack(escape, "retry") ELSE escape
     IN /\ outcome = "retryable" => attempt >= MaxRetries
        /\ compacts => MayCompact
        /\ outcome # "retryable" => (compacts <=> (outcome = "large" /\ measured) \/ retry)
        /\ attempt' = IF outcome = "overflow" THEN attempt ELSE 0
        /\ overflowTried' = IF overflow THEN TRUE ELSE overflowTried /\ Failed(outcome)
        /\ willRetry' = retry
        /\ lastMessage' = IF retry THEN "user" ELSE lastMessage
        /\ IF compacts THEN StartAutoCompaction("session", e)
           ELSE NoAutoCompaction(IF overflow THEN PutsBack(e, "compaction") ELSE e)
        /\ LET ps == IF retryPromise THEN Released(prompts) ELSE prompts
           IN IF overflow /\ ~retry THEN Flush(ps, FALSE, FALSE) ELSE SetPrompts(ps) /\ UNCHANGED queueVars
  /\ retryPromise' = FALSE
  /\ UNCHANGED <<unmovedVars, backoff>>

\* _handleRetryableError, up to its wait: the failed reply leaves the agent's messages.
TakeRetryable ==
  /\ Takes({"retryable"}) /\ attempt < MaxRetries
  /\ backoff' = TRUE /\ attempt' = attempt + 1 /\ retryPromise' = TRUE
  /\ escape' = Saves(escape, "retry")
  /\ lastMessage' = IF lastMessage = "assistant" THEN "user" ELSE lastMessage
  /\ UNCHANGED <<unmovedVars, queueVars, readsInput, prompts, overflowTried, compacting, controller, compactions,
                 willRetry>>

EndBackoff ==
  /\ backoff /\ backoff' = FALSE
  /\ timers' = timers \cup {"retry"}
  /\ UNCHANGED <<textVars, prompts, runVars, attempt, retryPromise, overflowTried, compactVars, summaryVars,
                 escape>>

---------------------------------------------------------------------------
(* What is under way, for the ghosts. *)

Activities ==
  compacting \cup {x \in {"run"} : Streaming} \cup {x \in {"retry"} : backoff \/ x \in timers}
    \cup {x \in {"summary"} : summary # "none" \/ escape.compaction = x}
\* Two are, or one besides a run begins before the agent's events have been handled.
Overlap == Cardinality(Activities) > 1 \/ (agentEvents # <<>> /\ Activities \ {"run"} # {})
\* Of those who have the agent, or will ask for it, there are several.
Contention ==
  LET asking == {p \in prompts : p.at \in {"compacting", "hooks"}}
  IN asking # {} /\ (Streaming \/ timers # {} \/ Cardinality(asking) > 1)

Steps ==
  \/ Type \/ Dequeue \/ EscapeRun \/ EscapeCompaction \/ EscapeSummary \/ StartSummary
  \/ TakeMessage \/ TakeRetryable \/ EndBackoff
  \/ \E mode \in {"steer", "followUp"}, compacts \in BOOLEAN : Submit(mode, compacts)
  \/ \E compacts \in BOOLEAN : EscapeRetry(compacts) \/ AskCompaction(compacts) \/ TakeEnd(compacts)
  \/ \E done, compacts \in BOOLEAN :
       EndSummary(done, compacts) \/ \E who \in Compactors : EndCompaction(who, done, compacts)
  \/ \E p \in prompts : SendPrompt(p)
  \/ \E timer \in timers : Continue(timer)
  \/ \E outcome \in Outcomes : Reply(outcome)

ModeNext ==
  /\ Steps
  /\ overlapped' = (overlapped \/ Overlap')
  /\ contended' = (contended \/ Contention')

---------------------------------------------------------------------------
\* Type invariant.
ModeTypeOK ==
  /\ typed \in 0..MaxTyped /\ \A i \in DOMAIN editor : editor[i] \in 1..typed
  /\ \A i \in DOMAIN compactionQueued : compactionQueued[i].mode \in {"steer", "followUp"}
  /\ delivered \cup unheard \cup lost \subseteq 1..typed
  /\ \A p \in prompts : p.by \in {"loop", "flush"} /\ p.at \in {"compacting", "hooks", "running", "retrying", "idling"}
  /\ activeRun \in {"idle", "turn", "aborted"} /\ runs \in 0..MaxRuns
  /\ ToSet(agentEvents) \subseteq Outcomes \cup {"start", "message", "reply"}
  /\ compacting \subseteq Compactors /\ controller \in Compactors \cup {NoOne} /\ cancelled \subseteq compacting
  /\ timers \subseteq {"retry", "overflow", "queued"} /\ attempt \in 0..MaxRetries
  /\ compactions \in 0..MaxCompactions /\ demands \in 0..MaxDemands /\ summaries \in 0..MaxSummaries
  /\ summary \in {"none", "running", "cancelled"}
  /\ lastMessage \in {"none", "user", "assistant"}
  /\ escape.on \in {"main", "compaction", "retry", "summary"}
  /\ {readsInput, connected, backoff, retryPromise, overflowTried, willRetry, manual, overlapped, contended, stranded}
       \subseteq BOOLEAN

\* Where a piece is.
Places(i) ==
  {<<"editor", k>> : k \in {k \in DOMAIN editor : editor[k] = i}}
    \cup {<<"queued", k>> : k \in {k \in DOMAIN compactionQueued : i \in ToSet(compactionQueued[k].text)}}
    \cup {<<"steering", k>> : k \in {k \in DOMAIN steering : i \in ToSet(steering[k])}}
    \cup {<<"followUp", k>> : k \in {k \in DOMAIN followUp : i \in ToSet(followUp[k])}}
    \cup {<<"prompt", p.by, p.queued>> : p \in {p \in prompts : i \in ToSet(p.text)}}
    \cup {<<"sent", k>> : k \in {i} \cap delivered}

\* Each piece typed is in one place, from the editor through the queues to the agent and back, unless nobody waited
\* for it: as long as two do not contend for the agent, or act at once, none is lost and none is sent twice; and
\* where they do, none but those refused, or cleared with a queue.
TextsKept ==
  /\ \A i \in (1..typed) \ unheard : Places(i) # {} \/ i \in lost
  /\ ~contended /\ ~overlapped => \A i \in 1..typed : Cardinality(Places(i)) = IF i \in unheard THEN 0 ELSE 1

\* What is queued for the agent has a run, or somebody who will start one, unless the last run failed or was aborted.
QueuesAreSent ==
  steering # <<>> \/ followUp # <<>> => Streaming \/ timers # {} \/ prompts # {} \/ backoff \/ contended \/ endedBadly

\* A queue waits for a compaction or a summary whose end flushes it, unless one failed to.
QueueIsFlushed == compactionQueued # <<>> => IsCompacting \/ stranded

\* Escape interrupts what is under way, unless two activities met.
EscapeFits ==
  ~overlapped /\ agentEvents = <<>> =>
    escape.on = CASE compacting # {} -> "compaction"
                  [] summary # "none" -> "summary"
                  [] backoff \/ "retry" \in timers -> "retry"
                  [] OTHER -> "main"
=============================================================================
