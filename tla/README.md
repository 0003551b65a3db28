# LumenCli: TLA+ models and proofs

LumenCli is a coding agent for the terminal: a language model is asked for a
reply, the reply asks for tool calls, the results go back to the model, and all
of it is kept in a session file.  This directory holds TLA+ modules for the
parts of that program whose correctness depends on the order of events, the TLC
configurations that check them on small instances, and proofs for TLAPS.

Paths are relative to the repository.  `core/` is `packages/coding-agent/src/core/`.

| module | models | checked by | proved in |
|---|---|---|---|
| `AgentLoop` | `packages/agent/src/agent.ts`, `agent-loop.ts` | `MCAgentLoop` | `AgentLoopProofs` |
| `SessionManager` | `core/session-manager.ts` | `MCSessionManager` | `SessionManagerProofs` |
| `AgentSession` | `core/agent-session.ts` | `MCAgentSession` | `AgentSessionProofs` |
| `SequenceFilter` | the filter of arrays, as the two modules above use it | with them | `SequenceLemmas` |
| `FileMutationQueue` | `core/tools/file-mutation-queue.ts`, `write.ts`, `edit.ts` | `MCFileMutationQueue` | `FileMutationQueueProofs` |
| `KeyedMutex` | what the file mutation queue promises | `MCFileMutationQueue` | `FileMutationQueueProofs` |
| `AuthStorage` | the credentials shared by several processes | `Services` | `ServicesProofs` |
| `SettingsManager` | the settings shared by several processes | `Services` | `ServicePartsProofs`, `ServicesProofs` |
| `LspClient`, `WireTrace`, `SessionRuntime`, `SubAgentTask` | other services around the session | `Services` | `ServicesProofs` |
| `Compaction` | the cut of a compaction | `Services` | `ServicesProofs` |
| `BashOutput` | the output of commands | `Services` | `ServicePartsProofs`, `ServicesProofs` |
| `Services` | the eight services, one at a time | `MCServices` | `ServicesProofs`, `ServicePartsProofs` |
| `TuiRender`, `RenderSchedule`, `StdinBuffer` | the terminal interface's output and input | `MCClients` | not yet |
| `EditorLayout`, `Editor`, `EditorAutocomplete` | the text editor of the terminal interface | `MCClients` | not yet |
| `InteractiveMode` | the texts, queues and Escape key of `modes/interactive/interactive-mode.ts` | `MCClients` | not yet |
| `RpcClient`, `AgentHarness` | the ways to embed an agent | `Embedded` | `EmbeddedProofs` |
| `Embedded` | the two, one at a time | `MCClients` | `EmbeddedProofs` |

A module of the program is written for any values of its constants; the `MC`
modules give them small ones.  A run of an `MC` module has several scenarios or
parts: its initial states choose one, and a behaviour stays in it, so the states
of a run are those of its scenarios one after the other, not their product.

Run `tlc -config <name>.cfg <MC module>.tla` and `tlapm <Proofs module>.tla`.
`PROJECT.json` lists runs, mutants, hazards and the source lines of each
definition.

## 1. Inventory

### The parts and how they interact

    terminal, RPC or print mode
          | prompt, steer, abort, compact            ^ events
          v                                          |
    AgentSession  --- appendMessage, branch --->  SessionManager ---> JSONL file
          | prompt, continue, abort, reset           ^ buildSessionContext
          v                                          |
    Agent  <--- events, awaited one by one ---  agent loop  ---> provider (HTTP)
      queues: steering, follow-up                    |
                                                     v  parallel or in sequence
                                        tools: read, write, edit, bash, task, ...
                                                     |
                                        withFileMutationQueue ---> files

One process, one thread: code runs from one `await` to the next without being
disturbed, and anything may run in between.  What is hard is therefore not data
races on words of memory but state read before an `await` and used after it,
queues drained by two parties, promises that reject while others are still
pending, and the death of the process between two writes.

| component | state | operations | hard behaviour | correct when |
|---|---|---|---|---|
| Agent and loop (`packages/agent/src`) | transcript, pending calls, two queues, active run; the loop's own copy of the context, its pending messages, the batch | prompt, continue, steer, followUp, clear, abort, reset; the turns of the loop | API calls at every await; parallel tools ending in any order; listeners and providers that throw | no message lost, doubled or out of order; results stand behind their call, in order; context = transcript; every run ends |
| SessionManager | entries, leaf, labels, flushed flag; lines of files | append (message, compaction, label, summary), branch, branched session, fork, open, reload | late first flush, death inside a write, dropped labels, several compactions on a path | the file reopens as the session; every chain leads to a root; context changes only by what was appended |
| File mutation queue | registration chain, map of promise chains by real path | withFileMutationQueue, write, edit | realpath awaited before registration, links, abort during a write | one call per file at a time, in call order; no lost update; no leaked entry |
| AgentSession (`core/agent-session.ts`) | queue of events, retry promise, attempt counter and backoff, compaction controllers, pending bash results, mirrored queues for the display | prompt, steer, compact, abort, fork, navigate, bash | handlers run behind the agent; retries and compactions restart it from timers | session file and transcript agree when idle; a caller waiting for a retry is answered; an abort ends retries |
| Compaction (`core/compaction`) | none (pure) | prepare, findCutPoint, summarise | boundaries: tool results cannot start the kept part | what is kept is within the budget and starts at a valid entry |
| Session runtime (`core/agent-session-runtime.ts`) | the current session | new, switch, fork | a failure halfway; a run still active | there is always one live session |
| Auth storage (`core/auth-storage.ts`) | locked JSON file, in-memory copy | get, set, refresh under lock | several processes, compromised locks, partial writes | one refresh per token; no credential lost |
| Settings manager | global and project settings, modified fields, write queue | set, reload, flush | reload racing queued writes, another process's changes | a set survives; foreign fields survive |
| Model registry, resolver | tables, configuration | lookups | none between actors | sequential |
| Resources, packages, skills | paths, caches | load, install | network, file system | sequential |
| Extensions, event bus | handlers | load, emit | handlers run inside the session's steps | errors are contained |
| Bash, output accumulator | rolling tail, counters, temporary file | append, snapshot, finish | cuts inside characters and lines | counters and tail agree with the whole output |
| Edit matching, patches | none (pure) | match, apply, diff | several edits of one text | pure |
| Read, grep, find, ls | none | execute | none | pure |
| Todo list | phases and tasks | start, done, drop, append, ... | long sequences of operations | at most one task in progress |
| Sub-agent task | one Agent per task, progress map | execute, abort | abort before a run; waiting for all | every task is reported once |
| LSP client | process, pending requests, broken servers | getOrCreate, request | timeouts, death, use before initialization | every request settles once |
| Wire trace (`core/wire`) | buffer, timer, flushing flag | append, flush, final flush | flushes that overlap | lines once and in order |
| Output guard | chain of writes | write, flush | full pipes | chunks in order |
| RPC mode | pending requests | request, event, response | timeouts, late answers | every request settles once |
| Interactive mode (`modes/interactive`) | the editor's text, the queue of texts that wait for a compaction, the saved handlers of Escape | submit, dequeue, Escape, compact on demand, leave a branch | a text may go to the loop, to a run or to a queue, and the answer changes while it waits; activities save and put back one handler | a text is in one place and has somebody to send it; Escape stops what is under way |
| Print mode | none | print | mostly layout | |
| Agent harness (`packages/agent/src/harness`) | phase, pending writes | prompt, flush | reentrancy | not used by the command line |
| Proxy, event stream, providers (`packages/ai`) | queue of events, waiters | push, end, iterate | end without a result | a consumer sees every event once |
| Terminal UI (`packages/tui`) | lines last rendered, input buffer | keys, render | timer against split sequences; a screen that is only reckoned | no key lost; the screen shows the content |
| Text editor (`packages/tui/src/components/editor.ts`) | text and cursor, undo stack, kill ring, history, pastes behind their markers, the list of completions | every key | keys whose meaning depends on the last one; markers that wrap; answers of a provider while one types on | the cursor is in the text; each change is undone by one undo; a list is for what stands before the cursor |

`PROJECT.json` names the files of each and the hazards at their lines.

### Where the models meet

The modules are separate where the code separates its parts by narrow
interfaces.  `AgentLoop` has the event sequence that AgentSession turns into
`appendMessage` calls; `SessionManager` takes appends in any order on any
branch, which includes every order the loop produces; `FileMutationQueue` takes
calls at any time with aborts at any await, which includes every way
`AgentLoop` runs a batch in parallel and is aborted.

`AgentSession` composes them: it has an agent that runs, emits and ends as
`AgentLoop` says (a run is a prompt, replies and an end; the tools of a reply
are part of it), and a session log that is the path of one branch, whose context
is computed as `SessionManager` does.  When it compacts is its subject; where
the cut falls is that of `Compaction`; what the entry does to the context is
checked in `SessionManager`.  `SessionRuntime` replaces whole sessions and needs
of them only that they start and end; `SubAgentTask` has runs of agents of which
only the outcome matters; `AgentHarness` is a second driver over the same loop,
for other programs.

## 2. AgentLoop

One Agent and its loop.  `pc` is the `await` the active run stands at, nearly
always "the listeners of this event have not settled"; an action is the code
from one await to the next, so the places where other code can run are exactly
the places where an action ends.

| code | model |
|---|---|
| `_state.messages`, `pendingToolCalls`, queues, abort signal | `messages`, `pendingCalls`, `steering`, `followUp`, `aborted` |
| `currentContext.messages`, `pendingMessages`, `hasMoreToolCalls`, `skipInitialSteeringPoll` | `context`, `pending`, `hasMore`, `skipPoll` |
| `prompt`, `continue` (three cases), `steer`, `followUp`, `clear*`, `abort`, `reset` | actions of `Api` |
| `runAgentLoop`, `runLoop` | `FirstTurn` ... `EndRun`, `Finish` |
| `streamAssistantResponse` | `ReplyStart`, `ReplyEnd` |
| `executeToolCallsSequential`, `executeToolCallsParallel` | `RunTools`, `AnswerAtOnce`, `RunCall`, `Prepare`, `PrepareNext`, `FinishCall`, `CallEnded`, `FirstResult`, `ResultEnd`, `NextResult`, `NextCall`, `EndBatch` |
| `runWithLifecycle`, `handleRunFailure`, `finishRun` | `RunFails` and the actions of `Failure` |

`calls[i]` follows one call of the batch: todo, started (its start event is with
the listeners), immediate (answered without running: unknown tool, bad
arguments, blocked, aborted), prepared, running, ending, done.  `orphans` are the
executions of a parallel batch whose run has failed because one of them
rejected: `Promise.all` does not wait for the others.

Abstractions.  A message is its kind and number; a reply also has how many calls
it asks for and why it stopped.  The provider is an environment: it answers with
any number of calls up to `MaxCalls`, fails, is aborted, or (`Throws`) throws; a
request made with the signal already aborted ends aborted.  Updates of partial
messages and of running tools, `isStreaming`, `streamingMessage` and
`errorMessage` are left out, as are `prepareNextTurn` and `shouldStopAfterTurn`,
which this program does not give its Agent.  `DropFailedReply` is AgentSession
removing a failed reply before it continues, the one way the transcript shrinks
besides `reset`.

A scenario, chosen at the start, sets up an agent and bounds its behaviour: how
many messages of each kind (`maxSent`) and calls per reply (`maxCalls`), how batches
run and queues are drained, whether `reset` may come in the middle of a run
(`resetInRun`) and who may throw (`throws`).

Two runs.  `agent` has 524,654 distinct states in three scenarios:

* `Queues`: two steering messages drained one at a time against prompt, continue,
  clear, reset and abort, with a provider that throws;
* `Batches`: batches of up to two calls in both modes, three replies, a steering
  and a follow-up message;
* `Throwing`: a listener throws at any event, twice if need be.

| property of `agent` | says |
|---|---|
| `TypeOK` | the loop never reads past a batch or an empty list |
| `MessagesKept` | each message is in one place and in order (`InOrder`); unless listeners throw, none is lost (`NothingLost`) |
| `TranscriptsAgree` | the loop's context is the agent's transcript when the model is asked, without resets |
| `CallsPaired` | results stand behind their reply in call order; the model goes on only when every call is answered |
| `NoOpenCall` | no call is pending while the model is asked or the agent is idle |
| `EventsOfRunNest` | agent, turn, message and tool events nest as docs/rpc.md says |
| `RunEnds` | every run ends |
| `SteeringMessagesInjected` | a steering message that waits while tools run is injected or cleared |

`agent_not_quiet` is a violation: `IdleIsQuiet` is false, the agent is idle while
a tool still executes.

Two steering messages are what it takes for order to matter; three replies give
two batches and a final answer; two calls give every interleaving of two
executions; with listeners that throw, one run fails and another follows while
orphans of the first are alive.  `reset` in a run is allowed only in `Queues`: `reset`
empties the transcript and not the context of a loop that is running, so
`TranscriptsAgree` is about runs that are not reset.

Fairness: `FairSpec` has weak fairness of `Turns \/ Batch \/ Failure`, one condition
for all of it: the event loop runs what is ready, and providers, tools and
listeners settle.  The user owes nothing: `Api` is not fair.  `RunEnds` also
relies on a model that stops asking for tools, which the bound on replies
stands for; the code has no limit of its own.

## 3. SessionManager

A session is a tree of entries kept in a list with parent links, and a leaf.
`mem` is the object of one process (`Down` when there is none), `disk` the lines
of each file, `ragged` the files whose last line has no newline.  Every method
is synchronous, hence one action; but it writes line by line, and `Perform` lets
the process die after any number of lines, and with `Faults` lets a write throw
or stop inside a line.

| code | model |
|---|---|
| `_buildIndex` | `LastId`, `LabelsOf` |
| `getBranch`, `buildSessionContext` | `Path` (over the entries, `PathIn`), `Context` |
| `_appendEntry`, `_persist`, `_rewriteFile` | `AppendEntry`, `LinesToPersist`, `Perform` |
| `appendMessage`, `appendCompaction`, `appendLabelChange`, `branch`, `resetLeaf`, `branchWithSummary` | `AppendPlain`, `AppendCompaction`, `AppendLabelChange`, `Branch`, `BranchWithSummary` |
| `newSession`, `setSessionFile`, `createBranchedSession`, `forkFrom` | actions of these names |
| the end of the process | `Exit`, and every partial outcome of `Perform` |

Abstractions: ids are numbers given out in order (the code only promises that
they are new); an entry is its kind, parent and one reference (label target,
first kept entry); a line that does not parse is `Garbled`.  Model and thinking
level of the context, time stamps, migrations of old versions, listing and
in-memory sessions are left out.

`session` (289,826 distinct states) has seven scenarios: `Tree` and `Compactions`
(one file, messages and both kinds of compaction on any branch), `Forks`
(branched and forked sessions over two files, with summaries), `Labels` and
`Unlabels` (set, cleared, replayed and carried over), `Faulty` and `FaultyFork`
(writes that throw or are torn).  In all of them the process may die inside any
write and open the file again.

| property of `session` | says |
|---|---|
| `TypeOK` | every variable keeps its type |
| `TreeIsSound` | the leaf is an entry and every walk up ends, whatever writes do; with sound writes every parent is in memory and on disk |
| `ReopenIsSame` | from the first assistant message on, the file opens as this session: entries, labels, contexts |
| `AppendKeepsContext` | a message, label or summary changes the context only by itself |
| `CompactionKeepsTail` | a compaction keeps what it promised to keep and what comes after it |
| `NothingLost` | entries and files never disappear |
| `BranchIsWhole` | a branched session has the context of its path when no label is on it, and the labels |

`session_branch_label` and `session_duplicate` are violations, see section 9.

`MaxId` bounds the entries ever made: four give a root, two branches and two
compactions on one path, three are enough for a fork of a fork.  File names are
interchangeable, so they are a symmetry set; no run with symmetry checks
liveness.  There is no liveness here: nothing happens unless it is called.

## 4. FileMutationQueue

`withFileMutationQueue` serialises tools by the real path of their file: calls
register one at a time behind `registrationQueue` (because realpath is awaited),
each chains itself behind the promise the map holds for its key, and a finally
block releases the next and removes the entry if it is still its own.  A promise
is named by the call that created it, so `tail[k]` is the map's entry and
`prev[o]` the promise call `o` awaits.  `write` and `edit` are the callbacks, with
an abort check after each await; `writeFile` truncates when it opens and its end
is a separate step, because an abort must not release the queue in between.  A
file's content is the list of the calls whose changes it holds.

`KeyedMutex` is what all of this is for, without registration, map or promises:
calls that want the same file are inside one at a time, in the order they were
made.  `Stage` maps a call of the queue to it (called: waiting; in its callback:
inside; settled: over), and `ImplementsMutex` says that every behaviour of the
queue is one of the mutex, fairness included.

`queue_link` (15,435 distinct states) has two writes and an edit of one file, one
of them through a link, with aborts and failures at every await: `TypeOK` (among
others, what is chained behind `registrationQueue` is still to register),
`KeyFifo`, `FileExclusive`, `ReadIsCurrent`, `NoStaleEntry`, `EveryCallFinishes`,
`ImplementsMutex`.  `queue_missing` is a violation: `FileExclusive` is false when
the link leads to a file that does not exist yet.

Three calls are the smallest number with a first, a middle and a last in a
chain; the proofs below cover any number.  Fairness: weak fairness of every
call's own steps, since promise callbacks run and system calls settle; nobody
has to call or abort.

## 5. AgentSession

The driver between the clients, the running agent and the session.  The agent's
listener only puts events into `_agentEventQueue`, a chain of promises; the
handlers run behind the agent.  So three clocks run here: the agent's (`Agent`),
the queue's (`Handler`, and `Compacting("queue")` when a handler compacts), and the
callers' (`Submit`, `Compacting("manual")`, and each caller's own check before a
prompt, `Compacting(c)`).

| code | model |
|---|---|
| `agent.state.messages`, `activeRun`, steering queue | `messages`, `run`, `steering` |
| `_agentEventQueue`, `_processAgentEvent` | `events`, `handler`; `TakeEvent`, `PersistMessage`, `EventFails`, `NothingToDecide` |
| `_retryAttempt`, `_retryPromise`, `_handleRetryableError`, backoff | `attempt`, `retryPromise`; `BeginBackoff`, `EndBackoff`, `BackoffCancelled`, `GiveUp`, `EndWithoutRetry` |
| `setTimeout(() => agent.continue())` | `timers`; `Continue` |
| `_checkCompaction`, `_runAutoCompaction`, `compact` | `compaction`, `controller`; `Prepare`, `SaveCompaction`, `EndCompaction`, `CompactionFails`, `Compact`, `CompactIdle` |
| `prompt`, `steer`, `clearQueue`, `recordBashResult`, `abort`, `abortCompaction` | `Prompt`, `Submit`, `PromptRefused`, `Steer`, `ClearQueue`, `RecordBash`, `Abort`, `AbortCompaction` |

A reply's outcome is what the decisions depend on: good, large (above the
threshold of compaction), an error that can be retried, a fatal error, an
overflow of the context, a silent overflow, aborted.  Silent is the overflow of a
reply that is good otherwise ("stop" with more input than the window takes, or
"length" with no output, `Overflows` after `isContextOverflow`): the session takes
it off the agent's messages all the same, and as a good reply it resets the one
recovery that is allowed.  A scenario fixes the callers, the operations
they may use, the outcomes, whether handlers may throw, and the client:
"patient" clients wait for the session to settle before they call again, "eager"
ones do not, "stalled" ones may besides stop reading the output.

`driver` (732,299 distinct states) has fifteen such mixes, up to two callers, two
retries in a row and `MaxSilent`, two, silent overflows.

| property of `driver` | says |
|---|---|
| `TypeOK` | every variable keeps its type |
| `SavedInOrder` | what the agent emitted is in the session in that order, or waits in the queue |
| `Agreement` | once settled, transcript and session context agree but for failed replies and silent overflows (under `ResumesAlone`), and the display shows the queue as it is |
| `RetriesBounded` | no more retries in a row than the settings allow, for a patient client whose calls schedule no resumption beside a run (`ResumesAlone`) |
| `CompactionKeepsRest` | a compaction without replacement messages drops nothing behind its cut, nor what came while the summary was written |
| `PromptReturns` | a patient client's prompt returns, not before its retries have ended, and the session settles again; but for a handler that throws and leaves a retry undecided, and replies that overflow silently without end |

`driver_hangs` is a violation: with two callers that do not wait for one another
`EverySessionSettles` is false, see section 9.

Two callers are enough for every read-then-await in `prompt` to be overtaken; two
retries tell the first from the last, and of two silent overflows the second is recovered
from again, as the first was a good reply; the mixes keep the product of operations
small, each having the two or three that can meet.  Fairness: weak fairness of
the agent, the timers, the handlers and every compaction and caller that has
begun, since the runtime runs what is ready and services settle; the clients'
calls are not fair.  A "stalled" client's handlers may wait for ever, so nothing
of liveness is said of it.

## 6. Services around the session

`Services` has eight parts; a behaviour takes steps of one.  `MCServices` gives their
constants values.  `services` has
259,456 distinct states.

| module | code and state | bounds of the run |
|---|---|---|
| `SettingsManager` | `core/settings-manager.ts`: two files under a lock, per process its memory, the fields it has modified, its queue of writes; set, reload, flush, overrides; the write as open, truncate, write | two processes, one setting set twice by one of them, three calls, one death or full disk |
| `AuthStorage` | `core/auth-storage.ts`: the file, the lock with its owner, per process a copy and a call; login, set, remove, `getApiKey` with the refresh under the lock; the server's answer, which may be lost when the token is spent; locks that grow stale and are stolen | two processes, two tokens, four calls, one stop or death |
| `LspClient` | `core/lumen-lsp-client.ts`: registry, broken servers, per client its process and initialize request; start, fail, crash, exit, reap, dispose; edits and diagnostics with their version | two callers, a server and its successor, two edits, one stop |
| `BashOutput` | `core/tools/output-accumulator.ts`, `truncate.ts`, `core/bash-executor.ts`: raw bytes, decoder, tail, counters, temporary files | output up to nine bytes, two bytes or two lines kept |
| `Compaction` | `core/compaction/compaction.ts`: the cut on a path compacted again and again, what each summary has read | paths of six entries, a budget of three |
| `WireTrace` | `core/wire/file.ts`: buffer, timer, the append in flight, synchronous flush, exit | six lines in batches of two, two failing appends |
| `SessionRuntime` | `core/agent-session-runtime.ts` and the binding in both modes: the current session, each session's life and what its extensions heard | three sessions, two callers, one failing creation |
| `SubAgentTask` | `core/lumen-task.ts`: calls of the task tool, their sub-agents and two maps of progress | two calls with one or two tasks, whose ids may be equal |

| property of `services` | says |
|---|---|
| `ServicesTypeOK` | every part keeps its types |
| `StoredIsKept` | settings that no other process sets: an awaited write is in the file, foreign fields survive, a cut file is not overwritten, a reload forgets no queued set; credentials change only by calls about their provider |
| `OneAtATime` | a token whose successor arrived is not asked with again, and the successor survives; one language server runs; sessions follow one another, each told of its start and end before it is disposed of; every published event is once in the trace, in order, or on its way |
| `OutputIsWhole` | what is shown of a command's output is its end, with exact totals and a file of the whole |
| `CompactionKeeps` | a compaction forgets only where it splits a turn, and never separates a result from its call |
| `ProgressIsKept` | progress shown is that of running calls; one call's end takes no other's away; an abort reaches every running sub-agent |
| `CallsEnd` | what was called returns, whatever fails, dies, times out or is stopped |

`lsp_failure` is a violation: `FailureIsSilent`.

The bounds are those at which a second actor can meet a first in every state of
it: two processes, two callers; a server and one that replaces it; output that
exceeds what is kept by more than the rolling buffer; two compactions, the second
of which splits a turn; three batches, one written, one collected, one waiting.
A chunk of output is any of eight, among them halves of a character and lines of
different length.  Time is not counted: a timer may fire whenever it is set, a
lock may be stale for one who looks too late.

Fairness is weak fairness of what a process, caller or call does by itself
(`Step`, `LspStep`, `TaskStep`): its writes, answers and timeouts come.  Nothing else
is fair, deaths least of all.  Where a property has an exception, the exception
is in its definition and in section 9: `TokenSurvives`, for instance, is about
processes that are not stopped while they hold the lock, and about answers that
arrive.

## 7. Around the agent: terminal, RPC, harness

`MCClients` has twelve parts; `clients` has 323,826 distinct states.  Two of them, the
client of an agent and the harness, are put together in `Embedded`, which reaches no
recursive operator and so can be proved about; `MCClients` extends it.

| module | code and state | bounds of the run |
|---|---|---|
| `TuiRender` | `doRender` of `packages/tui/src/tui.ts`: lines last written, viewport, reckoned cursor; and the terminal with its scrollback, as the bytes written change it | contents up to four lines on two or three rows, one resize |
| `RenderSchedule` | `requestRender`, `scheduleRender`, start and stop, and the suppression while the user types (`modes/interactive/interactive-mode.ts`) | four changes, three keys, two suspensions |
| `StdinBuffer` | `packages/tui/src/stdin-buffer.ts`: reads of any length into keys and pastes | two keys or pastes, cut anywhere |
| `RpcClient` | `modes/rpc/rpc-client.ts`: requests, timers, lines of the agent's output, listeners, waits for the end of a run, exit and restart | two requests, an agent and its successor |
| `AgentHarness` | `packages/agent/src/harness/agent-harness.ts`: phases, queues, pending writes, the session's branch, hooks and listeners that throw, abort, compaction, navigation | two prompts, one write, two queued messages, two replies, one throw, one abort, four events in all |
| `EditorLayout` | `wordWrapLine`, `buildVisualLineMap`, `moveToVisualLine` and what the keys move by: a line as screen lines, markers that are one glyph | as in `Editor` |
| `Editor` | `packages/tui/src/components/editor.ts` with `kill-ring.ts`, `undo-stack.ts`, `word-navigation.ts`: text, cursor, undo stack, kill ring, history, pastes; every key | `editing`: 19 keys that change the text, four in a row; `killing`: nine that kill, yank and undo, six in a row; `moving`: eleven that move, five in a row, on screens two and four columns wide |
| `EditorAutocomplete` | the same with its list of completions: debounce, the chain of requests, tokens, answers, Tab, Enter, Escape | eight keys, three in a row, one failing provider |
| `InteractiveMode` | `modes/interactive/interactive-mode.ts` and what of the session it meets: submit, dequeue and Escape; the queue of texts that wait for a compaction, how it is flushed and restored; the handlers of Escape that activities save and put back; runs, retries, compactions, `/compact`, branch summaries | `Queueing`: three pieces typed, two compactions, one retry, two runs; `Demanding`: two pieces, two compactions, one `/compact`, one retry, two runs; `Leaving`: two pieces, one compaction, one branch summary, one retry, two runs |

| property of `clients` | says |
|---|---|
| `ClientsTypeOK` | every part keeps its types |
| `ScreenIsTrue` | the screen shows the end of what was rendered, nothing of what was there before, the cursor in its place; the editor's lines are wrapped without loss or overflow, and its cursor is in the text and inside no marker |
| `InputIsTrue` | keys and pastes arrive as they were typed; undo reaches the start and takes back each change, a yank brings back what was killed, a marker stands for its paste, a list of completions is for what stands before the cursor; a text submitted is in one place and has somebody to send it (`TextsKept`, `QueuesAreSent`, `QueueIsFlushed`), and Escape stops what is under way (`EscapeFits`) |
| `RecordIsKept` | every answer of an agent arrives at the request it is for; the harness asks the model with what the session's branch holds; writes are kept once; queued messages wait, were recorded or went back; an abort is followed by no request |
| `WaitsEnd` | changes are shown, requests and waits end, prompts return and leave the harness idle, a completion asked for is answered or dropped |

The screen has fewer rows than the content has lines, so that every differential
render meets one that scrolls, shrinks or is resized.  Two keys are enough for
the end of one to be taken for the start of the next.  In `AgentHarness` the
callers are patient: they await what they call; what happens otherwise is in
section 9.  Draining a queue and telling its listeners are one step there.

The editor's text is made of few characters, each for a class the code tells apart:
a letter, a space, a character two columns wide, and those the keys look for (`/`,
`@`, `\`).  The marker of a paste, `[paste #1 +20 lines]` in the code, is three
cells, one segment while its paste is known.  `Editor` keeps what the properties
compare with beside the program's state: the text of which a list or a column was
computed, and the changes made since the last one undo can reach.  Four keys are
enough for a kill, another, a yank and the key that must not grow the ring any more;
six for two entries of the ring to be turned round and undone; on screens narrower
than a marker five keys reach a wrapped marker, leave it and come back with the
column remembered.  Widths of one column are left out, see section 9.

In `InteractiveMode` a text is a sequence of pieces typed one after another, so
that texts can be joined and restored.  `overlapped` and `contended` are true once
two activities were under way together or two prompts asked for one agent; the
properties say more of the behaviours where neither has happened, and section 9
what goes wrong in the others.  Three pieces make a first text that is prompted and
two behind it, which the flush of a queue treats differently.  Left out: commands of
extensions and input hooks, a second `/compact` while one runs, the selectors, and
Ctrl+C as far as it clears the editor.  The session's own lists of steering and
follow-up texts are taken to be the agent's queues: in the code a text that the
agent has taken, but whose start is not handled yet, is still in the list.

Fairness: the timers of the schedule and of the editor's debounce, the client's
own steps, the chain of completion requests and the provider's answers, and the
harness's run and operations go on; users, agents that die and resizes are not
fair.

## 8. What is proved

The proofs assume only the modules' named assumptions on their constants, which
every run evaluates.

`FileMutationQueueProofs`, for any calls, paths and links: `TypeCorrect` (`TypeOK`),
`CallOrder` (`KeyFifo`), `MapIsClean` (`NoStaleEntry`), and, when every link leads
to an existing file (`LinksResolve`), `OneCallPerFile` (`FileExclusive`),
`NoLostUpdate` (`ReadIsCurrent`) and `QueueIsMutex`: the queue implements
`KeyedMutex` without its fairness.  `KeyFifo` is not inductive: it speaks of calls
whose predecessors have settled, and a new call knows only one of them, the one in
the map.  The invariant adds that tickets follow the registration queue
(`QueueOrder`, `Tickets`), that the map's entry is the latest live call of its key
(`TailIsLatest`), and that a waiting call stands behind every earlier live call of
its key, directly or through the one it awaits (`BehindPrev`).  `OneCallPerFile`
adds that a key, once computed, is the file the call will open; this is where
`LinksResolve` is needed, and `queue_missing` shows that it is.  `QueueIsMutex` adds
that a call still to be registered is in the registration queue (`AllQueued`), hence
behind the one that enters: of the calls made before it for its file none can be
anything but over.

`AgentLoopProofs`, for any bounds, modes, queue modes and whoever throws:
`TypeCorrect` (`TypeOK`; among others the loop never reads past a batch or an empty
list) and `CallsClosed` (`NoOpenCall`).  The type invariant needs `InHand`: what an
await promises of the lists the loop is working through.  `NoOpenCall` needs
`CallPhase`: every pending call belongs to an open call of the batch
(`PendingIsOpen`), and at each await of a batch only certain calls can be open
(`Started`, `Answering`, `Running`), none outside a batch (`Closed`).

Its second half proves the other invariants of the
loop.  `MessagesKeptAlways` says of each place a user message can be in (the
queue, the loop's hands, the transcript) that it is sorted (`EachSorted`), that
what is further along is older (`InTurn`) and that a queue holds its own kind
(`QueueKinds`); `HandsEmpty` says where the loop holds nothing, and `FailureReply`
what the failure path announces.  `TranscriptsAgreeAlways`, `CallsPairedAlways` and
`EventsNestAlways` share `BatchInv`.  Of the batch under way it fixes which calls
are still to do (`BatchShape`), of the rest that they are answered (`Settled`), of
the events that are out which must still come (`Nesting`); and where no reset
comes in a run, how far the context is ahead of the transcript, at each await
(`Copies`), and that the results are in the order of the calls
(`ResultsInOrder`).  Without `BatchShape` none of these is inductive: between the
reply and its results the two copies differ by exactly what the batch has done.

`SessionManagerProofs`, for any number of entries, files, processes and deaths:

* `TypeCorrect` and the part of `TreeIsSoundAlways` that holds whatever writes do,
  from `TreeInv`: types, ids below the next one and within the bound, links that
  go back in time, a leaf that is known, in memory and in every file.  That a walk
  up the tree is defined at all is a theorem (`PathStep`), as is every recursive
  function here: from the descent of the links by `RecursionExists`.
* the rest of `TreeIsSoundAlways`, `NothingLostAlways` and `ReopenIsSameAlways`, for
  writes that are whole until the process dies, from `FileInv`: no file is ragged,
  every file begins with a header and (unless labels are used) names only parents
  that stand before (`Sound`), and the file of the session holds the session,
  perhaps behind a prefix of it that had been written before (`Kept`).  That
  prefix is what is not inductive about "the file is the session": a session that is
  written late to a file it has once begun repeats its beginning, and the proof
  shows that such a file still reads the same (`LabelsOfRepeated`,
  `EntriesRepeated`, `LastIdRepeated`).

In the second half of that module, with any faults: `AppendKeepsContextAlways`,
`BranchIsWholeAlways` and `CompactionKeepsTailAlways`, which need `TreeInv` alone.
An entry more changes neither the latest compaction nor what stands before it
(`ContextOfAppend`), nor the path of any older entry (`PathOfAppend`).  A path is
`Chained`, each entry the parent of the next, and so is a path with the new labels
behind it (`ChainIsChained`); the walk up from the end of a chained sequence is
that sequence (`PathOfChained`).  A message is in a context once, whatever earlier
compactions of the path keep, and what stands behind it there, but for summaries,
is what stands behind it on the path (`TailOfContext`); a compaction that keeps the
path from that message on therefore keeps just that (`CompactionOfPath`).

`AgentSessionProofs`, for any callers, scenarios and number of retries:
`TypeCorrect` from `TypeInv` (`Infos`, `Lists`, `Runs`, `Queue`, `Compactions`,
`Others`: what each message, list, event and summary under way may be);
`SavedInOrderAlways`, where `Distinct` adds that no message is in two places of the
queue and the file; and `CompactionKeepsRestAlways`, an action property: what a
compaction read before it awaited its summary is still a prefix of the entries
when it saves, so that all behind the cut is behind it then.

Its second half: `RetriesBoundedAlways`, under the premise `RetriesBounded`
itself states.  The counter of retries is reset by any good reply, so what has to
be shown is that no good reply comes while a retry is scheduled.  `Threads` says
that of a run, the event that ends it, a timer and a prompt being prepared one
exists at most; `Counted` that retries and those scheduled are within the
attempts counted; `Calls`, `Limits`, `Backoffs`, `Unused` and `FirstPrompt` are
what these need of the callers and settings.  `ResumesAlone` cannot be left out:
the compaction before a prompt resumes the agent after an overflow that was not
handled, or for a steering message that is still queued, with a timer of its own;
the run of that timer and the run of the prompt are then two threads.

`AgreementAlways`, at the end of that module, is about a settled session only, so
the inductive invariant has to say what agrees before: `Agrees`, that the agent's
messages are the session's context with the messages of the waiting events appended,
but for failed replies and those that overflowed; and `Known`, that the agent knows
nothing else. A step that appends to both sides keeps this as the context of a
longer log is the context with the rest appended (`ContextGrows`).  What a step
takes from the agent's messages must be a failed reply, or one that overflowed, at
their end: hence `EndFollows` (the reply that ended a run is the agent's last
message until its end is decided upon) and `BackoffRetries`, both of which need the
one thread that `Threads` gives under `ResumesAlone`.  A compaction puts the context
in the place of the agent's messages, and by `Calls` and `Threads` nothing waits
then but the end of a run.  `Recents` says that the user's messages a summary keeps
are in the session, `Listens` that nothing is disconnected without a manual
compaction, and `Shown`, the second half, that what is shown as queued is what the
agent holds, with what it has taken whose event is still to be handled; it holds for
every client that disturbs nothing.

`ServicesProofs`, for any number of processes, callers, providers and limits: an
invariant for each of the eight parts; a step of one leaves the others as they are
(`OnlyItsPart`).

* `AuthInv`, for as long as nobody dies, loses the lock or creates
  the file late: who asks the server holds the lock, and the file is still as it
  was read (`HoldsLock`); a token that is on its way to the file is known to no
  one else, not yet used and not yet in it (`IsFresh`); and a used token (exchanged
  for one that arrived; what was exchanged in vain is in `wasted`) is in the
  file only while the one that used it holds the lock and the next one
  (`Survives`, which is `TokenSurvives` for a file that may not exist).  `NeverReused`
  follows as what is asked with is what the file holds.  `CopiesInv` adds what a
  change needs that goes by memory: that the copies are credentials, and without a
  file there are none.
* `SettingsInv` (in `ServicePartsProofs`), whoever dies and whatever disk fills up: that
  an awaited write is in the file cannot be shown of the file alone, as the
  setting is first in memory, then in a queued snapshot, then in the file, while
  others write.  `AskedIsKept` says where: of the queued writes that name the
  setting the last has the value, or none names it and the file has it.  It holds
  of settings only this process sets (`Own`), until a write is cut off or two
  processes have created the file at once.  `WritesFields` and `WriterHasLock` carry
  it through a write in steps, `MemoryHolds` and `FieldsAsked` through the next
  setter, and `EmptyIsFilled` tells an empty file that is being filled from one that
  was left by a death.
* `CompactionInv`: a compaction keeps from an entry before it on (`KeepsBefore`);
  among what is kept a result follows an entry where a cut may be (`ResultsFollow`),
  so a path with results always has a cut point in front of them; and a call that
  waits for its result is among what is kept (`CallIsKept`), without which a result
  could arrive whose call was summarized.
* `LspInv`: until anything is stopped the registry holds whatever runs.  After one
  stop a server may have lost its place to the exit of its predecessor; then the
  key is broken and gets no other (`Held`).  `down` ends the invariant, not
  `OneServer`: no server starts after it.
* `RuntimeInv`, for callers that wait for one another: one of them operates
  (`OneOperates`); what each step of a replacement leaves of the current session
  (`Standing`); and whether a session heard of its end (`Telling`).
* `TraceInv`: file, append under way and buffer are apart, and with the lines that
  are gone they are all that was published (`Apart`, `Lines`); they are in order
  unless a synchronous flush has overtaken an append (`InOrder`).
* `TaskInv`: a sub-agent runs only for a call that runs, and what the session shows
  of a call the call's own map holds, so its return finds it (`ShowsOwn`).
* `OutputShape` (in `ServicePartsProofs`), for output of any length in any chunks
  and any limits.  "What is shown is the end of the text" is not inductive: the tail
  has to be long enough to show it from.  `OutputTail` says that the tail is all of
  the text or an end of it, longer than `MaxRolling` bytes with the character before
  it, which tells whether a line starts there (`KeptEnd`); `CountsOf` gives each
  counter as a function of the text, so that adding a chunk's counts is counting the
  text and the chunk; `OutputFiles` and `OutputChunks` say that a file is a
  beginning of the output from its first byte, and that until there is one nothing
  has been dropped.  That the last lines of a long enough end are those of the text
  is `ShownOfKeptEnd`; the exception, a last line as long as the tail, is
  `LongLastLine`.
* `TypedInv`: these and the types.  `AuthShape`, `LspShape`, `CompactionShape`,
  `TraceShape`, `RuntimeShape` and `TaskShape` say what each variable of a part may
  be, where its type predicate says it of some only.

`OneAtATimeAlways`, `ProgressIsKeptAlways`, `StoredIsKeptAlways`,
`CompactionKeepsAlways`, `OutputIsWholeAlways` and `ServicesTypeOKAlways` put these
together: every safety property of `services` is a theorem.  Three of them are about
steps as well: of the task tool (`ProgressStaysStep`, `AbortsAreHeardStep`), of the
settings (`OthersKeptStep`, `CutFileStep`, `ReloadKeepsSetsStep`), of the
credentials (`CredentialsKept`) and of a compaction (`ForgetsOnlyAtSplitsStep`,
`CutsBetweenCallsStep`: were what is kept behind the first message already the
budget, the walk back would have ended later).  The assumptions: no process is named
like the free lock or like no task, a setter is given a scope, a setting and a value
(`AsksAssumption`), a provider has a token or a plain key, and there is a session to
start with; the bounds are numbers and the parts those there are; a chunk of output
has a byte, at least one line is kept and at least as many bytes as the largest
character that is decoded here (`ChunksAssumption`, `LimitsAssumption`: the code
keeps 2000 lines and 50 KB).

`EmbeddedProofs`, for any requests, listeners, prompts, writes, messages, operations,
failures and callers: `RecordIsKeptAlways`, every part of `RecordIsKept`.

* `ClientInv`: a request is with the agent, in a line on its way or taken for an event,
  in one of them at most and once (`ApartOnTheWay`); what is pending was sent, and what
  is on its way and no longer pending has failed (`Knows`); while there is the first
  agent, what was sent is what is pending (`FirstAgent`).
* `HarnessInv`: "a request gives the model what the branch holds" is not inductive:
  between two requests messages are recorded one by one, writes that wait are
  flushed, and the session is read again.  `SyncOK` says how far the two are apart
  at each wait of a run that is alone: what it appends goes behind the leaf, its
  messages are those of the branch with what is still to record behind them, and
  what it flushes is the first of the writes.  `Alone` says that for callers that
  await what they call one thing goes on at a time; it is what lets a run rely on
  the leaf it has read. `WritesPlaced` and `QueuedPlaced` say of each write and each
  message that was made where it is, once: in a queue, in the session, in the hand
  of one run, with its caller, or lost with a run that fails.  The second holds for
  eager callers, too.
* The eleven steps of a run are first shown to be `Moved`, which says all the
  invariant needs of a step (what flows from queues to hand to session, `Flows`;
  that what is in hand is ready to be recorded, `RunOK`); each part of the invariant
  is then shown for `Moved` once.  That what a request is given grows by exactly the
  entry that is appended is `MessagesGrow`, from the recursion over the entries.

Its assumptions: no request is named like the line of an event, and the bounds are
numbers.  The theorem is about `Embedding`, the part of `MCClients`' behaviours that
these variables see; that section 9's eager callers break `RequestSeesBranch` and
`WritesKept` is why `Alone` asks for patience.

`SequenceLemmas` holds the facts about sequences that all of these use.  The
library's induction theorems take a predicate and cannot be used here, so
induction is stated over sets: `Upward` (strong induction up to a bound, from
the well-foundedness of `<`) and `SequenceInduction`; `RecursionExists` gives a
function defined by recursion its defining equation.  Hence `SequenceFilter`: the
facts about `Filtered` are theorems, about `SelectSeq` nothing can be shown.
`FoldLeft` of the community modules, which counts bytes, splits lines, decodes and
joins chunks in `BashOutput`, is defined over sets of positions; the fold over the
first positions is shown to be the recursive function it ought to be (`IsFold`,
`IsRun`), and what it returns for a text and one character more follows from that.
What folds of a text of any length give (bytes of two texts put together, lines of
a text and of its end) is then induction over sets of lengths.

Only model-checked: all liveness and the fairness part of `ImplementsMutex`, which
are out of reach of the prover's backends, as is ENABLED (`CallsEnd` and
`PromptReturns` are liveness; `agent_not_quiet`, `driver_hangs` and the other
violations are traces); and of section 7 the terminal interface, the editor, the
input buffer and the interactive mode (`ScreenIsTrue`, `InputIsTrue`), with the types
of all its parts (`ClientsTypeOK`): `MCClients` reaches the recursive operators of
`Editor`.

## 9. Where code and words disagree

Shown by a run each, with the quotation in `PROJECT.json`:

1. `queue_missing`: two calls on one file run at once when the first creates the
   file through a link (`file-mutation-queue.ts:22`).
2. `session_branch_label`: extracting a branch with a label in the middle cuts
   the conversation at the label (`session-manager.ts:1251`).
3. `session_duplicate`: an existing empty file gets its header twice
   (`session-manager.ts:879`).
4. `agent_not_quiet`: `waitForIdle` resolves while tools of the failed run execute
   (`agent-loop.ts:502`).
5. `driver_hangs`: the retry's `continue` throws unheard, and the prompt that waits
   for the retry never returns (`agent-session.ts:2821`).
6. `lsp_failure`: a server that fails to initialize leaves a rejected promise
   nobody handles (`lumen-lsp-client.ts:451`).

Seen while modelling, each a behaviour of its module, not given a run of its own.
The named properties are in the modules, where they can be tried.

Agent loop and session file:

* a listener that throws on `agent_end` makes the run emit `turn_end` and
  `agent_end` again, after the "final emitted event" of `agent.ts:228`;
* a message drained from its queue is lost when a listener throws before its
  `message_end`, hence the exception of `MessagesKept`;
* a message steered after the last poll stays in the queue until the next
  prompt, although `agent.ts:263` says it is injected after the current turn
  finishes; `SteeringInjected` is about messages in the queue while tools run;
* after a write that throws, or a torn line, later entries name a parent that is
  not on disk (`session-manager.ts:897`, `:889`).

Agent session:

* a prompt may return before its retry when a handler is slow (`RetryIsAwaited`),
  and an abort between `agent_end` and the backoff does not stop the retry that
  docs/rpc.md:411 says it aborts (`AbortStopsRetry`);
* a bash result is kept back until the next prompt, not until `agent_end`
  (`BashFlushed`, `agent-session.ts:2930`);
* the counter of attempts is not reset by a fatal error after a retry, so the
  next prompt has fewer retries than docs/rpc.md:762 says; and any good reply
  resets it: when a compaction before a prompt finds a steering message still
  queued it schedules a run beside the prompt's, and a good reply of the one while
  the other backs off gives that other its retries anew (TLC finds this with two
  patient callers, steering, an overflow and an error; `ResumesAlone` in
  `RetriesBounded` excludes it);
* the same two runs make the transcript differ from the session: the compaction of
  the one puts the session's context in the place of the agent's messages
  (`agent-session.ts:2281`) while events of the other still wait to be saved.  TLC
  finds this with three patient callers, steering, and large replies beside errors
  that can be retried or overflows; hence `ResumesAlone` in `Agreement`;
* the program's own summaries come with replacement messages (the recent texts
  of the user and the summary), so the replies behind the cut, and what is
  recorded while the summary is written, leave the context; `CompactionKeepsRest`
  is about the summary of an extension without replacement messages;
* a prompt during a compaction of an idle session is missing in the agent's
  context until the session is opened again;
* a reply that overflows silently is in the session and not with the agent when
  its compaction fails, although the comment at `agent-session.ts:2105` speaks of an
  error message; `Agreement` leaves such replies out.  Each of them resets
  `_overflowRecoveryAttempted` (`agent-session.ts:677`), so a model that always
  overflows silently is compacted and resumed without end; `PromptReturns` says so,
  and the bound `MaxSilent` ends the series in the model;
* a compaction by hand that fails leaves the aborted reply in the agent; two
  automatic compactions share one controller, so that only the later can be
  aborted; a handler that throws before it notes the last reply skips retry and
  compaction of that run, and when the reply could have been retried, its caller,
  a patient one too, waits for a decision that nobody makes (`PromptReturns` names
  the case).

Services:

* settings: overrides given at the start are lost by a reload (docs/sdk.md:785); a
  write is lost when an earlier one of the queue clears the modified fields and
  a later one fails; two processes that create the file at once; an emptied
  file is read as no settings;
* credentials: a login while another call refreshes is kept in memory only, and lost
  with it; a token whose answer is lost, late or unreadable is spent but stays in
  the file, and each process asks with it again, in vain, until the user logs in
  (`anthropic.ts:170`; `wasted` in `AuthStorage`); two processes that create the
  file; loading fails while the lock is busy;
* language servers: a server stays marked as broken when it was only reaped;
  diagnostics of an older text may be returned (`DiagnosticsAreFresh`); a client may
  be handed out before it is initialized;
* command output: a long last line ended by a newline is shown empty, and
  described as "line is 0B"; the executor's flag of truncation and its text may
  disagree;
* compaction: when the budget is reached only in results behind the last cut
  point everything is kept; the earlier summary is lost when a split turn has no
  history before it (docs/compaction.md:105);
* trace: a synchronous flush overtakes an append in flight, lines in flight are
  lost by an exit, a failed synchronous flush leaves lines without a timer; the
  first writer's signal handler exits before the others flush;
* sessions: callers that do not wait get two live sessions, or dispose of the
  wrong one; a failed creation leaves a disposed session; in RPC mode extensions
  are told twice of a start (`rpc-mode.ts:316`, docs/extensions.md:394);
* tasks: aborted runs are reported as completed, an already aborted signal is
  not heard, two calls of one millisecond clear each other's progress.

Clients:

* terminal: emptied content leaves its first row on the screen; a cursor above
  the screen after a shrink is tracked wrongly; `stop` leaves `renderRequested`,
  so that a plain `start` would not render;
* input: an escape cut off before a paste is lost; two escapes at the end of a
  read and a sequence behind them are typed as text;
* editor: after the marker the cursor was snapped to has been deleted or undone,
  the next vertical move uses the column from before and may put the cursor at
  a negative one (Home, Up, a large paste, Up, Ctrl+K, Down), although
  `editor.ts:1743` says it is kept in bounds (`astray` is the exception in
  `CursorInText`); Down from a marker whose last screen line is the very last
  does not move; a jump to a character may land inside a marker, and one
  backward from the start of a line finds that character again;
* editor: moves, kills, undo and yank do not refresh the list of completions,
  nor does a key while an answer is under way, so that Tab or Enter then cuts
  the wrong characters (`unrefreshed` is the exception in `ListFits`); the kill
  ring survives a submit although the numbers of pastes start again; a provider
  that rejects ends the chain of requests for good, unhandled, although
  docs/extensions.md:2525 says that the agent continues; in a layout one column
  wide a wide character makes `wordWrapLine` call itself without end;
* interactive mode, texts: one submitted while the loop's prompt is still in its
  hooks, or waits out a retry, is kept by the history only (`unheard`);
  `restoreQueue` clears texts others have queued, overwrites those queued since,
  and may send one twice; the prompt a compaction's end flushes may race that of
  the loop or start a compaction of its own, and one of two is refused; a text
  queued during a summary that fails or is aborted stays until the next
  compaction, and steering queued before `/compact` until the next prompt;
* interactive mode, Escape: of two activities that overlap the later puts back the
  handler of the earlier, so Escape interrupts what has ended (a compaction that
  the flush behind a branch summary starts keeps the summary's handler); the end of
  a compaction clears the controller of one that its flushed prompt has begun,
  which then cannot be cancelled and fails;
* RPC: a listener behind one that waits misses `agent_end` (`EveryoneHears`,
  `rpc-client.ts:428`), late answers are delivered as events;
* harness: writes made during a compaction or navigation stay pending
  (docs/agent-harness.md:88); messages for the next turn are lost when a
  `before_agent_start` hook throws; for callers that prompt from a listener of
  the end, two flushes append one write twice and drop another, and the end of
  the first run clears the second's controller and promise.

## 10. What comes next

To prove: what `InteractiveMode` and `StdinBuffer` promise, for which they need a
module like `Embedded`.

To model: tree navigation and custom messages of the agent session, the
selection lists and the single-line input of the terminal interface.

## 11. Not modelled

Wording, layout and rendering of components (of the interactive mode all but where
its texts go and what Escape does; of `packages/tui` all but its renderer, its input
and its editor), providers and their translations, tables of models, package
installation, and pure text functions (edit matching, diffs, patches).  The
command-line entry, migrations and scripts run once and sequentially; the lists
of the todo tool, the standard output guard and the event stream have one actor
and a line or two of state.  Extensions are foreign code: what they may do is in
the models as handlers that are slow or throw.  Within the modelled parts,
`PROJECT.json` says of each what is left out.
