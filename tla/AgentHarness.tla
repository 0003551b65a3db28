----------------------------- MODULE AgentHarness -----------------------------
(***************************************************************************)
(* The agent harness (packages/agent/src/harness/agent-harness.ts) above   *)
(* the agent loop and a session kept in a file: phases, prompts, queues,   *)
(* the session writes that wait while it is busy, abort, compaction and    *)
(* navigation.                                                             *)
(*                                                                         *)
(* The loop is followed from one thing it waits for to the next: an append *)
(* to the session, listeners and hooks, and the model with its tools.  A   *)
(* turn's tool results are one message.  Model, tools and other            *)
(* configuration are left out; a change of the model is a session write.   *)
(***************************************************************************)
EXTENDS Integers, Sequences, FiniteSets, SequencesExt

CONSTANTS MaxRuns,       \* bound on the prompts
          MaxWrites,     \* bound on the session writes of listeners and callers
          MaxQueued,     \* bound on the messages that are queued
          MaxReplies,    \* bound on the model's replies to one prompt
          MaxTools,      \* bound on the replies that call tools
          MaxOperations, \* bound on compactions and navigations
          MaxThrows,     \* bound on the listeners, hooks, appends and replies that fail
          MaxAborts,     \* bound on the aborts
          MaxEvents,     \* bound on all of them and the prompts together
          Callers        \* the kinds of callers: {"patient"}, or with "eager" ones

VARIABLES entries,       \* the session's entries: [item, parent, kept]
          leaf,
          phase, runPromise, runAbortController, pendingSessionWrites,
          steerQueue, followUpQueue, nextTurnQueue, queueMode,
          run,           \* run[r]: where a prompt is and what it has in hand
          operation,     \* the compaction or navigation that goes on, and the first entry it keeps or its target
          idleWrite,     \* a write that was not made to wait, and is being appended
          aborted,       \* the runs whose signal is aborted
          abortAsked,    \* the runs during which abort was called
          returned,      \* what abort took from the queues, and the writes that failed: their callers have them back
          patience, writes, queued, operations, throws, aborts

\* A caller that is patient prompts when the last prompt has returned and its writes were appended; an eager one
\* as soon as the harness is idle, as a listener of agent_end may.
harnessVars == <<entries, leaf, phase, runPromise, runAbortController, pendingSessionWrites, steerQueue, followUpQueue,
                 nextTurnQueue, queueMode, run, operation, idleWrite, aborted, abortAsked, returned, patience, writes,
                 queued, operations, throws, aborts>>
sessionVars == <<entries, leaf>>
queueVars == <<steerQueue, followUpQueue, nextTurnQueue, queued>>
callerVars == <<queueMode, operation, idleWrite, aborted, abortAsked, returned, patience, writes, operations, aborts>>

Run == 1 .. MaxRuns
Message(kind, of, n) == <<kind, of, n>>
Nothing == Message("none", 0, 0)
NoRun == [pc |-> "none", next |-> "none", context |-> <<>>, todo |-> <<>>, item |-> Nothing, parent |-> 0,
          flushing |-> FALSE, reply |-> "none", replies |-> 0, failing |-> FALSE, late |-> FALSE, taken |-> {}]

HarnessInit ==
  /\ entries = <<>> /\ leaf = 0 /\ phase = "idle" /\ runPromise = 0 /\ runAbortController = 0
  /\ pendingSessionWrites = <<>> /\ steerQueue = <<>> /\ followUpQueue = <<>> /\ nextTurnQueue = <<>>
  /\ queueMode \in {"all", "one-at-a-time"}
  /\ run = [r \in Run |-> NoRun] /\ operation = <<"none", 0>> /\ idleWrite = [item |-> Nothing, parent |-> 0]
  /\ aborted = {} /\ abortAsked = {} /\ returned = {}
  /\ patience \in Callers /\ writes = 0 /\ queued = 0 /\ operations = 0 /\ throws = 0 /\ aborts = 0

Room == writes + queued + operations + throws + aborts + Cardinality({r \in Run : run[r].pc # "none"}) < MaxEvents
Active(r) == run[r].pc \notin {"none", "done"}

---------------------------------------------------------------------------
(* The session. *)

\* getPathToRoot: the entries from the root to an entry.
Path(at) ==
  LET to[i \in 0 .. Len(entries)] == IF i = 0 THEN <<>> ELSE Append(to[entries[i].parent], i)
  IN to[at]

\* buildSessionContext: the last compaction, what it kept and what came behind it.
Messages(at) ==
  LET IsSummary(i) == entries[i].item[1] = "summary"
      last[i \in 0 .. Len(entries)] == IF i = 0 \/ IsSummary(i) THEN i ELSE last[entries[i].parent]
      first == IF last[at] = 0 THEN 0 ELSE entries[last[at]].kept
      shown[i \in 0 .. Len(entries)] ==
        IF i = 0 \/ i < first THEN <<>>
        ELSE IF IsSummary(i) THEN shown[entries[i].parent]
        ELSE Append(shown[entries[i].parent], entries[i].item)
  IN (IF last[at] = 0 THEN <<>> ELSE <<entries[last[at]].item>>) \o shown[at]

Entry(item, parent, kept) == [item |-> item, parent |-> parent, kept |-> kept]
\* appendEntry: the file has taken the line, and the entry, whose parent was read before, is the leaf.
Persist(item, parent, kept) == entries' = Append(entries, Entry(item, parent, kept)) /\ leaf' = Len(entries) + 1

---------------------------------------------------------------------------
(* What a run does between two waits, given as the record it becomes. *)

\* appendMessage: the leaf is read, and the file is written to.
Appending(me, item, flushing, next) ==
  [me EXCEPT !.pc = "append", !.item = item, !.parent = leaf', !.flushing = flushing, !.next = next]
\* Mutation: the next turn goes on with the messages the run has.
ReachStale(me, next) == [me EXCEPT !.pc = next]

\* createTurnState reads the session before it waits for the system prompt.
Reach(me, next) == [me EXCEPT !.pc = next, !.context = IF next = "prepare" THEN Messages(leaf)' ELSE @]
\* Messages are recorded one by one.
Record(me, todo, next) ==
  IF todo = <<>> THEN Reach(me, next)
  ELSE [Appending(me, Head(todo), FALSE, next) EXCEPT !.todo = Tail(todo)]
\* Messages the model is given are recorded first.
Take(me, todo, next) == Record([me EXCEPT !.context = @ \o todo, !.taken = @ \cup Range(todo)], todo, next)

\* flushPendingSessionWrites.
Flush(me, next) ==
  IF pendingSessionWrites' = <<>> THEN Reach(me, next) ELSE Appending(me, Head(pendingSessionWrites'), TRUE, next)

\* An error ends the loop and is reported as a reply, unless it came while one was reported.
Thrown(r, me) ==
  IF me.failing THEN Flush(me, "reject")
  ELSE Record([me EXCEPT !.failing = TRUE, !.reply = "error", !.late = FALSE], <<Message("failure", r, 0)>>, "turnEnd")

\* Every wait, be it for listeners, a hook or an append, may end with an error.
Goes == UNCHANGED throws
Throws == throws < MaxThrows /\ Room /\ throws' = throws + 1

\* The step of a run that becomes me; once agent_end is emitted the harness is idle.
Becomes(r, me) ==
  \E next \in {me} : run' = [run EXCEPT ![r] = next] /\ phase' = IF next.pc = "ended" THEN "idle" ELSE phase

---------------------------------------------------------------------------
(* prompt, skill and promptFromTemplate. *)

Prompt(r) ==
  /\ run[r].pc = "none" /\ \A s \in Run : s < r => run[s].pc # "none"
  /\ phase = "idle" /\ Room
  /\ patience = "patient" => (\A s \in Run : ~Active(s)) /\ idleWrite.item = Nothing
  /\ phase' = "turn" /\ runPromise' = r
  /\ run' = [run EXCEPT ![r] = [NoRun EXCEPT !.pc = "begin", !.context = Messages(leaf)]]
  /\ UNCHANGED <<sessionVars, runAbortController, pendingSessionWrites, queueVars, callerVars, throws>>

\* Mutation: what was taken for the turn is not put back when its listener throws.
TakenAnyway(queue, threw) == <<>>

\* What is left of the messages for the next turn: they are put back when the listener of queue_update throws.
Taken(queue, threw) == IF threw THEN queue ELSE <<>>

\* executeTurn up to the loop.  The run can be aborted from here on.  What was taken when a hook of
\* before_agent_start throws is gone.
Begin(r) ==
  /\ run[r].pc = "begin" /\ UNCHANGED <<sessionVars, pendingSessionWrites, steerQueue, followUpQueue, queued, callerVars>>
  /\ \/ /\ Goes /\ nextTurnQueue' = Taken(nextTurnQueue, FALSE)
        /\ runAbortController' = r
        /\ Becomes(r, Take(run[r], Append(nextTurnQueue, Message("prompt", r, 0)), "poll"))
        /\ UNCHANGED runPromise
     \/ /\ Throws
        /\ \E queueThrows \in BOOLEAN :
             /\ nextTurnQueue' = Taken(nextTurnQueue, queueThrows)
             /\ run' = [run EXCEPT ![r].pc = "done", ![r].failing = TRUE,
                                    ![r].taken = IF queueThrows THEN {} ELSE Range(nextTurnQueue)]
        /\ runPromise' = 0 /\ phase' = "idle"
        /\ UNCHANGED runAbortController

\* Mutation: a write that could not be appended is dropped with the others.
ShiftedAnyway(list, appended) == IF list # <<>> THEN Tail(list) ELSE list

\* The writes that wait when an append of the first has ended: whichever is first by then is dropped.
Shifted(list, appended) == IF appended /\ list # <<>> THEN Tail(list) ELSE list

\* An append ends, and the next one or what follows begins.  A listener of message_end may throw.
AppendEnds(r) ==
  LET me == run[r]
      rest == [me EXCEPT !.item = Nothing, !.parent = 0, !.flushing = FALSE]
      \* The flush in executeTurn's finally.
      last == me.next \in {"return", "reject"}
  IN /\ me.pc = "append"
     /\ \E appended, threw \in BOOLEAN :
          /\ ~appended => threw
          /\ IF threw THEN Throws ELSE Goes
          /\ me.flushing /\ appended => ~threw
          /\ IF appended THEN Persist(me.item, me.parent, 0) ELSE UNCHANGED sessionVars
          /\ pendingSessionWrites' = IF me.flushing THEN Shifted(pendingSessionWrites, appended) ELSE pendingSessionWrites
          /\ Becomes(r, IF threw THEN IF last THEN Reach(rest, "reject") ELSE Thrown(r, rest)
                        ELSE IF me.flushing THEN Flush(rest, me.next) ELSE Record(rest, me.todo, me.next))
     /\ UNCHANGED <<runPromise, runAbortController, queueVars, callerVars>>

Waiting(r, at) ==
  /\ run[r].pc = at
  /\ UNCHANGED <<sessionVars, pendingSessionWrites, runPromise, runAbortController, callerVars, queued, nextTurnQueue>>

\* drainQueuedMessages: as many as the mode says.
Drained(queue) == IF queueMode = "all" \/ queue = <<>> THEN queue ELSE <<Head(queue)>>
Rest(queue) == SubSeq(queue, Len(Drained(queue)) + 1, Len(queue))

\* The loop looks for steering messages before the first reply.
Poll(r) ==
  /\ Waiting(r, "poll") /\ UNCHANGED followUpQueue
  /\ \/ Goes /\ steerQueue' = Rest(steerQueue) /\ Becomes(r, Take(run[r], Drained(steerQueue), "ask"))
     \/ Throws /\ steerQueue # <<>> /\ UNCHANGED steerQueue /\ Becomes(r, Thrown(r, run[r]))

Reply(me, r) == Message("reply", r, me.replies + 1)
\* The reply, with the results of its calls.
Answer(me, r, kind) ==
  LET messages == IF kind = "tool" THEN <<Reply(me, r), Message("result", r, me.replies + 1)>> ELSE <<Reply(me, r)>>
  IN Take([me EXCEPT !.reply = kind, !.replies = @ + 1], messages, "turnEnd")

\* Mutation: only the first request has the signal.
StopsLate(r) == r \in aborted /\ run[r].replies = 0

\* A provider answers a request whose signal is aborted at once.
Stops(r) == r \in aborted

\* The hooks of the request may throw.
Ask(r) ==
  /\ Waiting(r, "ask") /\ UNCHANGED <<steerQueue, followUpQueue>>
  /\ \/ Goes /\ Becomes(r, IF Stops(r) THEN Answer(run[r], r, "aborted") ELSE [run[r] EXCEPT !.pc = "stream"])
     \/ Throws /\ Becomes(r, Thrown(r, run[r]))

\* An abort ends the request, too.
Answers(r) ==
  /\ Waiting(r, "stream") /\ UNCHANGED <<steerQueue, followUpQueue>>
  /\ \E kind \in IF r \in aborted THEN {"aborted"} ELSE {"text", "tool", "error"} :
       /\ IF kind = "error" THEN Throws ELSE Goes
       /\ kind = "tool" => run[r].replies + 1 < MaxReplies
                           /\ Cardinality({i \in DOMAIN entries : entries[i].item[1] = "result"}) < MaxTools
       /\ Becomes(r, Answer(run[r], r, kind))

\* turn_end: what its listeners throw is kept until the writes are flushed.
TurnEnd(r) ==
  /\ Waiting(r, "turnEnd") /\ UNCHANGED <<steerQueue, followUpQueue>>
  /\ \/ Goes /\ Becomes(r, Flush(run[r], "savePoint"))
     \/ Throws /\ Becomes(r, Flush([run[r] EXCEPT !.late = TRUE], "savePoint"))

\* save_point; the run ends behind an error, and prepares the next turn behind any other reply.
SavePoint(r) ==
  /\ Waiting(r, "savePoint") /\ UNCHANGED <<steerQueue, followUpQueue>>
  /\ \/ Goes /\ run[r].late /\ Becomes(r, Thrown(r, run[r]))
     \/ Throws /\ ~run[r].late /\ Becomes(r, Thrown(r, run[r]))
     \/ /\ Goes /\ ~run[r].late
        /\ Becomes(r, Flush(run[r], IF run[r].reply \in {"error", "aborted"} THEN "ended" ELSE "prepare"))

\* prepareNextTurn has read the session, and steering messages are looked for.
Prepare(r) ==
  LET more == run[r].reply = "tool" \/ steerQueue # <<>>
  IN /\ Waiting(r, "prepare") /\ UNCHANGED followUpQueue
     /\ \/ /\ Goes /\ steerQueue' = Rest(steerQueue)
           /\ Becomes(r, Take(run[r], Drained(steerQueue), IF more THEN "ask" ELSE "followUp"))
        \/ Throws /\ UNCHANGED steerQueue /\ Becomes(r, Thrown(r, run[r]))

FollowUps(r) ==
  /\ Waiting(r, "followUp") /\ UNCHANGED steerQueue
  /\ \/ /\ Goes /\ followUpQueue' = Rest(followUpQueue)
        /\ Becomes(r, IF followUpQueue = <<>> THEN Flush(run[r], "ended") ELSE Take(run[r], Drained(followUpQueue), "ask"))
     \/ Throws /\ followUpQueue # <<>> /\ UNCHANGED followUpQueue /\ Becomes(r, Thrown(r, run[r]))

\* agent_end and settled, whose listeners may await a write of their own.
Ended(r) ==
  /\ Waiting(r, "ended") /\ UNCHANGED <<steerQueue, followUpQueue>>
  /\ patience = "patient" => idleWrite.item = Nothing
  /\ \/ Goes /\ Becomes(r, Flush(run[r], "return"))
     \/ Throws /\ Becomes(r, Thrown(r, run[r]))

\* executeTurn returns, and the prompt; one that is rejected leaves the harness idle, whoever uses it.
Return(r) ==
  /\ run[r].pc \in {"return", "reject"}
  /\ runAbortController' = 0 /\ runPromise' = 0
  /\ phase' = IF run[r].pc = "reject" THEN "idle" ELSE phase
  /\ run' = [run EXCEPT ![r].pc = "done", ![r].context = <<>>, ![r].item = Nothing, ![r].parent = 0, ![r].reply = "none",
                  ![r].taken = IF run[r].failing THEN @ ELSE {}]
  /\ UNCHANGED <<sessionVars, pendingSessionWrites, queueVars, callerVars, throws>>

---------------------------------------------------------------------------
(* What listeners, hooks and callers do meanwhile. *)

Queued(kind) == Message(kind, 0, queued + 1)
Queue ==
  /\ queued < MaxQueued /\ Room /\ queued' = queued + 1
  /\ \/ /\ phase # "idle" /\ steerQueue' = Append(steerQueue, Queued("steer"))
        /\ UNCHANGED <<followUpQueue, nextTurnQueue>>
     \/ /\ phase # "idle" /\ followUpQueue' = Append(followUpQueue, Queued("followUp"))
        /\ UNCHANGED <<steerQueue, nextTurnQueue>>
     \/ nextTurnQueue' = Append(nextTurnQueue, Queued("nextTurn")) /\ UNCHANGED <<steerQueue, followUpQueue>>
  /\ UNCHANGED <<sessionVars, phase, runPromise, runAbortController, pendingSessionWrites, run, callerVars, throws>>

\* appendMessage, setModel, setThinkingLevel: busy, the write waits; idle, it is appended at once.
Write ==
  LET item == Message("write", 0, writes + 1)
  IN /\ writes < MaxWrites /\ Room /\ writes' = writes + 1
     /\ \/ phase # "idle" /\ pendingSessionWrites' = Append(pendingSessionWrites, item) /\ UNCHANGED idleWrite
        \/ /\ phase = "idle" /\ idleWrite.item = Nothing
           /\ patience = "patient" => \A r \in Run : Active(r) => run[r].pc = "ended"
           /\ idleWrite' = [item |-> item, parent |-> leaf]
           /\ UNCHANGED pendingSessionWrites
     /\ UNCHANGED <<sessionVars, phase, runPromise, runAbortController, queueVars, queueMode, run, operation, aborted,
                    abortAsked, returned, patience, operations, throws, aborts>>

IdleWriteEnds ==
  /\ idleWrite.item # Nothing /\ idleWrite' = [item |-> Nothing, parent |-> 0]
  /\ \/ Goes /\ Persist(idleWrite.item, idleWrite.parent, 0) /\ UNCHANGED returned
     \/ Throws /\ returned' = returned \cup {idleWrite.item} /\ UNCHANGED sessionVars
  /\ UNCHANGED <<phase, runPromise, runAbortController, pendingSessionWrites, queueVars, queueMode, run, operation, aborted,
                 abortAsked, patience, writes, operations, aborts>>

\* Mutation: abort empties every queue.
ClearedAll(queue) == <<>>

\* Abort leaves the messages for the next turn alone.
Cleared(queue) == queue

\* abort, up to its waiting for the run; a run that has not begun has no controller yet.
Abort ==
  /\ (\E r \in Run : Active(r)) /\ aborts < MaxAborts /\ Room /\ aborts' = aborts + 1
  /\ steerQueue' = <<>> /\ followUpQueue' = <<>> /\ nextTurnQueue' = Cleared(nextTurnQueue)
  /\ returned' = returned \cup Range(steerQueue) \cup Range(followUpQueue)
  /\ aborted' = aborted \cup ({runAbortController} \ {0})
  /\ abortAsked' = abortAsked \cup {r \in Run : run[r].pc \notin {"none", "begin", "ended", "return", "reject", "done"}}
  /\ UNCHANGED <<sessionVars, phase, runPromise, runAbortController, pendingSessionWrites, queueMode, queued, run,
                 operation, idleWrite, patience, writes, operations, throws>>

UserKinds == {"prompt", "steer", "followUp", "nextTurn"}
\* compact, up to the summary, and navigateTree.
Operate ==
  /\ operations < MaxOperations /\ Room /\ operations' = operations + 1
  /\ phase = "idle" /\ leaf # 0
  /\ patience = "patient" => (\A s \in Run : ~Active(s)) /\ idleWrite.item = Nothing
  /\ \/ phase' = "compaction"
        /\ \E kept \in Range(Path(leaf)) : entries[kept].item[1] # "result" /\ operation' = <<"compact", kept>>
     \/ phase' = "branch_summary" /\ \E target \in DOMAIN entries \ {leaf} : operation' = <<"navigate", target>>
  /\ UNCHANGED <<sessionVars, runPromise, runAbortController, pendingSessionWrites, queueVars, queueMode, run, idleWrite,
                 aborted, abortAsked, returned, patience, writes, throws, aborts>>

\* A user's message is left for its parent, as its text goes to the editor.  The operation may fail, too; the
\* writes that have waited for it go on waiting.
OperationEnds ==
  LET kind == operation[1]
      at == operation[2]
  IN /\ kind # "none" /\ operation' = <<"none", 0>> /\ phase' = "idle"
     /\ \/ kind = "compact" /\ Persist(Message("summary", 0, operations), leaf, at)
        \/ /\ kind = "navigate" /\ UNCHANGED entries
           /\ leaf' = IF entries[at].item[1] \in UserKinds THEN entries[at].parent ELSE at
        \/ UNCHANGED sessionVars
     /\ UNCHANGED <<runPromise, runAbortController, pendingSessionWrites, queueVars, queueMode, run, idleWrite, aborted,
                    abortAsked, returned, patience, writes, operations, throws, aborts>>

RunStep(r) ==
  \/ Begin(r) \/ AppendEnds(r) \/ Poll(r) \/ Ask(r) \/ Answers(r) \/ TurnEnd(r) \/ SavePoint(r) \/ Prepare(r)
  \/ FollowUps(r) \/ Ended(r) \/ Return(r)
\* Files, listeners and the model answer.
HarnessStep == (\E r \in Run : RunStep(r)) \/ IdleWriteEnds \/ OperationEnds
HarnessFairness == WF_harnessVars(HarnessStep)
HarnessNext ==
  \/ \E r \in Run : Prompt(r) \/ RunStep(r)
  \/ Queue \/ Write \/ IdleWriteEnds \/ Abort \/ Operate \/ OperationEnds

---------------------------------------------------------------------------
Kinds == UserKinds \cup {"none", "reply", "result", "failure", "write", "summary"}
Messages3 == Kinds \X (0 .. MaxRuns) \X (0 .. MaxWrites + MaxQueued + MaxReplies + MaxOperations)

\* Type invariant.
HarnessTypeOK ==
  /\ \A i \in DOMAIN entries : entries[i].item \in Messages3 /\ entries[i].parent \in 0 .. i - 1
  /\ leaf \in 0 .. Len(entries) /\ {runPromise, runAbortController} \subseteq 0 .. MaxRuns
  /\ phase \in {"idle", "turn", "compaction", "branch_summary"}
  /\ \A q \in {pendingSessionWrites, steerQueue, followUpQueue, nextTurnQueue} : Range(q) \subseteq Messages3
  /\ \A r \in Run : Range(run[r].context) \cup Range(run[r].todo) \cup {run[r].item} \subseteq Messages3
  /\ aborted \subseteq Run /\ abortAsked \subseteq Run /\ returned \subseteq Messages3

Times(item, list) == Cardinality({i \in DOMAIN list : list[i] = item})
Recorded(item) == Cardinality({i \in DOMAIN entries : entries[i].item = item})

\* "Agent-emitted messages are persisted on message_end to preserve transcript ordering" (docs/agent-harness.md:196):
\* what a request gives to the model is what the session's branch holds, also behind a compaction or navigation, with
\* steering messages, and when writes wait for the save point.
RequestSeesBranch ==
  patience = "patient" => \A r \in Run : run[r].pc = "stream" => run[r].context = Messages(leaf)

\* "Pending session writes flush one-by-one and are not dropped on failure" (:304): a write is in the file or waits, once.
WritesKept ==
  patience = "patient" =>
    \A n \in 1 .. writes :
      LET item == Message("write", 0, n)
      IN item \notin returned \cup {idleWrite.item} => Recorded(item) + Times(item, pendingSessionWrites) = 1

\* A message that was queued waits, was recorded once, or went back to the caller of abort, which leaves those for the
\* next turn alone (:202); only a run that fails loses what it had taken.
QueuedKept ==
  \A n \in 1 .. queued :
    \E kind \in {"steer", "followUp", "nextTurn"} :
      LET item == Message(kind, 0, n)
          count == Recorded(item) + Times(item, steerQueue) + Times(item, followUpQueue) + Times(item, nextTurnQueue)
      IN \/ count = 1 /\ item \notin returned
         \/ count = 0 /\ item \in returned /\ kind # "nextTurn"
         \/ count = 0 /\ \E r \in Run : /\ item \in run[r].taken
                                        /\ run[r].failing \/ item \in Range(run[r].todo) \cup {run[r].item}

\* "Pending session writes are always persisted ... at save points, at operation settlement, and in failure cleanup" (:88):
\* when the harness is idle none waits.  It is not so for those made during a compaction or navigation.
NothingWaits == phase = "idle" => pendingSessionWrites = <<>>
\* It is so as long as there is neither one of them nor an error.
NothingWaitsAfterRuns == operations = 0 /\ throws = 0 => NothingWaits

\* "abort() signals cancellation" (:307): the run is aborted and asks the model for no further reply, if it had begun.
AbortStops ==
  [][\A r \in Run : patience = "patient" /\ run[r].pc = "ask" /\ run'[r].pc = "stream" => r \notin abortAsked]_harnessVars

\* Every prompt returns, and the harness is idle again, whatever fails.
HarnessWaits == phase # "idle" \/ \E r \in Run : Active(r)
HarnessEnds == HarnessWaits ~> ~HarnessWaits
=============================================================================
