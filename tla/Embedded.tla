------------------------------- MODULE Embedded -------------------------------
(***************************************************************************)
(* The two ways to embed an agent, each on its own: the client of an agent *)
(* in another process, and the harness in one's own.                       *)
(***************************************************************************)
EXTENDS Naturals, Sequences, FiniteSets

CONSTANTS
  Requests, Listeners, Waiters, MaxEnds, MaxStarts,      \* of the client
  MaxRuns, MaxWrites, MaxQueued, MaxReplies, MaxTools,   \* of the harness
  MaxOperations, MaxThrows, MaxAborts, MaxEvents, Callers

VARIABLES part,
  agent, alive, starts, exitError, pendingRequests, request, asked, lines, eventListeners, waiter, strays, missed,
  ends,
  entries, leaf, phase, runPromise, runAbortController, pendingSessionWrites, steerQueue, followUpQueue,
  nextTurnQueue, queueMode, run, operation, idleWrite, aborted, abortAsked, returned, patience, writes, queued,
  operations, throws, aborts

Rpc == INSTANCE RpcClient
Harness == INSTANCE AgentHarness

\* The id of a request is no event; the bounds are numbers.
ASSUME RequestsAssumption == "end" \notin Requests
ASSUME CountsAssumption == MaxRuns \in Nat /\ MaxWrites \in Nat /\ MaxQueued \in Nat

rpcVars == <<agent, alive, starts, exitError, pendingRequests, request, asked, lines, eventListeners, waiter, strays,
             missed, ends>>
harnessVars == <<entries, leaf, phase, runPromise, runAbortController, pendingSessionWrites, steerQueue,
                 followUpQueue, nextTurnQueue, queueMode, run, operation, idleWrite, aborted, abortAsked, returned,
                 patience, writes, queued, operations, throws, aborts>>

EmbeddedInit == Rpc!RpcInit /\ Harness!HarnessInit
OfClient == part = "rpc" /\ Rpc!RpcNext /\ UNCHANGED <<part, harnessVars>>
OfHarness == part = "harness" /\ Harness!HarnessNext /\ UNCHANGED <<part, rpcVars>>
EmbeddedNext == OfClient \/ OfHarness

\* What the instances of MCClients do, as far as these variables go.
Embedding == EmbeddedInit /\ [][EmbeddedNext]_<<part, rpcVars, harnessVars>>

---------------------------------------------------------------------------
\* An answer of the agent meets the request it is for, however late it comes and whichever agent gave it.  For callers
\* that await what they call, a request of the harness gives the model what the session's branch holds; a session write
\* is kept, once, through errors and aborts; a queued message waits, was recorded or went back; nothing waits behind a
\* run without errors (docs/agent-harness.md:86-88, 196-204); and an abort of a run that has begun is followed by no
\* request of it.
RecordIsKept ==
  /\ [](part = "rpc" => Rpc!AnswersMeet)
  /\ [](part = "harness" => Harness!RequestSeesBranch /\ Harness!WritesKept /\ Harness!QueuedKept /\ Harness!NothingWaitsAfterRuns)
  /\ Harness!AbortStops
=============================================================================
