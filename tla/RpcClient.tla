------------------------------- MODULE RpcClient -------------------------------
(***************************************************************************)
(* The client of an agent that runs as another process (packages/          *)
(* coding-agent/src/modes/rpc/rpc-client.ts): requests with an id, answers *)
(* and events in lines, timeouts, an agent that exits, stop and start.     *)
(*                                                                         *)
(* The agent answers in any order, or not at all; the content of lines is  *)
(* left out, but for agent_end.                                            *)
(***************************************************************************)
EXTENDS Naturals, Sequences, FiniteSets, SequencesExt

CONSTANTS Requests,      \* the requests that may be sent
          Listeners,     \* those who wait for agent_end, with waitForIdle or collectEvents, or listen for good
          Waiters,       \* the ones that wait
          MaxEnds,       \* bound on the runs of the agent
          MaxStarts      \* bound on the agents that are started

VARIABLES agent,         \* the agent the client has, counted from 1: 0 is none
          alive,         \* whether it runs
          starts,
          exitError, pendingRequests,
          request,       \* request[q]: "none", "sent", "answered", "failed"
          asked,         \* the requests the agent has and has not answered
          lines,         \* what it has written: the id of a request, or "end"
          eventListeners,
          waiter,        \* waiter[w]: "none", "waits", "idle", "failed"
          strays,        \* the answers that were taken for events
          missed,        \* the listeners an agent_end did not reach
          ends

rpcVars == <<agent, alive, starts, exitError, pendingRequests, request, asked, lines, eventListeners, waiter, strays, missed, ends>>

RpcInit ==
  /\ agent = 0 /\ alive = FALSE /\ starts = 0 /\ exitError = FALSE /\ pendingRequests = {}
  /\ request = [q \in Requests |-> "none"] /\ asked = {} /\ lines = <<>>
  /\ eventListeners = <<>> /\ waiter = [w \in Listeners |-> "none"] /\ strays = {} /\ missed = {} /\ ends = 0

requestVars == <<pendingRequests, request, asked>>
listenerVars == <<eventListeners, waiter, missed>>

Start ==
  /\ agent = 0 /\ starts < MaxStarts /\ starts' = starts + 1
  /\ agent' = starts + 1 /\ alive' = TRUE /\ exitError' = FALSE
  /\ UNCHANGED <<requestVars, lines, listenerVars, strays, ends>>

\* stop: the reader is detached and the agent told to end; what is pending is forgotten, and left to its timer.
Stop ==
  /\ agent # 0 /\ agent' = 0 /\ alive' = FALSE
  /\ pendingRequests' = {} /\ asked' = {} /\ lines' = <<>>
  \* The exit comes before stop has ended, or after a second.
  /\ \/ request' = [q \in Requests |-> IF q \in pendingRequests THEN "failed" ELSE request[q]]
     \/ UNCHANGED request
  /\ UNCHANGED <<starts, exitError, listenerVars, strays, ends>>

\* send: nothing is sent to an agent that is known to have ended.
Send(q) ==
  /\ request[q] = "none"
  /\ IF agent = 0 \/ exitError \/ ~alive
     THEN request' = [request EXCEPT ![q] = "failed"] /\ UNCHANGED <<pendingRequests, asked>>
     ELSE /\ request' = [request EXCEPT ![q] = "sent"]
          /\ pendingRequests' = pendingRequests \cup {q} /\ asked' = asked \cup {q}
  /\ exitError' = (exitError \/ (agent # 0 /\ ~alive))
  /\ UNCHANGED <<agent, alive, starts, lines, listenerVars, strays, ends>>

\* The agent answers a request it has, or a run of it ends; what it has written before it exits is still read.
AgentAnswers ==
  /\ alive
  /\ \/ \E q \in asked : asked' = asked \ {q} /\ lines' = Append(lines, q) /\ UNCHANGED ends
     \/ ends < MaxEnds /\ ends' = ends + 1 /\ lines' = Append(lines, "end") /\ UNCHANGED asked
  /\ UNCHANGED <<agent, alive, starts, exitError, pendingRequests, request, listenerVars, strays>>
AgentExits ==
  /\ alive /\ alive' = FALSE /\ asked' = {}
  /\ UNCHANGED <<agent, starts, exitError, pendingRequests, request, lines, listenerVars, strays, ends>>

\* Mutation: an exit is only remembered.
RejectedLater(requests) == requests

\* rejectPendingRequests.
Rejected(requests) == {}

\* The exit is noticed: all requests that are pending fail.
Exit ==
  /\ agent # 0 /\ ~alive /\ ~exitError /\ exitError' = TRUE
  /\ pendingRequests' = Rejected(pendingRequests)
  /\ request' = [q \in Requests |-> IF q \in pendingRequests THEN "failed" ELSE request[q]]
  /\ UNCHANGED <<agent, alive, starts, asked, lines, listenerVars, strays, ends>>

\* The listeners an event reaches: one that waits takes itself from the list, which moves the next one out of reach.
Reached ==
  LET reached[i \in 1 .. Len(eventListeners)] == i = 1 \/ ~(reached[i - 1] /\ eventListeners[i - 1] \in Waiters)
  IN {eventListeners[i] : i \in {j \in 1 .. Len(eventListeners) : reached[j]}}

\* Mutation: the answer of a request that has timed out answers another one.
AnswersAny(line) == IF line \in pendingRequests \/ pendingRequests = {} THEN line ELSE CHOOSE q \in pendingRequests : TRUE

\* The request an answer is for.
AnswersTo(line) == line

\* handleLine.
HandleLine ==
  /\ lines # <<>> /\ agent # 0 /\ lines' = Tail(lines)
  /\ LET line == Head(lines)
         q == AnswersTo(line)
     IN \/ /\ line = "end"
           /\ eventListeners' = SelectSeq(eventListeners, LAMBDA l : l \notin Reached \cap Waiters)
           /\ waiter' = [l \in Listeners |-> IF l \in Reached \cap Waiters THEN "idle" ELSE waiter[l]]
           /\ missed' = missed \cup (Range(eventListeners) \ Reached)
           /\ UNCHANGED <<pendingRequests, request, strays>>
        \/ /\ line # "end" /\ q \in pendingRequests
           /\ pendingRequests' = pendingRequests \ {q} /\ request' = [request EXCEPT ![q] = "answered"]
           /\ UNCHANGED <<listenerVars, strays>>
        \/ /\ line # "end" /\ q \notin pendingRequests
           /\ strays' = strays \cup {line} /\ UNCHANGED <<pendingRequests, request, listenerVars>>
  /\ UNCHANGED <<agent, alive, starts, exitError, asked, ends>>

\* The timer of a request that was neither answered nor rejected.
Timeout(q) ==
  /\ request[q] = "sent"
  /\ request' = [request EXCEPT ![q] = "failed"] /\ pendingRequests' = pendingRequests \ {q}
  /\ UNCHANGED <<agent, alive, starts, exitError, asked, lines, listenerVars, strays, ends>>

\* onEvent, waitForIdle and collectEvents.
Listen(l) ==
  /\ waiter[l] = "none" /\ waiter' = [waiter EXCEPT ![l] = "waits"]
  /\ eventListeners' = Append(eventListeners, l)
  /\ UNCHANGED <<agent, alive, starts, exitError, requestVars, lines, strays, missed, ends>>
GiveUp(l) ==
  /\ l \in Waiters /\ waiter[l] = "waits" /\ waiter' = [waiter EXCEPT ![l] = "failed"]
  /\ eventListeners' = SelectSeq(eventListeners, LAMBDA m : m # l)
  /\ UNCHANGED <<agent, alive, starts, exitError, requestVars, lines, strays, missed, ends>>

RpcNext ==
  \/ Start \/ Stop \/ AgentAnswers \/ AgentExits \/ Exit \/ HandleLine
  \/ \E q \in Requests : Send(q) \/ Timeout(q)
  \/ \E l \in Listeners : Listen(l) \/ GiveUp(l)

\* Timers fire; nothing is expected of the agent.
RpcStep == (\E q \in Requests : Timeout(q)) \/ \E l \in Listeners : GiveUp(l)

---------------------------------------------------------------------------
\* Type invariant.
RpcTypeOK ==
  /\ agent \in 0 .. MaxStarts /\ {alive, exitError} \subseteq BOOLEAN /\ pendingRequests \cup asked \cup strays \subseteq Requests
  /\ request \in [Requests -> {"none", "sent", "answered", "failed"}]
  /\ Range(lines) \subseteq Requests \cup {"end"} /\ Range(eventListeners) \subseteq Listeners
  /\ waiter \in [Listeners -> {"none", "waits", "idle", "failed"}]

\* A request and its answer come together: while the client waits the answer is still possible, on its way or refused by
\* an exit; none is given another one's, and an answer whose request has failed goes to the listeners of events.
AnswersMeet ==
  /\ \A q \in Requests : request[q] = "answered" => q \notin asked \cup strays \cup Range(lines)
  /\ \A q \in strays : request[q] = "failed"
  /\ pendingRequests = {q \in Requests : request[q] = "sent"} \/ agent = 0 \/ starts > 1

\* "Resolves when agent_end event is received" (rpc-client.ts:428); listeners behind one that waits miss it.
EveryoneHears == missed = {}

\* Requests and those who wait for the end of a run do so no longer than their timers.
RpcWaits == (\E q \in Requests : request[q] = "sent") \/ \E l \in Waiters : waiter[l] = "waits"
=============================================================================
