---------------------------- MODULE MCAgentLoop ----------------------------
(***************************************************************************)
(* Three scenarios of AgentLoop for TLC, each with the bounds and the      *)
(* faults that make its question interesting.                              *)
(***************************************************************************)
EXTENDS AgentLoop

Bound(prompt, steer, follow, reply) ==
    [kind \in Kinds |-> CASE kind = "prompt" -> prompt [] kind = "steer" -> steer
                          [] kind = "follow" -> follow [] kind = "reply" -> reply]
BothModes == {"sequential", "parallel"}

\* Two steering messages, so that their order matters, with resets and a
\* provider that throws.
Queues == [maxSent |-> Bound(1, 2, 0, 2), maxCalls |-> 1, modes |-> {"sequential"},
           steeringMode |-> "one-at-a-time", followUpMode |-> "all",
           resetInRun |-> TRUE, throws |-> {"provider"}]
\* Three replies, so that two batches of calls follow each other in a run.
Batches == [maxSent |-> Bound(1, 1, 1, 3), maxCalls |-> 2, modes |-> BothModes,
            steeringMode |-> "all", followUpMode |-> "one-at-a-time",
            resetInRun |-> FALSE, throws |-> {}]
\* Listeners that throw; a failed run may be followed by another.
Throwing == [maxSent |-> Bound(1, 1, 0, 2), maxCalls |-> 2, modes |-> BothModes,
             steeringMode |-> "all", followUpMode |-> "all",
             resetInRun |-> FALSE, throws |-> {"listener"}]

All == {Queues, Batches, Throwing}
OnlyThrowing == {Throwing}

\* Every steering message that waits while tools run is injected or cleared,
\* unless a listener throws.
SteeringMessagesInjected == \A n \in 1 .. 2 : SteeringInjected(n)
============================================================================
