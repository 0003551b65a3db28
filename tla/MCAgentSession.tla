--------------------------- MODULE MCAgentSession ---------------------------
(***************************************************************************)
(* Scenarios of AgentSession for TLC, each small and each for one mix of   *)
(* operations, so that one run checks them all.                            *)
(***************************************************************************)
EXTENDS AgentSession

CONSTANTS c1, c2

One == {c1}
Two == {c1, c2}

Scenario(client, callers, operations, outcomes, throws) ==
    [client |-> client, callers |-> callers, operations |-> operations,
     outcomes |-> outcomes, throws |-> throws]

Mixed == {
    Scenario("patient", One, {"bash", "abort"}, {"ok", "large", "retryable", "overflow"}, FALSE),
    Scenario("patient", One, {"steer"}, {"ok", "retryable", "overflow"}, FALSE),
    Scenario("patient", One, {"steer", "abort"}, {"ok", "retryable"}, FALSE),
    Scenario("patient", Two, {"bash"}, {"ok", "large", "retryable", "fatal"}, FALSE),
    Scenario("patient", One, {"steer", "bash", "clear"}, {"ok", "large"}, FALSE),
    Scenario("patient", One, {"compact", "steer"}, {"ok", "retryable"}, FALSE),
    Scenario("patient", One, {"compact", "abort_compaction"}, {"large", "overflow"}, FALSE),
    Scenario("patient", Two, {}, {"ok", "large"}, TRUE),
    Scenario("patient", One, {"steer"}, {"ok", "large", "overflow"}, TRUE),
    Scenario("patient", One, {"abort"}, {"ok", "retryable"}, TRUE),
    Scenario("patient", One, {"steer", "bash"}, {"ok", "overflow", "silent"}, FALSE),
    Scenario("stalled", One, {"steer", "bash"}, {"ok", "retryable"}, FALSE),
    Scenario("eager", Two, {"abort_compaction"}, {"large"}, FALSE),
    Scenario("eager", One, {"compact", "bash"}, {"ok", "overflow"}, FALSE),
    Scenario("eager", Two, {}, {"overflow"}, FALSE)}

\* Two clients that do not wait for each other, and a model with errors.
Eager == {Scenario("eager", Two, {}, {"large", "retryable"}, FALSE)}
EagerRetry == {Scenario("eager", Two, {}, {"ok", "retryable"}, FALSE)}
Bash == {Scenario("patient", One, {"bash"}, {"ok"}, FALSE)}
AbortRetries == {Scenario("patient", One, {"abort"}, {"ok", "retryable"}, FALSE)}
=============================================================================
