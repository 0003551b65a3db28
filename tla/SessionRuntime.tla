---------------------------- MODULE SessionRuntime ----------------------------
(***************************************************************************)
(* The replacement of the current session (core/agent-session-runtime.ts)  *)
(* by /new, /resume, /fork and imports, with the binding of the new one to *)
(* its mode (modes/rpc/rpc-mode.ts and the rebindCurrentSession of         *)
(* modes/interactive/interactive-mode.ts).  Each operation awaits handlers *)
(* of extensions in between.                                               *)
(***************************************************************************)
EXTENDS Naturals, Sequences, SequencesExt

CONSTANTS Clients,       \* callers of the runtime
          Modes,         \* the modes it may run in: a subset of {"rpc", "interactive"}
          Patience,      \* {TRUE} when a caller waits for the operation before it, in BOOLEAN
          MaxSessions,   \* bound on the sessions
          MaxFailures    \* bound on the creations that fail

VARIABLES mode, patient,
          current,       \* _session
          session,       \* session[s]: "none", "live" or "disposed"
          heard,         \* heard[s]: the events the extensions of s were sent
          replacing,     \* replacing[c]: what the operation of a caller awaits
          failed,        \* the last creation has failed, or the runtime was disposed of
          failures       \* creations that have failed

runtimeVars == <<mode, patient, current, session, heard, replacing, failed, failures>>

Sessions == 1 .. MaxSessions

RuntimeInit ==
  /\ mode \in Modes /\ patient \in Patience
  /\ current = 1
  /\ session = [s \in Sessions |-> IF s = 1 THEN "live" ELSE "none"]
  /\ heard = [s \in Sessions |-> IF s = 1 THEN <<"start">> ELSE <<>>]
  /\ replacing = [c \in Clients |-> "idle"]
  /\ failed = FALSE /\ failures = 0

Goes(c, from, to) == replacing[c] = from /\ replacing' = [replacing EXCEPT ![c] = to]
Tell(s, event) == heard' = [heard EXCEPT ![s] = Append(@, event)]

\* newSession, switchSession, fork, importFromJsonl: the handlers of session_before_switch or
\* session_before_fork are asked first.
BeginReplacement(c) ==
  /\ Goes(c, "idle", "before")
  /\ patient => \A d \in Clients : replacing[d] = "idle"
  /\ UNCHANGED <<mode, patient, current, session, heard, failed, failures>>

\* A handler cancels; or the entry, the file or its directory is not there.
Declined(c) == Goes(c, "before", "idle") /\ UNCHANGED <<mode, patient, current, session, heard, failed, failures>>

\* teardownCurrent: session_shutdown is sent to the session that is current now.
Teardown(c) ==
  /\ Goes(c, "before", "shutdown")
  /\ Tell(current, "shutdown")
  /\ UNCHANGED <<mode, patient, current, session, failed, failures>>

\* Mutation: the old session is disposed of only when the new one is there.
DisposeLate(c) == Goes(c, "shutdown", "creating") /\ UNCHANGED <<mode, patient, current, session, heard, failed, failures>>

\* What is current when the handlers have ended is disposed of.
Dispose(c) ==
  /\ Goes(c, "shutdown", "creating")
  /\ session' = [session EXCEPT ![current] = "disposed"]
  /\ UNCHANGED <<mode, patient, current, heard, failed, failures>>

New == {s \in Sessions : session[s] = "none"}

\* createRuntime and apply.  The mode binds the session at once, unless a setup is awaited first.
Created(c) ==
  /\ New # {}
  /\ LET s == CHOOSE s \in New : \A t \in New : s <= t
     IN /\ current' = s
        /\ session' = [session EXCEPT ![s] = "live"]
        /\ failed' = FALSE
        /\ \/ Goes(c, "creating", "binding") /\ Tell(s, "start")
           \/ mode = "interactive" /\ Goes(c, "creating", "setup") /\ UNCHANGED heard
  /\ UNCHANGED <<mode, patient, failures>>

SetUp(c) ==
  /\ Goes(c, "setup", "binding")
  /\ Tell(current, "start")
  /\ UNCHANGED <<mode, patient, current, session, failed, failures>>

\* The services, the extensions or the model of the new session cannot be had.
CreateFails(c) ==
  /\ failures < MaxFailures /\ failures' = failures + 1
  /\ Goes(c, "creating", "idle")
  /\ failed' = TRUE
  /\ UNCHANGED <<mode, patient, current, session, heard>>

\* rebindSession has bound the session; a command of the RPC client, not one of an extension, binds it
\* once more.
Bound(c) ==
  /\ \/ mode = "rpc" /\ Goes(c, "binding", "again") /\ Tell(current, "start")
     \/ Goes(c, "binding", "idle") /\ UNCHANGED heard
  /\ UNCHANGED <<mode, patient, current, session, failed, failures>>
BoundAgain(c) == Goes(c, "again", "idle") /\ UNCHANGED <<mode, patient, current, session, heard, failed, failures>>

\* dispose, when the program quits: at any time.
Quit(c) ==
  /\ Goes(c, "idle", "quitting")
  /\ patient => \A d \in Clients : replacing[d] = "idle"
  /\ Tell(current, "shutdown")
  /\ failed' = TRUE
  /\ UNCHANGED <<mode, patient, current, session, failures>>
QuitDisposes(c) ==
  /\ Goes(c, "quitting", "gone")
  /\ session' = [session EXCEPT ![current] = "disposed"]
  /\ UNCHANGED <<mode, patient, current, heard, failed, failures>>

Exited == \E c \in Clients : replacing[c] = "gone"

RuntimeNext == ~Exited /\ \E c \in Clients :
  \/ BeginReplacement(c) \/ Declined(c) \/ Teardown(c) \/ Dispose(c)
  \/ Created(c) \/ SetUp(c) \/ CreateFails(c) \/ Bound(c) \/ BoundAgain(c)
  \/ Quit(c) \/ QuitDisposes(c)

---------------------------------------------------------------------------
\* Type invariant.
RuntimeTypeOK ==
  /\ current \in Sessions /\ session \in [Sessions -> {"none", "live", "disposed"}]
  /\ failures \in 0 .. MaxFailures
  /\ heard \in [Sessions -> Seq({"start", "shutdown"})]
  /\ replacing \in [Clients -> {"idle", "before", "shutdown", "creating", "setup", "binding", "again",
                                "quitting", "gone"}]

Live == {s \in Sessions : session[s] = "live"}
AllIdle == \A c \in Clients : replacing[c] = "idle"

\* For callers that wait: never are two sessions live; between operations the current one is, unless a
\* replacement failed behind its teardown; and the extensions of a session are told of its end
\* before they are disposed of, and of its start first.
SessionsInTurn ==
  patient =>
    /\ Live \subseteq {current}
    /\ AllIdle /\ ~failed => Live = {current}
    /\ \A s \in Sessions :
         /\ session[s] = "disposed" => "shutdown" \in ToSet(heard[s])
         /\ ~failed => \A i, j \in DOMAIN heard[s] : heard[s][i] = "start" /\ heard[s][j] = "shutdown" => i < j

\* "then emits session_start" (docs/extensions.md:394): a session starts once.
StartsOnce == patient => \A s \in Sessions : Len(SelectSeq(heard[s], LAMBDA e : e = "start")) <= 1

\* The same of callers that do not wait; it does not hold.
OneSession == AllIdle /\ ~failed => Live = {current}
=============================================================================
