----------------------------- MODULE LspClient -----------------------------
(***************************************************************************)
(* The language servers of Lumen (src/packages/coding-agent/src/core/      *)
(* lumen-lsp-client.ts and the calls of lumen-lsp.ts): the registry of     *)
(* clients, one per server and directory, here for one such key; the       *)
(* process of each client, its initialization, the requests and the        *)
(* document synchronization that go through it, the reaper of idle servers *)
(* and the disposal at the end of a session.                               *)
(*                                                                         *)
(* A caller is a tool call or the check after an edit.  It has a file of   *)
(* its own, whose text is counted by edits.  Time shows as what may happen *)
(* at any moment: a timeout, a reaped server, an answer that comes late.   *)
(***************************************************************************)
EXTENDS Naturals, FiniteSets, FiniteSetsExt

CONSTANTS Callers, MaxClients, MaxEdits, MaxStops

None == 0
Clients == 1..MaxClients

VARIABLES
  registered,   \* CLIENTS for the key: a client or None
  broken,       \* BROKEN_SERVERS holds the key
  client,       \* client -> [proc, init, told]: its process, its initialize request, whether Lumen has
                \* sent its process a signal
  caller,       \* caller -> [at, on, since, fresh]: where its call is, its client, the diagnosticsVersion
                \* when its wait began
  edits,        \* caller -> how often its file has been edited
  synced,       \* caller -> client -> the text the server was last sent (0: the file is not open)
  published,    \* caller -> client -> the text the diagnostics at hand are about (0: none yet)
  diagnosticsVersion, \* client -> notifications received
  crashed,      \* a server has ended that was not told to
  down,         \* Lumen has ended on a rejection nobody handles
  stops         \* reaps and disposals so far

lspVars == <<registered, broken, client, caller, edits, synced, published, diagnosticsVersion, crashed, down, stops>>

NotSpawned == [proc |-> "none", init |-> "none", told |-> FALSE]
AtRest == [at |-> "none", on |-> None, since |-> 0]

LspInit ==
  /\ registered = None /\ broken = FALSE
  /\ client = [i \in Clients |-> NotSpawned]
  /\ caller = [c \in Callers |-> AtRest]
  /\ edits = [c \in Callers |-> 0]
  /\ synced = [c \in Callers |-> [i \in Clients |-> 0]]
  /\ published = [c \in Callers |-> [i \in Clients |-> 0]]
  /\ diagnosticsVersion = [i \in Clients |-> 0]
  /\ crashed = FALSE /\ down = FALSE /\ stops = 0

---------------------------------------------------------------------------
Up(i) == client[i].proc = "up"
Usable == registered # None /\ ~client[registered].told
Unused == {i \in Clients : client[i].proc = "none"}
Rests(c) == ~down /\ caller[c].at = "none"
Ends(c) == [caller EXCEPT ![c] = AtRest]

\* What a caller does as soon as it has its client: ensureFileOpen and syncContent, then it waits for
\* diagnostics, or for the answer of a request.
GoOn(c, i, kind) ==
  /\ caller' = [caller EXCEPT ![c] = [at |-> kind, on |-> i, since |-> diagnosticsVersion[i]]]
  /\ synced' = [synced EXCEPT ![c][i] = edits'[c]]

\* getOrCreateClient with a client in the registry: it is handed out at once, initialized or not.
Reuse(c, kind) ==
  /\ Rests(c) /\ ~broken /\ Usable
  /\ GoOn(c, registered, kind)
  /\ UNCHANGED <<registered, broken, client, published, diagnosticsVersion, crashed, down, stops>>

\* Mutation: the client is registered once it is initialized.
RegisteredLater(i) == None
Registered(i) == i

\* ... and without: a process is spawned and registered, and asked to initialize.
Spawn(c, kind) ==
  /\ Rests(c) /\ ~broken /\ ~Usable
  /\ \E i \in Unused :
       /\ \A j \in Unused : i <= j
       /\ client' = [client EXCEPT ![i] = [proc |-> "up", init |-> "asked", told |-> FALSE]]
       /\ registered' = Registered(i)
       /\ caller' = [caller EXCEPT ![c] = [at |-> "starting", on |-> i, since |-> 0, then |-> kind]]
  /\ UNCHANGED <<broken, synced, published, diagnosticsVersion, crashed, down, stops>>

\* A call about a file that has just been edited, or one that has not.
Begin(c) ==
  /\ \/ MapThenSumSet(LAMBDA d : edits[d], Callers) < MaxEdits /\ edits' = [edits EXCEPT ![c] = @ + 1]
     \/ edits[c] > 0 /\ edits' = edits
  /\ \E kind \in {"diagnostics", "request"} : Reuse(c, kind) \/ Spawn(c, kind)

Initialized(c) ==
  LET i == caller[c].on IN
  /\ ~down /\ caller[c].at = "starting" /\ Up(i)
  /\ client' = [client EXCEPT ![i].init = "done"]
  /\ edits' = edits
  /\ GoOn(c, i, caller[c].then)
  /\ UNCHANGED <<registered, broken, published, diagnosticsVersion, crashed, down, stops>>

\* An error or no answer in time: the server is stopped, the key forgotten, and the promise of the
\* initialization, which nobody waits for, rejected.
InitializeFails(c) ==
  LET i == caller[c].on IN
  /\ ~down /\ caller[c].at = "starting"
  /\ client' = [client EXCEPT ![i].told = TRUE, ![i].init = "failed"]
  /\ registered' = None
  /\ caller' = Ends(c)
  /\ down' = TRUE
  /\ UNCHANGED <<broken, edits, synced, published, diagnosticsVersion, crashed, stops>>

---------------------------------------------------------------------------
\* The exit of a process, by itself or on a signal: requests that wait are rejected, whatever client the
\* key has now is forgotten, and the key is broken.
Exit(i) ==
  /\ ~down /\ Up(i)
  /\ client' = [client EXCEPT ![i].proc = "gone"]
  /\ caller' = [c \in Callers |-> IF caller[c].on = i /\ caller[c].at \in {"request", "starting"}
                                  THEN AtRest ELSE caller[c]]
  /\ registered' = None
  /\ broken' = TRUE
  /\ crashed' = (crashed \/ ~client[i].told)
  /\ down' = (client[i].init = "asked")
  /\ UNCHANGED <<edits, synced, published, diagnosticsVersion, stops>>

\* The reaper of servers that have been silent for ten minutes; an initialization does not last that long.
Reap ==
  /\ ~down /\ registered # None /\ client[registered].init = "done" /\ stops < MaxStops
  /\ client' = [client EXCEPT ![registered].told = TRUE]
  /\ registered' = None
  /\ stops' = stops + 1
  /\ UNCHANGED <<broken, caller, edits, synced, published, diagnosticsVersion, crashed, down>>

\* session_shutdown, also that of a reload: disposeAllClients.
Dispose ==
  /\ ~down /\ stops < MaxStops
  /\ client' = [i \in Clients |-> IF i = registered THEN [client[i] EXCEPT !.told = TRUE] ELSE client[i]]
  /\ registered' = None
  /\ broken' = FALSE
  /\ stops' = stops + 1
  /\ UNCHANGED <<caller, edits, synced, published, diagnosticsVersion, crashed, down>>

---------------------------------------------------------------------------
\* publishDiagnostics: about any text of the file the server has been sent since the last one.
Publish(c, i) ==
  /\ ~down /\ Up(i) /\ synced[c][i] > published[c][i]
  /\ \E text \in (published[c][i] + 1)..synced[c][i] : published' = [published EXCEPT ![c][i] = text]
  /\ diagnosticsVersion' = [diagnosticsVersion EXCEPT ![i] = @ + 1]
  /\ UNCHANGED <<registered, broken, client, caller, edits, synced, crashed, down, stops>>

\* waitForDiagnostics returns once anything was published and there are diagnostics for the file ...
Diagnosed(c) ==
  /\ ~down /\ caller[c].at = "diagnostics"
  /\ diagnosticsVersion[caller[c].on] > caller[c].since /\ published[c][caller[c].on] # 0
  /\ caller' = Ends(c)
  /\ UNCHANGED <<registered, broken, client, edits, synced, published, diagnosticsVersion, crashed, down, stops>>

\* Mutation: a wait for diagnostics has no end of its own.
GiveUpRequest(c) ==
  /\ ~down /\ caller[c].at = "request"
  /\ caller' = Ends(c)
  /\ UNCHANGED <<registered, broken, client, edits, synced, published, diagnosticsVersion, crashed, down, stops>>

\* ... or when its time is up; a request ends with its answer, its timeout or its abort.
GiveUp(c) ==
  /\ ~down /\ caller[c].at \in {"diagnostics", "request"}
  /\ caller' = Ends(c)
  /\ UNCHANGED <<registered, broken, client, edits, synced, published, diagnosticsVersion, crashed, down, stops>>

LspNext ==
  \/ \E c \in Callers : Begin(c) \/ Initialized(c) \/ InitializeFails(c) \/ Diagnosed(c) \/ GiveUp(c)
  \/ \E i \in Clients : Exit(i) \/ \E c \in Callers : Publish(c, i)
  \/ Reap \/ Dispose

\* Every wait has a timeout.
LspStep(c) == InitializeFails(c) \/ Initialized(c) \/ GiveUp(c) \/ Diagnosed(c)
LspFairness == \A c \in Callers : WF_lspVars(LspStep(c))

LspSpec == LspInit /\ [][LspNext]_lspVars /\ LspFairness

---------------------------------------------------------------------------
LspTypeOK ==
  /\ registered \in Clients \cup {None}
  /\ \A i \in Clients : client[i] \in [proc: {"none", "up", "gone"}, init: {"none", "asked", "done", "failed"},
                                       told: BOOLEAN]
  /\ \A c \in Callers : /\ caller[c].at \in {"none", "starting", "diagnostics", "request"}
                        /\ \A i \in Clients : published[c][i] <= synced[c][i]

\* As long as no session was shut down, at most one server runs that Lumen has not told to stop:
\* concurrent callers share one, also while it starts, and one that lost its place in the registry to
\* the exit of its predecessor gets no successor.
OneServer == stops <= 1 => Cardinality({i \in Clients : Up(i) /\ ~client[i].told}) <= 1

\* A call ends: its answer, its timeout or the exit of its server comes in every order.
CallerWaits(c) == caller[c].at # "none" /\ ~down
CallersEnd == \A c \in Callers : CallerWaits(c) ~> ~CallerWaits(c)

\* "Servers that crashed; don't retry this session" (lumen-lsp-client.ts:105): a key is broken only when a
\* server ended that Lumen had not told to.
BrokenMeansCrashed == broken => crashed

\* "silently skip - don't disrupt the tool result" (lumen-lsp.ts:1050): a server that cannot be started
\* does no more than leave the diagnostics out.
FailureIsSilent == ~down

\* "Wait for diagnostics to be published for a URI" (lumen-lsp-client.ts:600): a wait that ends before
\* its time does so with diagnostics about the text its caller has synced.
DiagnosticsAreFresh ==
  [][\A c \in Callers : Diagnosed(c) => published[c][caller[c].on] = synced[c][caller[c].on]]_lspVars
=============================================================================
