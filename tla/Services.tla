------------------------------ MODULE Services ------------------------------
(***************************************************************************)
(* The services around the session, each on its own: a behaviour takes     *)
(* steps of one part, chosen at its start, while the variables of the      *)
(* others keep their initial values.                                       *)
(***************************************************************************)
EXTENDS Naturals, Sequences, FiniteSets

CONSTANTS
  Parts,                                   \* the parts a run is about
  Procs,                                   \* processes, or callers of one service
  MaxFaults,                               \* deaths and failures of a process
  Paths, Values, Asks, MaxSets,            \* settings, and what each process calls
  OAuth, Keys, MaxToken, MaxAuthCalls,     \* providers, and bounds on tokens and calls
  MaxClients, MaxEdits, MaxStops,          \* bounds on language servers, edits, and stops
  Chunks, MaxOutput, MaxBytes, MaxLines,   \* output of a command, and its limits
  MaxPath, MaxSize, KeepRecentTokens,      \* a path that is compacted
  MaxTrace, Batch, MaxBadDisk,             \* bounds of the trace
  Modes, Patience, MaxSessions, MaxFailures, \* replacements of the session
  TaskIds, NoTask                          \* ids of sub-agent tasks

VARIABLES part,
  file, lock, alive, mem, modified, loadError, shown, queue, task, errors, asked, count,
  auth, authLock, data, loadFailed, call, compromised, stalled, issued, used, wasted, expired, mishap, reused, spent,
  registered, broken, client, caller, edits, synced, published, diagnosticsVersion, crashed, down, stops,
  raw, text, cut, tail, atLineStart, counts, rawChunks, toolFile, finished, chunks, execFile,
  path, open,
  buffered, flushTimer, inFlight, traceFile, emitted, badDisk, gone, overtaken, unscheduled, exited,
  mode, patient, current, session, heard, replacing, failed, failures,
  tasks, signalAborted, toolCall, subAgent, reported, sameTime, localMap, shared, replaced

Settings == INSTANCE SettingsManager WITH MaxCalls <- MaxSets
Auth == INSTANCE AuthStorage WITH MaxCalls <- MaxAuthCalls
Lsp == INSTANCE LspClient WITH Callers <- Procs
Bash == INSTANCE BashOutput
Compactor == INSTANCE Compaction
Trace == INSTANCE WireTrace
Runtime == INSTANCE SessionRuntime WITH Clients <- Procs
SubAgents == INSTANCE SubAgentTask WITH TaskCalls <- Procs

\* Names that stand for nobody name no process, setters are given a scope, a setting and a value, a
\* provider has a token or a plain key, and there is a session to start with.
ASSUME FreeAssumption == Auth!Free \notin Procs
ASSUME NoTaskAssumption == NoTask \notin Procs
ASSUME AsksAssumption == Asks \in [Procs -> SUBSET (Settings!Scopes \X Paths \X Values)]
ASSUME KindsAssumption == OAuth \cap Keys = {}
ASSUME SessionsAssumption == MaxSessions \in Nat \ {0}

\* A plain key is credential 1, a message is one token or more; a chunk of output has a byte.  The limits
\* of the output are 50 KB and 2000 lines (DEFAULT_MAX_BYTES, DEFAULT_MAX_LINES): the largest character
\* that is decoded here fits.  A run is about parts that there are.
ASSUME BoundsAssumption ==
  /\ MaxToken \in Nat \ {0} /\ MaxSize \in Nat \ {0}
  /\ MaxOutput \in Nat /\ MaxTrace \in Nat /\ MaxBadDisk \in Nat /\ MaxFailures \in Nat
ASSUME LimitsAssumption == MaxBytes \in Nat /\ MaxBytes >= 2 /\ MaxLines \in Nat \ {0}
ASSUME PartsAssumption ==
  Parts \subseteq {"settings", "auth", "lsp", "bash", "compaction", "trace", "runtime", "tasks"}
ASSUME ChunksAssumption == Chunks \subseteq Seq({"a", "n", "L", "T"}) \ {<<>>}

settingsVars == <<file, lock, alive, mem, modified, loadError, shown, queue, task, errors, asked, count>>
authVars == <<auth, authLock, data, loadFailed, call, compromised, stalled, issued, used, wasted, expired, mishap, reused, spent>>
lspVars == <<registered, broken, client, caller, edits, synced, published, diagnosticsVersion, crashed, down, stops>>
outputVars == <<raw, text, cut, tail, atLineStart, counts, rawChunks, toolFile, finished, chunks, execFile>>
compactionVars == <<path, open>>
traceVars == <<buffered, flushTimer, inFlight, traceFile, emitted, badDisk, gone, overtaken, unscheduled, exited>>
runtimeVars == <<mode, patient, current, session, heard, replacing, failed, failures>>
taskVars == <<tasks, signalAborted, toolCall, subAgent, reported, sameTime, localMap, shared, replaced>>
othersVars == <<compactionVars, traceVars, runtimeVars, taskVars>>
firstVars == <<settingsVars, authVars, lspVars, outputVars>>
allVars == <<part, firstVars, othersVars>>

ServicesInit ==
  /\ part \in Parts
  /\ Settings!Init /\ Auth!Init /\ Lsp!LspInit /\ Bash!OutputInit
  /\ Compactor!CompactionInit /\ Trace!TraceInit /\ Runtime!RuntimeInit /\ SubAgents!TaskInit
  /\ part # "runtime" => mode = "rpc" /\ patient
  /\ part # "tasks" => tasks = [c \in Procs |-> TaskIds] /\ sameTime

SettingsStep == part = "settings" /\ Settings!Next /\ UNCHANGED <<part, authVars, lspVars, outputVars, othersVars>>
AuthStep == part = "auth" /\ Auth!Next /\ UNCHANGED <<part, settingsVars, lspVars, outputVars, othersVars>>
LspStep == part = "lsp" /\ Lsp!LspNext /\ UNCHANGED <<part, settingsVars, authVars, outputVars, othersVars>>
BashStep == part = "bash" /\ Bash!OutputNext /\ UNCHANGED <<part, settingsVars, authVars, lspVars, othersVars>>
CompactionStep == part = "compaction" /\ Compactor!CompactionNext /\ UNCHANGED <<part, firstVars, traceVars, runtimeVars, taskVars>>
TraceStep == part = "trace" /\ Trace!TraceNext /\ UNCHANGED <<part, firstVars, compactionVars, runtimeVars, taskVars>>
RuntimeStep == part = "runtime" /\ Runtime!RuntimeNext /\ UNCHANGED <<part, firstVars, compactionVars, traceVars, taskVars>>
TaskStep == part = "tasks" /\ SubAgents!TaskNext /\ UNCHANGED <<part, firstVars, compactionVars, traceVars, runtimeVars>>

ServicesNext ==
  \/ SettingsStep \/ AuthStep \/ LspStep \/ BashStep
  \/ CompactionStep \/ TraceStep \/ RuntimeStep \/ TaskStep

\* The fairness of each part is that of its module, for the part a behaviour is about.
Fairness == \A p \in Procs : /\ WF_settingsVars(part = "settings" /\ Settings!Step(p))
                            /\ WF_authVars(part = "auth" /\ Auth!Step(p))
                            /\ WF_lspVars(part = "lsp" /\ Lsp!LspStep(p))
                            /\ WF_taskVars(part = "tasks" /\ SubAgents!TaskStep(p))

Services == ServicesInit /\ [][ServicesNext]_allVars /\ Fairness

---------------------------------------------------------------------------
\* Type invariant: every variable of every part keeps its type.
ServicesTypeOK ==
  CASE part = "settings" -> Settings!TypeOK
    [] part = "auth" -> Auth!TypeOK
    [] part = "lsp" -> Lsp!LspTypeOK
    [] part = "bash" -> Bash!OutputTypeOK
    [] part = "compaction" -> Compactor!CompactionTypeOK
    [] part = "trace" -> Trace!TraceTypeOK
    [] part = "runtime" -> Runtime!RuntimeTypeOK
    [] part = "tasks" -> SubAgents!TaskTypeOK

\* What is stored stays, however old a writer's memory is: when the queue of writes has been awaited and
\* no error was recorded, the file of settings holds what the setters were last given (docs/sdk.md:820),
\* where no other process sets the same, unless a process dies or the disk fills up in the middle of a
\* write, or two found no file; a write changes only paths its process has changed
\* (test/settings-manager-bug.test.ts); a file that was cut short is left for the user to repair, and no
\* later write replaces it by the few settings of one process; a reload forgets no setting that was set
\* before; and a credential changes only by a call about its provider, so a refresh that read the file
\* seconds ago takes back nothing.
StoredIsKept ==
  /\ [](part = "settings" => Settings!FlushIsDurable)
  /\ Settings!OthersKept /\ Settings!CutFileIsKept /\ Settings!ReloadKeepsSets
  /\ Auth!OthersKept

\* What several may ask for at once is done once.  Processes that find the same token expired do not
\* exchange it twice ("to prevent race conditions", auth-storage.ts:404) as long as none is stopped or
\* dies while it holds the lock; the token in the file is one the server will still exchange, or the
\* process that has exchanged it holds the lock and the next one.  A token whose answer was lost is the
\* exception: it stays in the file and is asked with again (wasted).  As long as no session was shut down,
\* at most one language server runs that Lumen has not told to stop, also while it starts, and one that
\* lost its place in the registry to the exit of its predecessor gets no successor.  And for callers that
\* wait for one another one session is live, each is told of its start, then of its end, before it is
\* disposed of.  Each published event is once in the trace, in its order, or on its way there; only an
\* append that fails, or that an exit interrupts, takes lines with it, and what waits has a flush coming.
OneAtATime ==
  /\ part = "auth" => Auth!NeverReused /\ Auth!TokenSurvives
  /\ part = "lsp" => Lsp!OneServer
  /\ part = "runtime" => Runtime!SessionsInTurn
  /\ part = "trace" => Trace!TraceIsWhole

\* "Output is truncated to last ... lines or ...KB" (bash.ts:279): the tool shows what truncateTail would
\* make of the whole output, unless the last line is longer than the kept tail and a newline ends it; the
\* totals beside the tail are those of the whole output, wherever chunks end.  "If truncated, full output
\* is saved to a temp file", from its first byte on, also when it was the last byte that made it too
\* much; memory stays bounded (output-accumulator.ts:30); and the executor shows the end of the output,
\* but for the half of a character its decoder still holds, with a file that has the whole.
OutputIsWhole ==
  /\ part = "bash" =>
       /\ Bash!SnapshotIsTailOrLongLine /\ Bash!CountsAreExact /\ Bash!TempFilesAreWhole
       /\ Bash!MemoryIsBounded /\ Bash!ExecutorShowsEnd

\* A compaction forgets nothing but where it splits a turn, however often the path has been compacted,
\* and never separates a result from its call.
CompactionKeeps == Compactor!ForgetsOnlyAtSplits /\ Compactor!CutsBetweenCalls

\* A server that fails is skipped silently ("don't disrupt the tool result", lumen-lsp.ts:1050); it is
\* not so: the promise its callers should share may be rejected with nobody waiting for it.
FailureIsSilent == Lsp!FailureIsSilent

\* The progress shown is that of calls that have not returned, also across a replaced session; the return
\* of one call does not take that of another away; and an abort reaches every sub-agent that runs.
ProgressIsKept == [](part = "tasks" => SubAgents!ProgressIsTrue) /\ SubAgents!ProgressStays /\ SubAgents!AbortsAreHeard

\* What was called returns, whatever fails, dies, times out or is stopped meanwhile: flush and reload of
\* the settings, the calls about credentials (no process waits for the lock, or the server, for ever),
\* the callers of a language server (answer, timeout and exit come in every order) and those of the task
\* tool.
Waits(p) == CASE part = "settings" -> Settings!FlushWaits(p)
              [] part = "auth" -> Auth!CallWaits(p)
              [] part = "lsp" -> Lsp!CallerWaits(p)
              [] part = "tasks" -> SubAgents!TaskCallWaits(p)
              [] OTHER -> FALSE
CallsEnd == \A p \in Procs : Waits(p) ~> ~Waits(p)
=============================================================================
