------------------------------ MODULE MCClients ------------------------------
(***************************************************************************)
(* Small instances of what stands between the agent and those who use it,  *)
(* each on its own, as in MCServices: the terminal interface's renderer,   *)
(* its schedule, its input and its editor, the client of an agent in       *)
(* another process, and the harness that embeds an agent.                  *)
(***************************************************************************)
EXTENDS Embedded

CONSTANT Parts           \* the parts a run is about

VARIABLES
  previousLines, previousViewportTop, hardwareCursorRow, maxLinesRendered, previousHeight, clearOnShrink, termRow,
  termTop, termHeight, cell, origin, misplaced, resizes,
  content, shownContent, renderRequested, renderTimer, suppressed, resumeTimer, stopped, keys, suspends,
  input, sent, rest, buffer, pasteMode, pasteBuffer, pendingKittyPrintable, events, late, split,
  state, undoStack, killRing, lastAction, history, historyIndex, numbers, pastes, lastWidth, preferredVisualCol,
  snappedFromCursorCol, pressed, mark, opened, astray, jumped,
  autocompleteState, autocompletePrefix, startToken, debounced, tasks, asking, broken, unrefreshed,
  editor, typed, readsInput, compactionQueued, steering, followUp, prompts, activeRun, runs, connected, agentEvents,
  backoff, attempt, retryPromise, timers, overflowTried, lastMessage, measured, endedBadly, compacting, controller,
  cancelled, willRetry, compactions, manual, demands, summary, summaries, escape, delivered, unheard, lost, overlapped,
  contended, stranded

\* Contents longer than the screen by up to two lines, before and behind a change of its height.
Tui == INSTANCE TuiRender
         WITH Line <- {"x", "blank"}, MaxContent <- 4, Heights <- {2, 3}, MaxResizes <- 1, ClearOnShrink <- BOOLEAN
Schedule == INSTANCE RenderSchedule WITH MaxChanges <- 4, MaxKeys <- 3, MaxSuspends <- 2
\* Two keys: what is special about one can only meet what is special about the next.
Stdin == INSTANCE StdinBuffer WITH MaxInput <- 2
\* Every key that changes the text, of which a few make one interesting; the keys that kill, more of them in a row.
Editing == INSTANCE Editor
             WITH Keys <- {"type", "paste", "insert", "pasteLarge", "newLine", "backspace", "delete", "killStart", "killEnd",
                           "killWordBack", "killWord", "yank", "yankPop", "undo", "setText", "submit", "up", "down", "left"},
                  Chars <- {"a", " ", "\\"}, Texts <- {<<>>, <<"a", " ", "a", "\n">>}, JumpChars <- {},
                  Insertions <- {<<"/", "a", "\n", "a">>}, Widths <- {20}, PageSize <- 5, MaxHistory <- 1,
                  MaxPastes <- 3, MaxKeys <- 4
Killing == INSTANCE Editor
             WITH Keys <- {"killStart", "killEnd", "killWordBack", "killWord", "yank", "yankPop", "left", "wordBack", "undo"},
                  Chars <- {}, Texts <- {<<"a", " ", "a", "\n", "@", "a">>}, JumpChars <- {}, Insertions <- {},
                  Widths <- {20}, PageSize <- 5, MaxHistory <- 1, MaxPastes <- 0, MaxKeys <- 6
\* Lines that are wrapped to several, with markers as wide as the screen or wider, and wide characters.
Moving == INSTANCE Editor
            WITH Keys <- {"pasteLarge", "up", "down", "right", "word", "home", "end", "page", "jump", "delete", "resize"},
                 Chars <- {}, Texts <- {<<"a", " ", "a", "a", "\n", "a", "wide", "a", "a">>}, JumpChars <- {"a", "]"},
                 Insertions <- {}, Widths <- {2, 4}, PageSize <- 2, MaxHistory <- 1, MaxPastes <- 2, MaxKeys <- 5
\* A symbol, a command and a file, completed while one types on, moves away or deletes.
Completing == INSTANCE EditorAutocomplete
                WITH Keys <- {"type", "backspace", "escape", "tab", "submit", "left", "undo", "newLine"},
                     Chars <- {"a", "/", "@"}, Texts <- {<<>>, <<"a", " ">>, <<"/">>, <<"a", "@">>}, JumpChars <- {},
                     Insertions <- {}, Widths <- {20}, PageSize <- 5, MaxHistory <- 1, MaxPastes <- 0, MaxKeys <- 3, MaxFailures <- 1

\* Three texts that meet two compactions, the second of which the first one's end may start; and two texts that meet
\* a compaction asked for, or the summary of a branch.
Queueing == INSTANCE InteractiveMode
              WITH MaxTyped <- 3, MaxCompactions <- 2, MaxDemands <- 0, MaxSummaries <- 0, MaxRetries <- 1, MaxRuns <- 2
Demanding == INSTANCE InteractiveMode
               WITH MaxTyped <- 2, MaxCompactions <- 2, MaxDemands <- 1, MaxSummaries <- 0, MaxRetries <- 1, MaxRuns <- 2
Leaving == INSTANCE InteractiveMode
             WITH MaxTyped <- 2, MaxCompactions <- 1, MaxDemands <- 0, MaxSummaries <- 1, MaxRetries <- 1, MaxRuns <- 2

tuiVars == <<previousLines, previousViewportTop, hardwareCursorRow, maxLinesRendered, previousHeight, clearOnShrink,
             termRow, termTop, termHeight, cell, origin, misplaced, resizes>>
scheduleVars == <<content, shownContent, renderRequested, renderTimer, suppressed, resumeTimer, stopped, keys,
                  suspends>>
stdinVars == <<input, sent, rest, buffer, pasteMode, pasteBuffer, pendingKittyPrintable, events, late, split>>
editorVars == <<state, undoStack, killRing, lastAction, history, historyIndex, numbers, pastes, lastWidth,
                preferredVisualCol, snappedFromCursorCol, pressed, mark, opened, astray, jumped>>
completionVars == <<autocompleteState, autocompletePrefix, startToken, debounced, tasks, asking, broken, unrefreshed>>
promptVars == <<editorVars, completionVars>>
modeVars == <<editor, typed, readsInput, compactionQueued, steering, followUp, prompts, activeRun, runs, connected,
              agentEvents, backoff, attempt, retryPromise, timers, overflowTried, lastMessage, measured, endedBadly,
              compacting, controller, cancelled, willRetry, compactions, manual, demands, summary, summaries, escape,
              delivered, unheard, lost, overlapped, contended, stranded>>
terminalVars == <<part, tuiVars, scheduleVars, stdinVars, rpcVars, harnessVars>>
otherVars == <<terminalVars, modeVars>>
allVars == <<otherVars, promptVars>>
EditorParts == {"editing", "killing", "moving", "completing"}
ModeParts == {"queueing", "demanding", "leaving"}

ClientsInit ==
  /\ part \in Parts
  /\ EmbeddedInit /\ Tui!TuiInit /\ Schedule!ScheduleInit /\ Stdin!StdinInit
  /\ CASE part = "killing" -> Killing!EditorInit
       [] part = "moving" -> Moving!EditorInit
       [] part = "completing" -> Completing!EditorInit
       [] OTHER -> Editing!EditorInit
  /\ Completing!CompletionInit /\ Queueing!ModeInit
  /\ part \notin EditorParts => state = Editing!EmptyState
  /\ part # "tui" => termHeight = 2 /\ termRow = 0 /\ clearOnShrink
  /\ part # "stdin" => input = <<Stdin!Escape>>
  /\ part # "harness" => queueMode = "all"

TuiStep == part = "tui" /\ Tui!TuiNext /\ UNCHANGED <<part, scheduleVars, stdinVars, rpcVars, harnessVars, promptVars, modeVars>>
ScheduleStep == part = "schedule" /\ Schedule!ScheduleNext /\ UNCHANGED <<part, tuiVars, stdinVars, rpcVars, harnessVars, promptVars, modeVars>>
StdinStep == part = "stdin" /\ Stdin!StdinNext /\ UNCHANGED <<part, tuiVars, scheduleVars, rpcVars, harnessVars, promptVars, modeVars>>
EmbeddedStep == EmbeddedNext /\ UNCHANGED <<tuiVars, scheduleVars, stdinVars, promptVars, modeVars>>
EditingStep == part = "editing" /\ Editing!EditorNext /\ UNCHANGED <<otherVars, completionVars>>
KillingStep == part = "killing" /\ Killing!EditorNext /\ UNCHANGED <<otherVars, completionVars>>
MovingStep == part = "moving" /\ Moving!EditorNext /\ UNCHANGED <<otherVars, completionVars>>
CompletingStep == part = "completing" /\ Completing!CompletingNext /\ UNCHANGED otherVars
QueueingStep == part = "queueing" /\ Queueing!ModeNext /\ UNCHANGED <<terminalVars, promptVars>>
DemandingStep == part = "demanding" /\ Demanding!ModeNext /\ UNCHANGED <<terminalVars, promptVars>>
LeavingStep == part = "leaving" /\ Leaving!ModeNext /\ UNCHANGED <<terminalVars, promptVars>>
ModeStep == QueueingStep \/ DemandingStep \/ LeavingStep
EditorStep == EditingStep \/ KillingStep \/ MovingStep \/ CompletingStep
ClientsNext == TuiStep \/ ScheduleStep \/ StdinStep \/ EmbeddedStep \/ EditorStep \/ ModeStep

\* The fairness of each part is that of its module, for the part a behaviour is about.
Fairness == /\ WF_scheduleVars(part = "schedule" /\ Schedule!Calm)
            /\ WF_scheduleVars(part = "schedule" /\ Schedule!ResumeRendering)
            /\ WF_scheduleVars(part = "schedule" /\ Schedule!DoRender)
            /\ WF_rpcVars(part = "rpc" /\ Rpc!RpcStep)
            /\ WF_harnessVars(part = "harness" /\ Harness!HarnessStep)
            /\ WF_promptVars(part = "completing" /\ Completing!DebounceEnds)
            /\ WF_promptVars(part = "completing" /\ Completing!StartRequest)
            /\ WF_promptVars(part = "completing" /\ Completing!Answer)

Clients == ClientsInit /\ [][ClientsNext]_allVars /\ Fairness

---------------------------------------------------------------------------
\* Type invariant: every variable of every part keeps its type.
ClientsTypeOK ==
  CASE part = "tui" -> Tui!TuiTypeOK
    [] part = "schedule" -> Schedule!ScheduleTypeOK
    [] part = "stdin" -> Stdin!StdinTypeOK
    [] part = "rpc" -> Rpc!RpcTypeOK
    [] part = "harness" -> Harness!HarnessTypeOK
    [] part = "editing" -> Editing!EditorTypeOK
    [] part = "killing" -> Killing!EditorTypeOK
    [] part = "moving" -> Moving!EditorTypeOK
    [] part = "completing" -> Completing!CompletingTypeOK
    [] part = "queueing" -> Queueing!ModeTypeOK
    [] part = "demanding" -> Demanding!ModeTypeOK
    [] part = "leaving" -> Leaving!ModeTypeOK

\* What the renderer reckons about a terminal it never reads is so: the screen shows the end of the content, with
\* nothing left of earlier lines, and the cursor is where it was put, through every differential render, scroll,
\* shrink and resize (doRender, tui.ts:964), unless the cursor's line had left the screen or nothing was left to show.
\* The editor's lines are wrapped without loss, and its cursor moves along them, in the text and on no part of a marker.
ScreenIsTrue ==
  /\ part = "tui" => Tui!LinesFit /\ Tui!ScreenIsTrue
  /\ part = "moving" => Moving!WrapsWhole
  /\ part \in EditorParts => Editing!CursorInText

\* What arrives in pieces is understood as it was meant: keys and pastes wherever reads cut them, as far as their
\* bytes tell them apart; and the keys of the editor, whatever their order: undo reaches the start and takes back each
\* change, a yank brings back what was killed, a marker stands for its paste, and a list of completions is for what
\* stands before the cursor.  A text submitted is in one place, whatever runs, fails, waits or compacts meanwhile, and
\* has somebody who will send it (as long as no two things are under way that do not know of each other, and but for
\* one submitted while nobody waited for it); and Escape interrupts what is under way.
ChangesOfEditor == part \in EditorParts => Editing!ChangeIsUndone
InputIsTrue ==
  /\ [](part = "stdin" => Stdin!KeysAreKept /\ Stdin!BytesAreKept)
  /\ [](part \in EditorParts => Editing!UndoReachesStart /\ Editing!KillsComeBack /\ Editing!MarkersHold)
  /\ [][ChangesOfEditor]_promptVars
  /\ [](part = "completing" => Completing!ListFits)
  /\ [](part \in ModeParts => Queueing!TextsKept /\ Queueing!QueueIsFlushed /\ Queueing!QueuesAreSent /\ Queueing!EscapeFits)

\* What is awaited comes: changes are shown, also those whose render was dropped while the user typed or that came
\* when the interface was stopped; a request or a wait for the agent's end ends with an answer or its timer; and a
\* prompt returns and leaves the harness idle.
Awaited == CASE part = "schedule" -> Schedule!Unshown
             [] part = "rpc" -> Rpc!RpcWaits
             [] part = "harness" -> Harness!HarnessWaits
             [] part = "completing" -> Completing!CompletionWaits
             [] OTHER -> FALSE
WaitsEnd == Awaited ~> ~Awaited
=============================================================================
