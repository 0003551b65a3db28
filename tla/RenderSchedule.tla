---------------------------- MODULE RenderSchedule ----------------------------
(***************************************************************************)
(* When the terminal interface renders (requestRender and scheduleRender   *)
(* of packages/tui/src/tui.ts): renders are collected for 16 ms, and while *)
(* the user types those that come from the background are dropped          *)
(* (isInputActivitySuppressed of modes/interactive/interactive-mode.ts).   *)
(* Contents are counted; what process.nextTick defers follows at once, and *)
(* is part of the step that defers it.                                     *)
(***************************************************************************)
EXTENDS Naturals

CONSTANTS MaxChanges,     \* bound on the changes of what is to be shown
          MaxKeys,        \* bound on the keys
          MaxSuspends     \* bound on the times the interface is stopped and started again

VARIABLES content,        \* changes of what the components would render
          shownContent,   \* the changes that were rendered
          renderRequested,
          renderTimer,    \* whether the timer runs
          suppressed,     \* isInputActivitySuppressed(), for 200 ms behind a key
          resumeTimer,    \* inputActivityResumeTimer runs, for 201 ms
          stopped, keys, suspends

scheduleVars == <<content, shownContent, renderRequested, renderTimer, suppressed, resumeTimer, stopped, keys, suspends>>

ScheduleInit ==
  /\ content = 1 /\ shownContent = 0 /\ renderRequested = TRUE /\ renderTimer = TRUE
  /\ suppressed = FALSE /\ resumeTimer = FALSE /\ stopped = FALSE /\ keys = 0 /\ suspends = 0

\* requestRender and, in the next tick, scheduleRender.
RequestRender ==
  IF renderRequested THEN UNCHANGED <<renderRequested, renderTimer>>
  ELSE renderRequested' = TRUE /\ renderTimer' = (renderTimer \/ ~stopped)

BackgroundRequest == IF suppressed THEN UNCHANGED <<renderRequested, renderTimer>> ELSE RequestRender

\* An event of the session, a timer or another answer changes what is to be shown.
Update ==
  /\ content < MaxChanges /\ content' = content + 1
  /\ BackgroundRequest
  /\ UNCHANGED <<shownContent, suppressed, resumeTimer, stopped, keys, suspends>>

\* Mutation: only the first key of a row starts the timer.
MarkActivityOnce == suppressed' = TRUE /\ resumeTimer' = (resumeTimer /\ suppressed)

\* markInputActivity: the timer starts anew with each key.
MarkActivity == suppressed' = TRUE /\ resumeTimer' = TRUE

\* A key: a listener may consume it, or the component in focus changes and is rendered.
Key ==
  /\ ~stopped /\ keys < MaxKeys /\ keys' = keys + 1
  /\ MarkActivity
  /\ \/ content < MaxChanges /\ content' = content + 1 /\ RequestRender
     \/ UNCHANGED <<content, renderRequested, renderTimer>>
  /\ UNCHANGED <<shownContent, stopped, suspends>>

Calm == suppressed /\ suppressed' = FALSE
        /\ UNCHANGED <<content, shownContent, renderRequested, renderTimer, resumeTimer, stopped, keys, suspends>>

\* The timer runs a millisecond longer than the suppression.
ResumeRendering ==
  /\ resumeTimer /\ ~suppressed
  /\ resumeTimer' = FALSE
  /\ BackgroundRequest
  /\ UNCHANGED <<content, shownContent, suppressed, stopped, keys, suspends>>

DoRender ==
  /\ renderTimer /\ renderTimer' = FALSE
  /\ IF stopped \/ ~renderRequested THEN UNCHANGED <<renderRequested, shownContent>>
     ELSE renderRequested' = FALSE /\ shownContent' = content
  /\ UNCHANGED <<content, suppressed, resumeTimer, stopped, keys, suspends>>

\* stop, for an external editor or a suspended process; a request of the same handler finds it stopped.
Stop ==
  /\ ~stopped /\ stopped' = TRUE /\ suspends < MaxSuspends /\ suspends' = suspends + 1
  /\ renderTimer' = FALSE
  /\ renderRequested' \in {renderRequested, TRUE}
  /\ UNCHANGED <<content, shownContent, suppressed, resumeTimer, keys>>

\* Mutation: start alone, whose request is dropped when one is pending since before the stop.
StartAgainPlainly ==
  IF suppressed \/ renderRequested THEN UNCHANGED <<renderRequested, renderTimer, shownContent>>
  ELSE renderRequested' = TRUE /\ renderTimer' = TRUE /\ UNCHANGED shownContent

\* start and requestRender(true): whatever is pending, all is rendered at once.
StartAgain ==
  /\ renderRequested' = FALSE /\ shownContent' = content
  /\ renderTimer' = (~suppressed /\ ~renderRequested)

Resume ==
  /\ stopped /\ stopped' = FALSE
  /\ StartAgain
  /\ UNCHANGED <<content, suppressed, resumeTimer, keys, suspends>>

ScheduleNext == Update \/ Key \/ Calm \/ ResumeRendering \/ DoRender \/ Stop \/ Resume

\* Time passes and timers fire.
ScheduleFairness == WF_scheduleVars(Calm) /\ WF_scheduleVars(ResumeRendering) /\ WF_scheduleVars(DoRender)

---------------------------------------------------------------------------
\* Type invariant.
ScheduleTypeOK ==
  /\ content \in 1 .. MaxChanges /\ shownContent \in 0 .. content
  /\ {renderRequested, renderTimer, suppressed, resumeTimer, stopped} \subseteq BOOLEAN

\* What has changed is shown, also when its request was dropped because the user typed, or was pending when the
\* interface was stopped; as long as it is not stopped for good.
Unshown == shownContent # content /\ ~stopped
ChangesAreShown == Unshown ~> ~Unshown
=============================================================================
