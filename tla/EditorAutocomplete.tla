------------------------- MODULE EditorAutocomplete -------------------------
(***************************************************************************)
(* Completion in the editor: requests follow keys, some behind a timer,    *)
(* and run one behind the other (startAutocompleteRequest); an answer      *)
(* counts if text and cursor are still those it was asked for; a list that *)
(* is shown stays until a key or an answer takes it away, and keys that    *)
(* move the cursor, kill, yank or undo leave it alone.  The provider is    *)
(* CombinedAutocompleteProvider (autocomplete.ts), whose commands and      *)
(* files are external: it finds nothing, one item or several.              *)
(***************************************************************************)
EXTENDS Editor

CONSTANT MaxFailures     \* bound: completions of a command's arguments that throw

VARIABLES autocompleteState,     \* "none", or the kind of the list that is shown
          autocompletePrefix,
          startToken,
          debounced,     \* the request that waits for its timer
          tasks,         \* requests behind the one that is asked
          asking,         \* what the provider is asked
          broken,        \* a request has failed, and with it all that wait for it
          unrefreshed    \* ghost: the text or the cursor has changed under the list, and nothing was asked

requestVars == <<startToken, debounced, tasks, asking, broken>>
listVars == <<autocompleteState, autocompletePrefix, unrefreshed>>
completionVars == <<requestVars, listVars>>
completingVars == <<editorVars, completionVars>>

NoRequest == [token |-> 0, force |-> FALSE, tab |-> FALSE]
NotAsked == [request |-> NoRequest, for |-> EmptyState, aborted |-> TRUE]

---------------------------------------------------------------------------
(* What is completed, and how. *)

\* Behind the last space.
Token(before) ==
  LET spaces == {i \in DOMAIN before : before[i] = Space}
  IN IF spaces = {} THEN before ELSE SubSeq(before, Max(spaces) + 1, Len(before))

StartsWith(text, cell) == text # <<>> /\ text[1] = cell
InSymbol(s) == StartsWith(Token(Before(s)), "@")
InSlashCommand(s) == s.cursorLine = 1 /\ StartsWith(TrimStart(Before(s)), "/")
NamesCommand(s) == InSlashCommand(s) /\ ~Contains(TrimStart(Before(s)), Space)
\* shouldTriggerFileCompletion.
CompletesFiles(s) == ~StartsWith(Trim(Before(s)), "/") \/ Contains(Trim(Before(s)), Space)

\* Of a command's name all before the cursor, of its arguments all behind the first space, of a file the token.
Completable(s, force) ==
  LET before == Before(s)
  IN InSymbol(s) \/ force \/ StartsWith(before, "/") \/ Contains(Token(before), "/") \/ (before # <<>> /\ Token(before) = <<>>)
Prefix(s, force) ==
  LET before == Before(s)
      spaces == {i \in DOMAIN before : before[i] = Space}
  IN IF ~InSymbol(s) /\ ~force /\ StartsWith(before, "/")
     THEN IF spaces = {} THEN before ELSE SubSeq(before, Min(spaces) + 1, Len(before))
     ELSE Token(before)

Fits == IsSuffix(autocompletePrefix, Before(state))

\* applyCompletion: as many cells as the prefix has give way before the cursor, whatever they are.
Completed(s, prefix) ==
  LET kept == Slice(Line(s), 0, s.cursorCol - Len(prefix))
      command == StartsWith(prefix, "/") /\ Trim(kept) = <<>> /\ ~Contains(Tail(prefix), "/")
      new == CASE command -> <<"/", "f", Space>>
               [] StartsWith(prefix, "@") -> <<"@", "f", Space>>
               [] OTHER -> <<"f">>
  IN WithLine(s, kept \o new \o After(s), Len(kept) + Len(new))

Complete(prefix) ==
  /\ Change(Completed(state, prefix))
  /\ SetCursorCol
  /\ UNCHANGED <<promptVars, historyIndex, lastWidth, astray, jumped>>

---------------------------------------------------------------------------
(* Requests. *)

Aborted == asking' = [asking EXCEPT !.aborted = TRUE]
ClearList == autocompleteState' = "none" /\ autocompletePrefix' = <<>> /\ unrefreshed' = FALSE
KeepList == UNCHANGED listVars

Cancel ==
  /\ startToken' = startToken + 1 /\ debounced' = NoRequest /\ Aborted
  /\ ClearList /\ UNCHANGED <<tasks, broken>>

\* What was asked before is of no use; while a symbol is typed the request waits for more.
RequestFor(s, force, tab) ==
  LET request == [token |-> startToken + 1, force |-> force, tab |-> tab]
  IN /\ startToken' = startToken + 1 /\ Aborted
     /\ IF ~force /\ ~tab /\ InSymbol(s)
        THEN debounced' = request /\ UNCHANGED tasks
        ELSE debounced' = NoRequest /\ tasks' = Append(tasks, request)
     /\ KeepList /\ UNCHANGED broken

\* Behind an edit: a list that is shown is asked for again, and where something can be completed one is asked for.
Refresh(s, begins) ==
  CASE autocompleteState = "regular" \/ (autocompleteState = "none" /\ begins) -> RequestFor(s, FALSE, FALSE)
    [] autocompleteState = "force" /\ CompletesFiles(s) -> RequestFor(s, TRUE, FALSE)
    [] autocompleteState = "force" /\ ~CompletesFiles(s) ->
         unrefreshed' = TRUE /\ UNCHANGED <<requestVars, autocompleteState, autocompletePrefix>>
    [] OTHER -> UNCHANGED completionVars

Begins(char, s) ==
  CASE char = "/" -> s.cursorLine = 1 /\ Trim(Before(s)) \in {<<>>, <<"/">>}
    [] char = "@" -> Len(Before(s)) = 1 \/ Before(s)[Len(Before(s)) - 1] = Space
    [] char = "a" -> InSlashCommand(s) \/ InSymbol(s)
    [] OTHER -> FALSE

DebounceEnds ==
  /\ debounced # NoRequest
  /\ tasks' = Append(tasks, debounced) /\ debounced' = NoRequest
  /\ UNCHANGED <<editorVars, listVars, startToken, asking, broken>>

\* Mutation: a request that is no longer wanted is not taken off the list.
StartWantedRequest ==
  /\ tasks # <<>> /\ asking.request = NoRequest /\ ~broken /\ Head(tasks).token = startToken
  /\ tasks' = Tail(tasks)
  /\ asking' = [request |-> Head(tasks), for |-> state, aborted |-> FALSE]
  /\ UNCHANGED <<editorVars, listVars, startToken, debounced, broken>>

\* The next request has its turn, if it is still wanted.
StartRequest ==
  /\ tasks # <<>> /\ asking.request = NoRequest /\ ~broken
  /\ tasks' = Tail(tasks)
  /\ asking' = IF Head(tasks).token = startToken
              THEN [request |-> Head(tasks), for |-> state, aborted |-> FALSE] ELSE asking
  /\ UNCHANGED <<editorVars, listVars, startToken, debounced, broken>>

\* Mutation: what was not called off counts, whatever the text and the cursor are by now.
CurrentAnyway == ~asking.aborted
Current == ~asking.aborted /\ state = asking.for

\* The provider answers.  A single file that Tab asked for is taken at once.
Answered(count) ==
  LET request == asking.request
      prefix == Prefix(asking.for, request.force)
  IN /\ request # NoRequest
     /\ count # "none" => Completable(asking.for, request.force)
     /\ asking' = NotAsked
     /\ CASE ~Current -> UNCHANGED <<editorVars, listVars, startToken, debounced>>
          [] Current /\ count = "none" ->
               ClearList /\ startToken' = startToken + 1 /\ debounced' = NoRequest /\ UNCHANGED editorVars
          [] Current /\ count = "one" /\ request.force /\ request.tab ->
               Complete(prefix) /\ UNCHANGED <<listVars, startToken, debounced, pressed>>
          [] OTHER -> /\ autocompleteState' = IF request.force THEN "force" ELSE "regular"
                      /\ autocompletePrefix' = prefix /\ unrefreshed' = FALSE
                      /\ UNCHANGED <<editorVars, startToken, debounced>>
     /\ UNCHANGED <<tasks, broken>>

\* The completions of a command's arguments, an extension's code, throw: nobody catches it, here or behind.
ProviderFails ==
  /\ MaxFailures > 0 /\ asking.request # NoRequest /\ ~broken
  /\ broken' = TRUE /\ asking' = NotAsked
  /\ UNCHANGED <<editorVars, listVars, startToken, debounced, tasks>>

---------------------------------------------------------------------------
(* Keys. *)

TypeChar == \E char \in Chars : InsertCharacter(char) /\ Refresh(state', Begins(char, state'))
Deletes == (HandleBackspace \/ HandleForwardDelete) /\ Refresh(state', InSlashCommand(state') \/ InSymbol(state'))
Closes == (PasteSmall \/ InsertTextAtCursor \/ PasteLarge \/ AddNewLine \/ SetText) /\ Cancel

\* These leave the list and the requests as they are; up and down belong to a list that is shown.
LeavesList ==
  /\ \/ DeleteToStartOfLine \/ DeleteToEndOfLine \/ DeleteWordBackwards \/ DeleteWordForward \/ Yank \/ YankPop \/ Undo
     \/ MoveLeft \/ MoveRight \/ MoveWordBackwards \/ MoveWordForwards \/ MoveToLineStart \/ MoveToLineEnd
     \/ PageScroll \/ Resize \/ \E char \in JumpChars, forward \in BOOLEAN : JumpToChar(char, forward)
     \/ autocompleteState = "none" /\ (CursorUp \/ CursorDown)
  /\ unrefreshed' = (unrefreshed \/ (autocompleteState # "none" /\ state' # state))
  /\ UNCHANGED <<requestVars, autocompleteState, autocompletePrefix>>

Escape == Press("escape") /\ autocompleteState # "none" /\ Cancel
          /\ UNCHANGED <<textVars, ringVars, promptVars, historyIndex, columnVars, lastWidth, astray, jumped>>

Tab ==
  /\ Press("tab")
  /\ \/ autocompleteState # "none" /\ Complete(autocompletePrefix) /\ Cancel
     \/ /\ autocompleteState = "none"
        /\ UNCHANGED <<textVars, ringVars, promptVars, historyIndex, columnVars, lastWidth, astray, jumped>>
        /\ \/ NamesCommand(state) /\ RequestFor(state, FALSE, TRUE)
           \/ ~NamesCommand(state) /\ CompletesFiles(state) /\ RequestFor(state, TRUE, TRUE)
           \/ ~NamesCommand(state) /\ ~CompletesFiles(state) /\ UNCHANGED completionVars

\* Enter takes the highlighted item; a command is sent as well.
Enter ==
  \/ autocompleteState = "none" /\ Submit /\ Cancel
  \/ /\ autocompleteState # "none" /\ Press("submit") /\ Cancel
     /\ IF StartsWith(autocompletePrefix, "/") THEN SubmitValue(Completed(state, autocompletePrefix))
        ELSE Complete(autocompletePrefix)

---------------------------------------------------------------------------
CompletionInit ==
  /\ autocompleteState = "none" /\ autocompletePrefix = <<>> /\ unrefreshed = FALSE
  /\ startToken = 0 /\ debounced = NoRequest /\ tasks = <<>> /\ asking = NotAsked /\ broken = FALSE

Answer == \E count \in {"none", "one", "several"} : Answered(count)
CompletingNext ==
  \/ TypeChar \/ Deletes \/ Closes \/ LeavesList \/ Escape \/ Tab \/ Enter
  \/ DebounceEnds \/ StartRequest \/ Answer \/ ProviderFails

---------------------------------------------------------------------------
CompletingTypeOK ==
  /\ EditorTypeOK
  /\ autocompleteState \in {"none", "regular", "force"} /\ {broken, unrefreshed, asking.aborted} \subseteq BOOLEAN
  /\ autocompleteState = "none" => autocompletePrefix = <<>> /\ ~unrefreshed
  /\ \A r \in ToSet(tasks) \cup {debounced, asking.request} : r.token \in 0 .. startToken

\* The request for the text as it is: behind its timer or others, or asked.
Refreshing ==
  \/ debounced # NoRequest
  \/ \E i \in DOMAIN tasks : tasks[i].token = startToken
  \/ asking.request # NoRequest /\ Current

\* A list that is shown is for what stands before the cursor, or a new one is under way, however late answers come and
\* whatever else was asked meanwhile; but for keys that leave the list alone, and a provider that has failed.
ListFits == autocompleteState # "none" => Fits \/ Refreshing \/ unrefreshed \/ broken

\* A request that is still wanted is waited for.
CompletionWaits == ~broken /\ (tasks # <<>> \/ debounced # NoRequest)
=============================================================================
