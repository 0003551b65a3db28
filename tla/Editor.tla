------------------------------- MODULE Editor -------------------------------
(***************************************************************************)
(* The editor of the prompt (packages/tui/src/components/editor.ts): its   *)
(* text with markers for large pastes, undo, the kill ring, history and    *)
(* the cursor, which moves along the lines of the screen and keeps its     *)
(* column through shorter ones.  One action per key; a jump takes two.     *)
(* Completion is in EditorAutocomplete.                                    *)
(***************************************************************************)
EXTENDS EditorLayout, TLC

CONSTANTS Keys,          \* the keys a user presses
          Chars,         \* what is typed
          Texts,         \* what the editor opens with, or the program sets
          Insertions,    \* small pastes, and what the program inserts
          JumpChars,     \* what is jumped to
          Widths,        \* widths of the layout
          PageSize,      \* lines of a page
          MaxHistory,    \* prompts kept, 100 in the code
          MaxPastes,     \* bound: large pastes
          MaxKeys        \* bound: keys pressed

VARIABLES state,         \* lines, and the cursor's line and column
          undoStack, killRing, lastAction,
          history, historyIndex,     \* index 0: not browsing
          numbers,       \* of every paste, the number in its marker
          pastes,        \* by number, the paste it stands for
          lastWidth, preferredVisualCol, snappedFromCursorCol,
          pressed,
          mark,          \* ghost: the state before the kills, or the yank, that the last action continues
          opened,        \* ghost: the pastes before this prompt
          astray,        \* ghost: a vertical move began at a column that was snapped from elsewhere
          jumped         \* ghost: a jump ended inside a marker

textVars == <<state, undoStack>>
ringVars == <<killRing, lastAction, mark>>
promptVars == <<history, numbers, pastes, opened>>
columnVars == <<preferredVisualCol, snappedFromCursorCol>>
editorVars == <<textVars, ringVars, promptVars, historyIndex, columnVars, lastWidth, pressed, astray, jumped>>

None == -1
PasteCell(n) == <<"1", "2", "3">>[n]
KnownPastes == {n \in DOMAIN numbers : numbers[n] \in DOMAIN pastes}
Known == {PasteCell(n) : n \in KnownPastes}
EmptyState == [lines |-> <<<<>>>>, cursorLine |-> 1, cursorCol |-> 0]

---------------------------------------------------------------------------
(* States of the editor, as functions of one another. *)

Line(s) == s.lines[s.cursorLine]
Before(s) == Slice(Line(s), 0, s.cursorCol)
After(s) == Slice(Line(s), s.cursorCol, Len(Line(s)))
WithLine(s, line, col) == [s EXCEPT !.lines[s.cursorLine] = line, !.cursorCol = col]
JoinLines(lines) == FoldLeft(LAMBDA text, line : text \o <<Newline>> \o line, Head(lines), Tail(lines))

JoinedBefore(s) ==
  LET previous == s.lines[s.cursorLine - 1]
  IN [lines |-> ReplaceAt(RemoveAt(s.lines, s.cursorLine), s.cursorLine - 1, previous \o Line(s)),
      cursorLine |-> s.cursorLine - 1, cursorCol |-> Len(previous)]

JoinedAfter(s) ==
  [s EXCEPT !.lines = ReplaceAt(RemoveAt(s.lines, s.cursorLine + 1), s.cursorLine, Line(s) \o s.lines[s.cursorLine + 1])]

\* insertTextAtCursorInternal and insertYankedText.
Inserted(s, text) ==
  LET new == SplitLines(text)
      first == Before(s) \o new[1]
  IN IF Len(new) = 1
     THEN WithLine(s, first \o After(s), s.cursorCol + Len(text))
     ELSE [lines |-> SubSeq(s.lines, 1, s.cursorLine - 1) \o <<first>> \o SubSeq(new, 2, Len(new) - 1)
                       \o <<Last(new) \o After(s)>> \o SubSeq(s.lines, s.cursorLine + 1, Len(s.lines)),
           cursorLine |-> s.cursorLine + Len(new) - 1, cursorCol |-> Len(Last(new))]

\* deleteYankedText: what was yanked ends at the cursor.
Unyanked(s, text) ==
  LET old == SplitLines(text)
      top == s.cursorLine - (Len(old) - 1)
      col == Len(s.lines[top]) - Len(old[1])
  IN IF Len(old) = 1
     THEN WithLine(s, Slice(Line(s), 0, s.cursorCol - Len(text)) \o After(s), s.cursorCol - Len(text))
     ELSE [lines |-> SubSeq(s.lines, 1, top - 1) \o <<Slice(s.lines[top], 0, col) \o After(s)>>
                       \o SubSeq(s.lines, s.cursorLine + 1, Len(s.lines)),
           cursorLine |-> top, cursorCol |-> col]

SplitAtCursor(s) ==
  [lines |-> SubSeq(s.lines, 1, s.cursorLine - 1) \o <<Before(s), After(s)>>
               \o SubSeq(s.lines, s.cursorLine + 1, Len(s.lines)),
   cursorLine |-> s.cursorLine + 1, cursorCol |-> 0]

AtEnd(text) ==
  LET lines == SplitLines(text) IN [lines |-> lines, cursorLine |-> Len(lines), cursorCol |-> Len(Last(lines))]

\* The segments on both sides of the cursor; a marker the cursor is inside of is none for either.
Behind(s) == Segments(Before(s), Known)
Ahead(s) == Segments(After(s), Known)
LastLength(s) == LET b == Behind(s) IN IF b = <<>> THEN 1 ELSE Last(b).end - Last(b).index
\* Mutation: a marker ahead of the cursor is taken cell by cell.
PlainNextLength(s) == 1
NextLength(s) == LET a == Ahead(s) IN IF a = <<>> THEN 1 ELSE a[1].end - a[1].index

Backspaced(s) ==
  WithLine(s, Slice(Line(s), 0, s.cursorCol - LastLength(s)) \o After(s), s.cursorCol - LastLength(s))

\* Over white space and one marker or one run of punctuation or of other characters.
WordBehind(classes, segments) ==
  LET solid == {k \in DOMAIN segments : classes[k] # "space"}
      run == {k \in solid : \A i \in k .. Max(solid) : classes[i] = classes[Max(solid)]}
  IN IF solid = {} THEN 0
     ELSE IF classes[Max(solid)] = "marker" THEN segments[Max(solid)].index ELSE segments[Min(run)].index

WordAhead(classes, segments) ==
  LET solid == {k \in DOMAIN segments : classes[k] # "space"}
      run == {k \in solid : \A i \in Min(solid) .. k : classes[i] = classes[Min(solid)]}
  IN IF solid = {} THEN Len(segments)
     ELSE IF classes[Min(solid)] = "marker" THEN segments[Min(solid)].end ELSE segments[Max(run)].end

Classes(text, segments) == [k \in DOMAIN segments |-> SegmentClass(text, segments[k])]
WordStart(s) == LET segments == Behind(s)
                IN s.cursorCol - (Len(Before(s)) - WordBehind(Classes(Before(s), segments), segments))
WordEnd(s) == LET segments == Ahead(s) IN s.cursorCol + WordAhead(Classes(After(s), segments), segments)

\* The marker the cursor is strictly inside of, and the one it is on or in.
MarkersAround(s, col) == {g \in ToSet(Segments(Line(s), Known)) : IsMarker(g) /\ g.index <= col /\ col < g.end}
InsideMarker(s) == \E g \in MarkersAround(s, s.cursorCol) : g.index < s.cursorCol

---------------------------------------------------------------------------
(* Vertical moves. *)

Visual == BuildVisualLineMap(state.lines, lastWidth, Known)
CurrentLine(visual) == FindVisualLineAt(visual, state.cursorLine, state.cursorCol)
Cursor == [state |-> state, preferred |-> preferredVisualCol, snapped |-> snappedFromCursorCol]

\* The column kept through lines that are too short for it: the table above computeVerticalMoveColumn.
VerticalColumn(preferred, current, sourceMax, targetMax) ==
  CASE (preferred = None \/ current < sourceMax) /\ targetMax < current -> [preferred |-> current, col |-> targetMax]
    [] (preferred = None \/ current < sourceMax) /\ targetMax >= current -> [preferred |-> None, col |-> current]
    [] OTHER -> IF targetMax < current \/ targetMax < preferred THEN [preferred |-> preferred, col |-> targetMax]
                ELSE [preferred |-> None, col |-> preferred]

\* The column in the screen line a move starts from: that of a marker is the one the cursor was snapped from.
ColumnFrom(e, visual, from) ==
  IF e.snapped # None THEN e.snapped - visual[FindVisualLineAt(visual, from.line, e.snapped)].start
  ELSE e.state.cursorCol - from.start
Furthest(visual, i) == IF EndsLine(visual, i) THEN visual[i].length ELSE Max({0, visual[i].length - 1})

MovedTo(e, to, column) ==
  [e EXCEPT !.state.cursorLine = to.line,
            !.state.cursorCol = Min({to.start + column.col, Len(e.state.lines[to.line])}),
            !.preferred = column.preferred]

\* On a marker the cursor snaps to its start; where that is above and the move goes down, the move goes on past the marker.
RECURSIVE MovedToVisualLine(_, _, _, _), Snapped(_, _, _, _, _)
Snapped(moved, visual, current, target, markers) ==
  LET marker == CHOOSE g \in markers : TRUE
      past == {i \in target + 1 .. Len(visual) : visual[i].line # visual[target].line \/ visual[i].start >= marker.end}
  IN CASE markers = {} -> [moved EXCEPT !.snapped = None]
       [] markers # {} /\ marker.index < visual[target].start /\ target > current /\ past # {} ->
            MovedToVisualLine(moved, visual, current, Min(past))
       [] OTHER -> [moved EXCEPT !.state.cursorCol = marker.index, !.snapped = moved.state.cursorCol]

MovedToVisualLine(e, visual, current, target) ==
  LET column == VerticalColumn(e.preferred, ColumnFrom(e, visual, visual[current]),
                               Furthest(visual, current), Furthest(visual, target))
      moved == MovedTo(e, visual[target], column)
  IN Snapped(moved, visual, current, target, MarkersAround(moved.state, moved.state.cursorCol))

\* The column a vertical move would start from belongs to a marker the cursor is no longer on.
Stale == snappedFromCursorCol # None
         /\ ~\E g \in MarkersAround(state, snappedFromCursorCol) : g.index = state.cursorCol

---------------------------------------------------------------------------
(* What the handlers of keys have in common. *)

Press(key) == key \in Keys /\ pressed < MaxKeys /\ pressed' = pressed + 1
SetCursorCol == preferredVisualCol' = None /\ snappedFromCursorCol' = None
PushUndoSnapshot == undoStack' = Append(undoStack, state)
Acted(action) == lastAction' = action /\ mark' = IF action = lastAction /\ action # "type-word" THEN mark ELSE state
Forgotten == lastAction' = "none" /\ mark' = EmptyState

\* A change that is one undo step.
Change(next) ==
  /\ PushUndoSnapshot
  /\ state' = next
  /\ Forgotten /\ UNCHANGED killRing
NoChange == UNCHANGED <<textVars, ringVars, columnVars>>

\* A move of the cursor.
Move(line, col) ==
  /\ state' = [state EXCEPT !.cursorLine = line, !.cursorCol = col]
  /\ Forgotten /\ SetCursorCol
  /\ UNCHANGED <<undoStack, killRing, historyIndex, lastWidth, promptVars, astray>>
\* Where there is nowhere to go, what was being done is over all the same.
Stay == Forgotten /\ UNCHANGED <<textVars, killRing, columnVars, historyIndex, lastWidth, promptVars, astray>>

\* Mutation: killed text joins what was killed before it behind it, also where it stood before it.
JoinedBehind(killed, text, prepend) == killed \o text
JoinedAtSide(killed, text, prepend) == IF prepend THEN text \o killed ELSE killed \o text

\* KillRing.push.
Pushed(text, prepend) ==
  CASE text = <<>> -> killRing
    [] text # <<>> /\ lastAction = "kill" /\ killRing # <<>> ->
         Append(Front(killRing), JoinedAtSide(Last(killRing), text, prepend))
    [] OTHER -> Append(killRing, text)

\* Killed text joins what was killed just before, on its side.
Kill(next, text, prepend) ==
  /\ PushUndoSnapshot
  /\ state' = next
  /\ killRing' = Pushed(text, prepend)
  /\ Acted("kill")

Edits == historyIndex' = 0 /\ UNCHANGED <<promptVars, lastWidth, astray, jumped>>

---------------------------------------------------------------------------
(* Typing, pasting and deleting. *)

\* A word is one undo step; a space begins the next.
InsertCharacter(char) ==
  /\ Press("type") /\ Edits
  /\ IF char = Space \/ lastAction # "type-word" THEN PushUndoSnapshot ELSE UNCHANGED undoStack
  /\ state' = WithLine(state, Before(state) \o <<char>> \o After(state), state.cursorCol + 1)
  /\ lastAction' = "type-word" /\ mark' = EmptyState
  /\ SetCursorCol /\ UNCHANGED killRing

\* A pasted path is kept apart from the word before the cursor.
PastedText(text) ==
  IF text[1] = "/" /\ state.cursorCol \in DOMAIN Line(state)
       /\ Line(state)[state.cursorCol] \notin Punctuation \cup {Space, "wide"}
  THEN <<Space>> \o text ELSE text

PasteSmall ==
  /\ Press("paste") /\ Edits /\ SetCursorCol
  /\ \E text \in Insertions : Change(Inserted(state, PastedText(text)))

InsertTextAtCursor ==
  /\ Press("insert") /\ Edits /\ SetCursorCol
  /\ \E text \in Insertions : Change(Inserted(state, text))

\* More than ten lines or a thousand characters: they are kept aside, and a marker stands for them.
PasteLarge ==
  /\ Press("pasteLarge") /\ Len(numbers) < MaxPastes
  /\ numbers' = Append(numbers, Len(pastes) + 1)
  /\ pastes' = Append(pastes, Len(numbers) + 1)
  /\ Change(Inserted(state, Marker(PasteCell(Len(numbers) + 1))))
  /\ historyIndex' = 0 /\ SetCursorCol
  /\ UNCHANGED <<history, opened, lastWidth, astray, jumped>>

AddNewLine == Press("newLine") /\ Edits /\ SetCursorCol /\ Change(SplitAtCursor(state))

HandleBackspace ==
  /\ Press("backspace") /\ Edits
  /\ \/ state.cursorCol > 0 /\ Change(Backspaced(state)) /\ SetCursorCol
     \/ state.cursorCol <= 0 /\ state.cursorLine > 1 /\ Change(JoinedBefore(state)) /\ SetCursorCol
     \/ state.cursorCol <= 0 /\ state.cursorLine = 1 /\ Forgotten /\ UNCHANGED <<textVars, killRing, columnVars>>

\* Leaves the columns for vertical moves as they are.
HandleForwardDelete ==
  /\ Press("delete") /\ Edits /\ UNCHANGED columnVars
  /\ LET here == state.cursorCol IN
     \/ /\ here < Len(Line(state))
        /\ Change(WithLine(state, Before(state) \o Slice(Line(state), here + NextLength(state), Len(Line(state))), here))
     \/ here >= Len(Line(state)) /\ state.cursorLine < Len(state.lines) /\ Change(JoinedAfter(state))
     \/ here >= Len(Line(state)) /\ state.cursorLine = Len(state.lines) /\ Forgotten /\ UNCHANGED <<textVars, killRing>>

DeleteToStartOfLine ==
  /\ Press("killStart") /\ Edits
  /\ \/ state.cursorCol > 0 /\ Kill(WithLine(state, After(state), 0), Before(state), TRUE) /\ SetCursorCol
     \/ state.cursorCol <= 0 /\ state.cursorLine > 1 /\ Kill(JoinedBefore(state), <<Newline>>, TRUE) /\ SetCursorCol
     \/ state.cursorCol <= 0 /\ state.cursorLine = 1 /\ NoChange

DeleteToEndOfLine ==
  /\ Press("killEnd") /\ Edits
  /\ LET length == Len(Line(state)) IN
     \/ /\ state.cursorCol < length
        /\ Kill(WithLine(state, Before(state), state.cursorCol), After(state), FALSE) /\ UNCHANGED columnVars
     \/ /\ state.cursorCol >= length /\ state.cursorLine < Len(state.lines)
        /\ Kill(JoinedAfter(state), <<Newline>>, FALSE) /\ UNCHANGED columnVars
     \/ state.cursorCol >= length /\ state.cursorLine = Len(state.lines) /\ NoChange

DeleteWordBackwards ==
  /\ Press("killWordBack") /\ Edits
  /\ LET from == WordStart(state) IN
     \/ /\ state.cursorCol # 0 /\ SetCursorCol
        /\ Kill(WithLine(state, Slice(Line(state), 0, from) \o After(state), from),
                Slice(Line(state), from, state.cursorCol), TRUE)
     \/ state.cursorCol = 0 /\ state.cursorLine > 1 /\ Kill(JoinedBefore(state), <<Newline>>, TRUE) /\ SetCursorCol
     \/ state.cursorCol = 0 /\ state.cursorLine = 1 /\ NoChange

DeleteWordForward ==
  /\ Press("killWord") /\ Edits
  /\ LET to == WordEnd(state)
         length == Len(Line(state)) IN
     \/ /\ state.cursorCol < length /\ SetCursorCol
        /\ Kill(WithLine(state, Before(state) \o Slice(Line(state), to, length), state.cursorCol),
                Slice(Line(state), state.cursorCol, to), FALSE)
     \/ /\ state.cursorCol >= length /\ state.cursorLine < Len(state.lines)
        /\ Kill(JoinedAfter(state), <<Newline>>, FALSE) /\ UNCHANGED columnVars
     \/ state.cursorCol >= length /\ state.cursorLine = Len(state.lines) /\ NoChange

---------------------------------------------------------------------------
(* The kill ring, undo, and the program. *)

Yank ==
  /\ Press("yank") /\ killRing # <<>> /\ Edits /\ SetCursorCol
  /\ PushUndoSnapshot
  /\ state' = Inserted(state, Last(killRing))
  /\ lastAction' = "yank" /\ mark' = state /\ UNCHANGED killRing

\* Mutation: what takes the place of what was yanked is no undo step.
SilentYankPop ==
  /\ Press("yankPop") /\ lastAction = "yank" /\ Len(killRing) > 1 /\ Edits /\ SetCursorCol
  /\ killRing' = <<Last(killRing)>> \o Front(killRing)
  /\ state' = Inserted(Unyanked(state, Last(killRing)), Last(Front(killRing)))
  /\ UNCHANGED <<undoStack, lastAction, mark>>

\* What was yanked gives way to what was killed before it.
YankPop ==
  /\ Press("yankPop") /\ lastAction = "yank" /\ Len(killRing) > 1 /\ Edits /\ SetCursorCol
  /\ PushUndoSnapshot
  /\ killRing' = <<Last(killRing)>> \o Front(killRing)
  /\ state' = Inserted(Unyanked(state, Last(killRing)), Last(Front(killRing)))
  /\ UNCHANGED <<lastAction, mark>>

\* The column a vertical move snapped from stays.
Undo ==
  /\ Press("undo") /\ undoStack # <<>> /\ Edits
  /\ state' = Last(undoStack) /\ undoStack' = Front(undoStack)
  /\ Forgotten /\ preferredVisualCol' = None
  /\ UNCHANGED <<killRing, snappedFromCursorCol>>

SetText ==
  /\ Press("setText") /\ Edits /\ SetCursorCol
  /\ \E text \in Texts :
       /\ state' = AtEnd(text)
       /\ IF JoinLines(state.lines) # text THEN PushUndoSnapshot ELSE UNCHANGED undoStack
  /\ Forgotten /\ UNCHANGED killRing

\* What is sent: the text with every known paste in place of its marker.
Expanded(text) ==
  FoldLeft(LAMBDA done, g : done \o (IF IsMarker(g) THEN <<"paste">> ELSE Slice(text, g.index, g.end)),
           <<>>, Segments(text, Known))

AddedToHistory(text) ==
  IF text = <<>> \/ (history # <<>> /\ history[1] = text) THEN history
  ELSE SubSeq(<<text>> \o history, 1, Min({Len(history) + 1, MaxHistory}))

\* The prompt goes to the program, which may remember it; pastes are numbered anew.
SubmitValue(s) ==
  /\ history' \in {history, AddedToHistory(Trim(Expanded(JoinLines(s.lines))))}
  /\ state' = EmptyState /\ undoStack' = <<>>
  /\ pastes' = <<>> /\ UNCHANGED numbers
  /\ opened' = Len(numbers) /\ astray' = FALSE /\ jumped' = FALSE
  /\ historyIndex' = 0 /\ SetCursorCol
  /\ Forgotten /\ UNCHANGED <<killRing, lastWidth>>

\* Behind a backslash it becomes a new line instead.
Submit ==
  /\ Press("submit")
  /\ IF state.cursorCol \in DOMAIN Line(state) /\ Line(state)[state.cursorCol] = "\\"
     THEN /\ undoStack' = undoStack \o <<state, Backspaced(state)>>
          /\ state' = SplitAtCursor(Backspaced(state))
          /\ Forgotten /\ Edits /\ SetCursorCol /\ UNCHANGED killRing
     ELSE SubmitValue(state)

---------------------------------------------------------------------------
(* Moving. *)

\* Entering the history is one undo step, however far one goes in it.
NavigateHistory(older) ==
  LET index == IF older THEN historyIndex + 1 ELSE historyIndex - 1
      possible == history # <<>> /\ index \in 0 .. Len(history)
  IN /\ IF possible THEN /\ historyIndex' = index
                         /\ IF historyIndex = 0 THEN PushUndoSnapshot ELSE UNCHANGED undoStack
                         /\ state' = IF index = 0 THEN EmptyState ELSE AtEnd(history[index])
                         /\ SetCursorCol
        ELSE UNCHANGED <<historyIndex, textVars, columnVars>>
     /\ Forgotten /\ UNCHANGED <<killRing, lastWidth, promptVars, astray>>

MovedVertically(moved) ==
  /\ state' = moved.state
  /\ preferredVisualCol' = moved.preferred /\ snappedFromCursorCol' = moved.snapped
  /\ astray' = (astray \/ Stale)
  /\ Forgotten /\ UNCHANGED <<undoStack, killRing, historyIndex, lastWidth, promptVars>>
MoveVertically(visual, current, target) == MovedVertically(MovedToVisualLine(Cursor, visual, current, target))

Up(visual, current) ==
  LET empty == state.lines = <<<<>>>>
      browsing == historyIndex > 0
  IN \/ (empty \/ (browsing /\ current = 1)) /\ NavigateHistory(TRUE)
     \/ ~empty /\ ~browsing /\ current = 1 /\ Move(state.cursorLine, 0)
     \/ ~empty /\ current > 1 /\ MoveVertically(visual, current, current - 1)
CursorUp == Press("up") /\ UNCHANGED jumped /\ Up(Visual, CurrentLine(Visual))

Down(visual, current) ==
  \/ current = Len(visual) /\ historyIndex > 0 /\ NavigateHistory(FALSE)
  \/ current = Len(visual) /\ historyIndex = 0 /\ Move(state.cursorLine, Len(Line(state)))
  \/ current < Len(visual) /\ MoveVertically(visual, current, current + 1)
CursorDown == Press("down") /\ UNCHANGED jumped /\ Down(Visual, CurrentLine(Visual))

Page(visual, current) ==
  \E target \in {Max({1, current - PageSize}), Min({Len(visual), current + PageSize})} :
    MoveVertically(visual, current, target)
PageScroll == Press("page") /\ UNCHANGED jumped /\ Page(Visual, CurrentLine(Visual))

\* At the very end the column is kept for vertical moves.
MoveRight ==
  /\ Press("right") /\ UNCHANGED jumped
  /\ \/ state.cursorCol < Len(Line(state)) /\ Move(state.cursorLine, state.cursorCol + NextLength(state))
     \/ state.cursorCol >= Len(Line(state)) /\ state.cursorLine < Len(state.lines) /\ Move(state.cursorLine + 1, 0)
     \/ /\ state.cursorCol >= Len(Line(state)) /\ state.cursorLine = Len(state.lines)
        /\ preferredVisualCol' = state.cursorCol - Visual[CurrentLine(Visual)].start
        /\ Forgotten
        /\ UNCHANGED <<textVars, killRing, historyIndex, lastWidth, promptVars, astray, snappedFromCursorCol>>

MoveLeft ==
  /\ Press("left") /\ UNCHANGED jumped
  /\ \/ state.cursorCol > 0 /\ Move(state.cursorLine, state.cursorCol - LastLength(state))
     \/ /\ state.cursorCol <= 0 /\ state.cursorLine > 1
        /\ Move(state.cursorLine - 1, Len(state.lines[state.cursorLine - 1]))
     \/ state.cursorCol <= 0 /\ state.cursorLine = 1 /\ Stay

MoveWordBackwards ==
  /\ Press("wordBack") /\ UNCHANGED jumped
  /\ \/ state.cursorCol # 0 /\ Move(state.cursorLine, WordStart(state))
     \/ /\ state.cursorCol = 0 /\ state.cursorLine > 1
        /\ Move(state.cursorLine - 1, Len(state.lines[state.cursorLine - 1]))
     \/ state.cursorCol = 0 /\ state.cursorLine = 1 /\ Stay

MoveWordForwards ==
  /\ Press("word") /\ UNCHANGED jumped
  /\ \/ state.cursorCol < Len(Line(state)) /\ Move(state.cursorLine, WordEnd(state))
     \/ state.cursorCol >= Len(Line(state)) /\ state.cursorLine < Len(state.lines) /\ Move(state.cursorLine + 1, 0)
     \/ state.cursorCol >= Len(Line(state)) /\ state.cursorLine = Len(state.lines) /\ Stay

MoveToLineStart == Press("home") /\ UNCHANGED jumped /\ Move(state.cursorLine, 0)
MoveToLineEnd == Press("end") /\ UNCHANGED jumped /\ Move(state.cursorLine, Len(Line(state)))

\* Occurrences ahead of the cursor or behind it, nearest line first; backwards from column 0 finds column 0 itself.
JumpToChar(char, forward) ==
  LET Found(line) == {i \in 0 .. Len(state.lines[line]) - 1 :
                        /\ state.lines[line][i + 1] = char
                        /\ line = state.cursorLine => IF forward THEN i > state.cursorCol
                                                      ELSE i <= Max({state.cursorCol - 1, 0})}
      ahead == {l \in DOMAIN state.lines : Found(l) # {} /\ IF forward THEN l >= state.cursorLine ELSE l <= state.cursorLine}
      line == IF forward THEN Min(ahead) ELSE Max(ahead)
      col == IF forward THEN Min(Found(line)) ELSE Max(Found(line))
  IN /\ Press("jump")
     /\ \/ ahead = {} /\ Stay /\ UNCHANGED jumped
        \/ /\ ahead # {} /\ Move(line, col)
           /\ jumped' = (jumped \/ InsideMarker([state EXCEPT !.cursorLine = line, !.cursorCol = col]))

Resize ==
  /\ Press("resize") /\ lastWidth' \in Widths \ {lastWidth}
  /\ UNCHANGED <<textVars, ringVars, promptVars, historyIndex, columnVars, astray, jumped>>

---------------------------------------------------------------------------
EditorInit ==
  /\ \E text \in Texts : /\ state = AtEnd(text)
                         /\ undoStack = IF text = <<>> THEN <<>> ELSE <<EmptyState>>
  /\ killRing = <<>> /\ lastAction = "none" /\ mark = EmptyState
  /\ history = <<>> /\ historyIndex = 0
  /\ numbers = <<>> /\ pastes = <<>> /\ opened = 0
  /\ lastWidth \in Widths
  /\ preferredVisualCol = None /\ snappedFromCursorCol = None
  /\ pressed = 0 /\ astray = FALSE /\ jumped = FALSE

EditingNext ==
  \/ \E char \in Chars : InsertCharacter(char)
  \/ PasteSmall \/ InsertTextAtCursor \/ PasteLarge \/ AddNewLine
  \/ HandleBackspace \/ HandleForwardDelete
  \/ DeleteToStartOfLine \/ DeleteToEndOfLine \/ DeleteWordBackwards \/ DeleteWordForward
  \/ Yank \/ YankPop \/ Undo \/ SetText \/ Submit

MovingNext ==
  \/ CursorUp \/ CursorDown \/ PageScroll \/ MoveLeft \/ MoveRight
  \/ MoveWordBackwards \/ MoveWordForwards \/ MoveToLineStart \/ MoveToLineEnd
  \/ \E char \in JumpChars, forward \in BOOLEAN : JumpToChar(char, forward)
  \/ Resize

EditorNext == EditingNext \/ MovingNext

---------------------------------------------------------------------------
(* What the editor promises. *)

EditorTypeOK ==
  /\ state.lines # <<>> /\ state.cursorLine \in DOMAIN state.lines /\ state.cursorCol \in Int
  /\ \A i \in DOMAIN undoStack : undoStack[i].cursorLine \in DOMAIN undoStack[i].lines
  /\ \A i \in DOMAIN killRing : killRing[i] # <<>>
  /\ lastAction \in {"none", "kill", "yank", "type-word"}
  /\ Len(history) <= MaxHistory /\ historyIndex \in 0 .. Len(history)
  /\ \A n \in DOMAIN pastes : pastes[n] \in DOMAIN numbers
  /\ lastWidth \in Widths /\ preferredVisualCol >= None /\ snappedFromCursorCol >= None
  /\ pressed \in 0 .. MaxKeys /\ opened \in 0 .. Len(numbers) /\ {astray, jumped} \subseteq BOOLEAN

\* The parts a line is wrapped into are all of it, in order, none wider than the screen; a segment is cut only where it
\* is wider than the screen itself, and a word only where it does not fit on a line of its own.
WrapsWhole ==
  \A line \in ToSet(state.lines), width \in Widths :
    LET chunks == WordWrapLine(line, width, Known)
        segments == ToSet(Segments(line, Known))
        Cut(i) == chunks[i].end
    IN TextWidth(line) > width =>
         /\ chunks[1].start = 0 /\ Last(chunks).end = Len(line)
         /\ \A i \in DOMAIN chunks : /\ TextWidth(Slice(line, chunks[i].start, chunks[i].end)) <= width
                                     /\ chunks[i].start < chunks[i].end
         /\ \A i \in 1 .. Len(chunks) - 1 :
              /\ chunks[i + 1].start = Cut(i)
              /\ \A g \in segments : g.index < Cut(i) /\ Cut(i) < g.end => TextWidth(Slice(line, g.index, g.end)) > width

\* The cursor is in the text ("keeping it in bounds", :1742), and on a marker, never inside ("so the cursor never lands
\* in the middle of a multi-grapheme unit", :1290): but for jumps, and for what follows a vertical move whose column is
\* that of a marker which was deleted or undone, see Stale.
CursorInText ==
  /\ astray \/ state.cursorCol \in 0 .. Len(Line(state))
  /\ astray \/ jumped \/ ~InsideMarker(state)

\* The oldest state to go back to is the empty prompt, also in the history, behind a submission and when words typed
\* together are one step: nothing typed since is out of the reach of undo.
UndoReachesStart == IF undoStack = <<>> THEN state.lines = <<<<>>>> ELSE undoStack[1].lines = <<<<>>>>

\* However text was killed, by which keys in a row and in both directions, a yank brings it back as it was; and however
\* often another entry of the ring takes the place of what was yanked, nothing else changes.
KillsComeBack ==
  astray \/ /\ lastAction = "kill" => Inserted(state, Last(killRing)).lines = mark.lines
            /\ lastAction = "yank" => state = Inserted(mark, Last(killRing))

\* A marker of this prompt stands for the paste it was made for, wherever it has been meanwhile: in the text, a state
\* to go back to, or the kill ring; and what is sent has all of the paste in its place.
MarkersHold ==
  \A n \in opened + 1 .. Len(numbers) : numbers[n] \in DOMAIN pastes /\ pastes[numbers[n]] = n

\* Undo takes back the last change and no more: a change of the text keeps the state before it, but for a word that is
\* typed on and for going from one prompt of the history to another.
ChangeIsUndone ==
  state'.lines # state.lines =>
    \/ IsPrefix(Append(undoStack, state), undoStack')
    \/ undoStack' = undoStack /\ \/ lastAction = "type-word" /\ lastAction' = "type-word"
                                 \/ historyIndex > 0 /\ historyIndex' # historyIndex
    \/ undoStack = Append(undoStack', state')
    \/ undoStack' = <<>> /\ state' = EmptyState
=============================================================================
