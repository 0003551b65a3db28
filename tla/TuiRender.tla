------------------------------- MODULE TuiRender -------------------------------
(***************************************************************************)
(* The differential renderer of the terminal interface (doRender of        *)
(* packages/tui/src/tui.ts) and the terminal it writes to.  The renderer   *)
(* never reads the terminal: it reckons where the cursor is and which      *)
(* lines are on the screen from what it has written.                       *)
(*                                                                         *)
(* A line is a symbol; its width, its styles and images are left out, and  *)
(* an overlay is a change of lines.  The rows of the terminal, from the    *)
(* first of its scrollback on, are numbered from 0.                        *)
(***************************************************************************)
EXTENDS Integers, Sequences, FiniteSets, FiniteSetsExt

CONSTANTS Line,         \* the texts of a line; one of them is Blank
          MaxContent,   \* bound on the lines the components render
          Heights,      \* the heights of the terminal
          MaxResizes,   \* bound on the changes of its height
          ClearOnShrink \* the values of clearOnShrink

Blank == "blank"
Garbled == "garbled"
\* The rows of the terminal a behaviour may reach.
Rows == 0 .. 2 * MaxContent + Max(Heights)

VARIABLES previousLines, previousViewportTop, hardwareCursorRow, maxLinesRendered,
          previousHeight,  \* 0 before the first render
          clearOnShrink,
          termRow,         \* the row of the terminal's cursor, on the screen
          termTop,         \* the lines that have been scrolled off
          termHeight, cell,\* cell[r]: the text of a row
          origin,          \* the row that shows the first line
          misplaced,       \* the cursor was sent to a line that is not on the screen, or nothing was left to show
          resizes

tuiVars == <<previousLines, previousViewportTop, hardwareCursorRow, maxLinesRendered, previousHeight, clearOnShrink,
             termRow, termTop, termHeight, cell, origin, misplaced, resizes>>

TuiInit ==
  /\ previousLines = <<>> /\ previousViewportTop = 0 /\ hardwareCursorRow = 0 /\ maxLinesRendered = 0
  /\ previousHeight = 0 /\ clearOnShrink \in ClearOnShrink
  /\ termHeight \in Heights /\ termTop = 0 /\ termRow \in 0 .. termHeight - 1
  /\ cell = [r \in Rows |-> Blank]
  /\ origin = termRow /\ misplaced = FALSE /\ resizes = 0

---------------------------------------------------------------------------
(* The terminal: operators from one state of it, [row, top, cell], to the next. *)

Larger(a, b) == IF a > b THEN a ELSE b
Smaller(a, b) == IF a < b THEN a ELSE b
Terminal == [row |-> termRow, top |-> termTop, cell |-> cell]
\* The cursor stops at the edges of the screen.
Move(t, n) == [t EXCEPT !.row = Larger(0, Smaller(termHeight - 1, @ + n))]
\* A line feed on the last row scrolls.
Feed(t, n) == LET beyond == Larger(0, t.row + n - (termHeight - 1))
              IN [t EXCEPT !.row = Smaller(termHeight - 1, @ + n), !.top = @ + beyond]
Cleared == [row |-> 0, top |-> 0, cell |-> [r \in Rows |-> Blank]]
\* A text over another one, when its row has not been cleared.
Over(old, new) == IF old = Blank \/ old = new THEN new ELSE IF new = Blank THEN old ELSE Garbled
\* Rows from the cursor's on are given lines, with line feeds between them.
DrawLines(t, lines, Drawn(_, _)) ==
  LET first == t.top + t.row
  IN [Feed(t, Larger(0, Len(lines) - 1)) EXCEPT
       !.cell = [r \in Rows |-> IF r - first + 1 \in DOMAIN lines THEN Drawn(t.cell[r], lines[r - first + 1]) ELSE t.cell[r]]]
Write(t, lines) == DrawLines(t, lines, Over)
ClearAndWrite(t, lines) == DrawLines(t, lines, LAMBDA old, new : new)

---------------------------------------------------------------------------
(* The renderer. *)

\* Mutation: what is remembered is the end of the content, not where the cursor was put.
CursorAtEnd(cursor, from) == from

\* The line the cursor is on behind a render that has left it on another one.
CursorTo(cursor, from) == IF cursor = -1 THEN from ELSE cursor

\* The end of every render: what is written is followed by the move to the cursor's line.
Finish(lines, t, from, cursor, start, lost) ==
  LET to == CursorTo(cursor, from)
      end == Move(t, IF cursor = -1 THEN 0 ELSE cursor - from)
  IN /\ previousLines' = lines
     /\ hardwareCursorRow' = to
     /\ termRow' = end.row /\ termTop' = end.top /\ cell' = end.cell
     /\ origin' = start
     /\ misplaced' = (lost \/ (cursor # -1 /\ start + cursor < t.top))
     /\ previousHeight' = termHeight
     /\ UNCHANGED <<clearOnShrink, termHeight, resizes>>

\* Mutation: no lines have a last one, too.
LastLineOrNone(lines) == Len(lines) - 1

\* The last line; 0 when there is none.
LastLine(lines) == Larger(0, Len(lines) - 1)

FullRender(lines, clear, cursor) ==
  LET before == IF clear THEN Cleared ELSE Terminal
  IN /\ Finish(lines, Write(before, lines), LastLine(lines), cursor, before.top + before.row, misplaced /\ ~clear)
     /\ maxLinesRendered' = IF clear THEN Len(lines) ELSE Larger(maxLinesRendered, Len(lines))
     /\ previousViewportTop' = Larger(0, Len(lines) - termHeight)

\* The places, from 0 on, at which the lines differ; a line that is there differs from none, also when it
\* shows nothing.
Changed(lines) ==
  {i \in 0 .. Larger(Len(lines), Len(previousLines)) - 1 :
     i >= Smaller(Len(lines), Len(previousLines)) \/ lines[i + 1] # previousLines[i + 1]}

\* Only the cursor may have moved.
OnlyCursor(lines, cursor) ==
  /\ Finish(lines, Terminal, hardwareCursorRow, cursor, origin, misplaced)
  /\ UNCHANGED <<maxLinesRendered, previousViewportTop>>

\* All that has changed is gone: the rows are cleared.
Shorten(lines, cursor) ==
  LET target == LastLine(lines)
      extra == Len(previousLines) - Len(lines)
      there == Move(Terminal, target - hardwareCursorRow)
      below == Move(there, 1)
      first == below.top + below.row
      last == Smaller(first + extra - 1, below.top + termHeight - 1)
      wiped == [Move(below, extra - 1) EXCEPT !.cell = [r \in Rows |-> IF r \in first .. last THEN Blank ELSE cell[r]]]
  IN IF target < previousViewportTop \/ extra > termHeight THEN FullRender(lines, TRUE, cursor)
     ELSE /\ Finish(lines, Move(wiped, -extra), target, cursor, origin, misplaced \/ lines = <<>>)
          /\ UNCHANGED <<maxLinesRendered, previousViewportTop>>

\* Mutation: the screen is taken to begin one line higher.
TopOf(final) == final - termHeight

\* The lines that do not fit above the last one.
TopFor(final) == final - termHeight + 1

\* From the first line that has changed to the last one.  It is never below the screen (LinesFit), so the
\* code does not scroll to it first.
Differential(lines, changed, cursor) ==
  LET first == Min(changed)
      appends == Len(lines) > Len(previousLines)
      last == Smaller(IF appends THEN Len(lines) - 1 ELSE Max(changed), Len(lines) - 1)
      appendStart == appends /\ first = Len(previousLines) /\ first > 0
      target == IF appendStart THEN first - 1 ELSE first
      there == Move(Terminal, target - hardwareCursorRow)
      drawn == ClearAndWrite(IF appendStart THEN Feed(there, 1) ELSE there, SubSeq(lines, first + 1, last + 1))
      extra == Larger(0, Len(previousLines) - Len(lines))
      final == IF extra > 0 THEN Len(lines) - 1 ELSE last
      end == Move(drawn, final - last)
      cleaned == IF extra = 0 THEN end
                 ELSE Move(ClearAndWrite(Feed(end, 1), [i \in 1 .. extra |-> Blank]), -extra)
  IN /\ Finish(lines, cleaned, final, cursor, origin, misplaced)
     /\ maxLinesRendered' = Larger(maxLinesRendered, Len(lines))
     /\ previousViewportTop' = Larger(previousViewportTop, TopFor(final))

\* doRender.  A change of the width, and a forced render, are redraws, too.
Render(lines, cursor) ==
  LET changed == Changed(lines)
      first == previousLines = <<>> /\ previousHeight \in {0, termHeight}
      resized == previousHeight \notin {0, termHeight}
      shrunk == clearOnShrink /\ Len(lines) < maxLinesRendered
      above == changed # {} /\ Min(changed) < Len(lines) /\ Min(changed) < previousViewportTop
  IN \/ first /\ FullRender(lines, FALSE, cursor)
     \/ ~first /\ (resized \/ shrunk \/ above) /\ FullRender(lines, TRUE, cursor)
     \/ /\ ~first /\ ~resized /\ ~shrunk /\ ~above
        /\ \/ changed = {} /\ OnlyCursor(lines, cursor)
           \/ changed # {} /\ Min(changed) >= Len(lines) /\ Shorten(lines, cursor)
           \/ changed # {} /\ Min(changed) < Len(lines) /\ Differential(lines, changed, cursor)

Redraw(lines, cursor) == previousHeight # 0 /\ FullRender(lines, TRUE, cursor)

\* The height changes, and a render follows: where the terminal has its rows then does not matter, as all is drawn
\* anew.  (In Termux it is not; that is left out, as it depends on the terminal.)
Resize(h) ==
  /\ h # termHeight /\ resizes < MaxResizes /\ previousHeight = termHeight
  /\ termHeight' = h /\ resizes' = resizes + 1
  /\ termRow' = Smaller(termRow, h - 1)
  /\ UNCHANGED <<previousLines, previousViewportTop, hardwareCursorRow, maxLinesRendered, previousHeight, clearOnShrink,
                 termTop, cell, origin, misplaced>>

\* The cursor marker is on one of the last lines, where it is looked for, or on none.  When the cursor has
\* been lost a behaviour is followed only to the next redraw.
Cursors(lines) == {-1} \cup Larger(0, Len(lines) - termHeight) .. Len(lines) - 1
TuiNext ==
  \/ \E lines \in UNION {[1 .. n -> Line] : n \in 0 .. MaxContent} :
       \E cursor \in Cursors(lines) : (~misplaced /\ Render(lines, cursor)) \/ Redraw(lines, cursor)
  \/ \E h \in Heights : Resize(h)

---------------------------------------------------------------------------
\* Type invariant.
TuiTypeOK ==
  /\ previousLines \in Seq(Line) /\ {previousViewportTop, hardwareCursorRow, maxLinesRendered} \subseteq 0 .. MaxContent
  /\ previousHeight \in {0} \cup Heights /\ termHeight \in Heights /\ termRow \in 0 .. termHeight - 1
  /\ termTop + termHeight - 1 \in Rows /\ cell \in [Rows -> Line \cup {Garbled}]

\* What the renderer reckons is so: after each render the screen shows the end of the content as it was
\* reckoned to, with nothing left of what was there before, and the cursor is on the line it is thought to be on,
\* unless that line had been scrolled off the screen or no line was left.
Rendered == previousHeight = termHeight /\ ~misplaced
LinesFit == Rendered => Len(previousLines) <= previousViewportTop + termHeight
ScreenIsTrue ==
  Rendered =>
    /\ termTop + termRow = origin + hardwareCursorRow
    /\ Len(previousLines) > 0 => origin + Len(previousLines) - 1 \in termTop .. termTop + termHeight - 1
    /\ \A r \in termTop .. termTop + termHeight - 1 :
         cell[r] = IF r - origin + 1 \in DOMAIN previousLines THEN previousLines[r - origin + 1] ELSE Blank

\* The same however the content changes; it does not hold.
CursorIsFound == ~misplaced
=============================================================================
