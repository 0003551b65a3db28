---------------------------- MODULE EditorLayout ----------------------------
(***************************************************************************)
(* How the editor (packages/tui/src/components/editor.ts) cuts its lines   *)
(* into segments and wraps them for the screen.  A text is a sequence of   *)
(* cells, a position in it is the number of cells before it.  The marker   *)
(* that stands for a large paste, "[paste #1 +20 lines]" in the code, is   *)
(* three cells: an opening bracket, the paste and a closing bracket; it is *)
(* one segment while its paste is known, so that the cursor, deletions and *)
(* the wrapping take it as a whole.                                        *)
(***************************************************************************)
EXTENDS Integers, Sequences, SequencesExt, FiniteSetsExt

Newline == "\n"
Space == " "
Punctuation == {"[", "]", "/", "\\", "@"}
PasteCells == {"1", "2", "3"}
Marker(paste) == <<"[", paste, "]">>

\* The columns a text takes on the screen.
TextWidth(text) == Len(text) + Cardinality({i \in DOMAIN text : text[i] = "wide"})

\* String.prototype.slice: a position below 0 counts from the end.
Slice(text, first, end) ==
  LET Position(i) == IF i < 0 THEN Max({Len(text) + i, 0}) ELSE Min({i, Len(text)})
  IN SubSeq(text, Position(first) + 1, Position(end))

SplitLines(text) ==
  FoldLeft(LAMBDA done, cell : IF cell = Newline THEN Append(done, <<>>)
                               ELSE [done EXCEPT ![Len(done)] = Append(@, cell)],
           <<<<>>>>, text)

\* Text without the white space before it, and around it.
TrimStart(text) ==
  LET solid == {i \in DOMAIN text : text[i] \notin {Space, Newline}}
  IN IF solid = {} THEN <<>> ELSE SubSeq(text, Min(solid), Len(text))
Trim(text) ==
  LET solid == {i \in DOMAIN text : text[i] \notin {Space, Newline}}
  IN IF solid = {} THEN <<>> ELSE SubSeq(text, Min(solid), Max(solid))

MarkerAt(text, valid, i) ==
  i \in 0 .. Len(text) - 3 /\ text[i + 2] \in valid /\ SubSeq(text, i + 1, i + 3) = Marker(text[i + 2])

\* A line as graphemes and markers of pastes that are known, in order.
Segments(text, valid) ==
  LET Inside(i) == MarkerAt(text, valid, i - 1) \/ MarkerAt(text, valid, i - 2)
      starts == SelectSeq([i \in 1 .. Len(text) |-> i - 1], LAMBDA i : ~Inside(i))
  IN [k \in DOMAIN starts |->
        [index |-> starts[k], end |-> IF MarkerAt(text, valid, starts[k]) THEN starts[k] + 3 ELSE starts[k] + 1]]

IsMarker(segment) == segment.end > segment.index + 1
SegmentClass(text, segment) ==
  CASE IsMarker(segment) -> "marker"
    [] ~IsMarker(segment) /\ text[segment.end] = Space -> "space"
    [] ~IsMarker(segment) /\ text[segment.end] \in Punctuation -> "punctuation"
    [] OTHER -> "word"

---------------------------------------------------------------------------
(* Wrapping. *)

\* A marker wider than the screen is cut wherever the screen ends, for the eye only.
Pieces(segment, maxWidth) ==
  [k \in 1 .. (segment.end - segment.index + maxWidth - 1) \div maxWidth |->
     [start |-> segment.index + (k - 1) * maxWidth, end |-> Min({segment.index + k * maxWidth, segment.end})]]

\* Mutation: a line is broken at the last wrap opportunity, also when what is behind it does not fit with the segment.
BrokenAtSpace(w, segment, width, maxWidth) ==
  IF w.width + width <= maxWidth \/ w.opportunity < 0 THEN w
  ELSE [w EXCEPT !.chunks = Append(@, [start |-> w.start, end |-> w.opportunity]), !.start = w.opportunity,
                 !.width = @ - w.opportunityWidth, !.opportunity = -1]

\* What is open when a segment would pass the right edge: up to the last wrap opportunity, or up to the segment.
Broken(w, segment, width, maxWidth) ==
  CASE w.width + width <= maxWidth -> w
    [] w.width + width > maxWidth /\ w.opportunity >= 0 /\ w.width - w.opportunityWidth + width <= maxWidth ->
         [w EXCEPT !.chunks = Append(@, [start |-> w.start, end |-> w.opportunity]), !.start = w.opportunity,
                   !.width = @ - w.opportunityWidth, !.opportunity = -1]
    [] OTHER ->
         IF w.start < segment.index
         THEN [w EXCEPT !.chunks = Append(@, [start |-> w.start, end |-> segment.index]), !.start = segment.index,
                        !.width = 0, !.opportunity = -1]
         ELSE [w EXCEPT !.opportunity = -1]

\* The segment itself; behind a space comes the next opportunity.
Taken(w, segment, width, maxWidth, pieces, opens) ==
  CASE width > maxWidth ->
         [w EXCEPT !.chunks = @ \o Front(pieces), !.start = Last(pieces).start,
                   !.width = Last(pieces).end - Last(pieces).start, !.opportunity = -1]
    [] width <= maxWidth /\ opens ->
         [w EXCEPT !.width = @ + width, !.opportunity = segment.end, !.opportunityWidth = w.width + width]
    [] OTHER -> [w EXCEPT !.width = @ + width]

Wrapped(line, segments, maxWidth) ==
  LET Width(segment) == TextWidth(SubSeq(line, segment.index + 1, segment.end))
      IsSpace(k) == SegmentClass(line, segments[k]) = "space"
      Step(w, k) == Taken(Broken(w, segments[k], Width(segments[k]), maxWidth), segments[k], Width(segments[k]),
                          maxWidth, Pieces(segments[k], maxWidth), IsSpace(k) /\ k < Len(segments) /\ ~IsSpace(k + 1))
  IN FoldLeft(Step, [chunks |-> <<>>, start |-> 0, width |-> 0, opportunity |-> -1, opportunityWidth |-> 0],
              [k \in DOMAIN segments |-> k])

WordWrapLine(line, maxWidth, valid) ==
  LET wrapped == Wrapped(line, Segments(line, valid), maxWidth)
  IN Append(wrapped.chunks, [start |-> wrapped.start, end |-> Len(line)])

\* The lines of the screen: of which line of the text each is a part, from where and how long.
BuildVisualLineMap(lines, width, valid) ==
  LET Chunks(line) == IF TextWidth(line) <= width THEN <<[start |-> 0, end |-> Len(line)]>>
                      ELSE WordWrapLine(line, width, valid)
      Visual(i) == LET chunks == Chunks(lines[i])
                   IN [k \in DOMAIN chunks |->
                         [line |-> i, start |-> chunks[k].start, length |-> chunks[k].end - chunks[k].start]]
  IN FlattenSeq([i \in DOMAIN lines |-> Visual(i)])

\* The last screen line of its line.
EndsLine(visual, i) == i = Len(visual) \/ visual[i + 1].line # visual[i].line

\* The screen line with a position; the last of all when there is none.
FindVisualLineAt(visual, line, col) ==
  LET Holds(i) == /\ visual[i].line = line /\ col >= visual[i].start
                  /\ \/ col < visual[i].start + visual[i].length
                     \/ col = visual[i].start + visual[i].length /\ EndsLine(visual, i)
      holding == {i \in DOMAIN visual : Holds(i)}
  IN IF holding = {} THEN Len(visual) ELSE Min(holding)
=============================================================================
