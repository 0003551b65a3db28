----------------------------- MODULE BashOutput -----------------------------
(***************************************************************************)
(* The output of a command, as the bash tool keeps it (OutputAccumulator   *)
(* in src/packages/coding-agent/src/core/tools/output-accumulator.ts) and  *)
(* as the user's own commands keep it (executeBashWithOperations in        *)
(* core/bash-executor.ts): both are fed the chunks of a pipe, keep a       *)
(* bounded tail, write everything to a temporary file once it is too much, *)
(* and show the tail that truncateTail (tools/truncate.ts) makes of it.    *)
(*                                                                         *)
(* Bytes are "a" (any one-byte character), "n" (newline), and "L" "T" (the *)
(* two halves of a two-byte character "e"); "?" is the replacement         *)
(* character.  A pipe may cut a character, a command may end inside one.   *)
(***************************************************************************)
EXTENDS Naturals, Sequences, SequencesExt

CONSTANTS Chunks,             \* what may come out of the pipe at once
          MaxOutput,          \* bound on the bytes of a command
          MaxBytes, MaxLines  \* DEFAULT_MAX_BYTES and DEFAULT_MAX_LINES

MaxRolling == 2 * MaxBytes    \* maxRollingBytes, and maxOutputBytes of the executor
NL == "n"
NoFile == <<"no file">>

VARIABLES
  raw,         \* the bytes so far
  text,        \* the same, decoded: what the tails are tails of
  cut,         \* the decoder holds the first half of a character
  tail,        \* tailText
  atLineStart, \* tailStartsAtLineBoundary
  counts,      \* the counters of the accumulator
  rawChunks,   \* rawChunks, joined
  toolFile,    \* the temporary file of the tool
  finished,    \* the command has ended
  chunks,      \* outputChunks of the executor
  execFile     \* its temporary file

outputVars == <<raw, text, cut, tail, atLineStart, counts, rawChunks, toolFile, finished, chunks, execFile>>

OutputInit ==
  /\ raw = <<>> /\ text = <<>> /\ cut = FALSE
  /\ tail = <<>> /\ atLineStart = TRUE
  /\ counts = [raw |-> 0, decoded |-> 0, completed |-> 0, current |-> 0, open |-> FALSE]
  /\ rawChunks = <<>> /\ toolFile = NoFile
  /\ finished = FALSE
  /\ chunks = <<>> /\ execFile = NoFile

---------------------------------------------------------------------------
(* Text                                                                    *)

Size(c) == CASE c = "e" -> 2 [] c = "?" -> 3 [] OTHER -> 1
Bytes(s) == FoldLeft(LAMBDA n, c : n + Size(c), 0, s)
From(s, i) == SubSeq(s, i, Len(s))

\* The longest end of s within n bytes: no character is cut (trimTail, truncateStringToBytesFromEnd).
EndWithin(s, n) == From(s, CHOOSE i \in 1..(Len(s) + 1) : /\ Bytes(From(s, i)) <= n
                                                           /\ \A j \in 1..(i - 1) : Bytes(From(s, j)) > n)

\* splitLinesForCounting: a newline at the end starts no line.
Split(s) == FoldLeft(LAMBDA ls, c : IF c = NL THEN Append(ls, <<>>) ELSE [ls EXCEPT ![Len(ls)] = Append(@, c)],
                     << <<>> >>, s)
LinesOf(s) == IF s = <<>> THEN <<>> ELSE IF Last(s) = NL THEN Front(Split(s)) ELSE Split(s)
\* The bytes of lines, each with its newline.
BytesOfLines(ls) == FoldLeft(LAMBDA n, l : n + Bytes(l) + 1, 0, ls)

\* truncateTail: as many whole lines from the end as both limits allow, or the end of the last one.
TruncateTail(s) ==
  LET lines == LinesOf(s)
      Fits(k) == BytesOfLines(From(lines, Len(lines) - k + 1)) - 1 <= MaxBytes   \* the last one ends in none
      kept == CHOOSE k \in 0..Len(lines) : /\ k <= MaxLines /\ (k > 0 => Fits(k))
                                           /\ k < Len(lines) /\ k < MaxLines => ~Fits(k + 1)
  IN IF Len(lines) <= MaxLines /\ Bytes(s) <= MaxBytes
     THEN [lines |-> lines, truncated |-> FALSE, partial |-> FALSE]
     ELSE IF kept = 0 THEN [lines |-> <<EndWithin(Last(lines), MaxBytes)>>, truncated |-> TRUE, partial |-> TRUE]
          ELSE [lines |-> From(lines, Len(lines) - kept + 1), truncated |-> TRUE, partial |-> FALSE]

\* TextDecoder, streaming.
Decode(bytes) == FoldLeft(LAMBDA s, b : IF b = "L" THEN s ELSE Append(s, IF b = "T" THEN "e" ELSE b), <<>>, bytes)

---------------------------------------------------------------------------
(* OutputAccumulator                                                       *)

\* appendDecodedText: the tail with its trim, and the counters.
AppendTail(s) ==
  LET all == tail \o s IN
  IF Bytes(all) > 2 * MaxRolling
  THEN /\ tail' = EndWithin(all, MaxRolling)
       /\ atLineStart' = (all[Len(all) - Len(EndWithin(all, MaxRolling))] = NL)
  ELSE tail' = all /\ atLineStart' = atLineStart

\* Mutation: half a character opens a line.
CountedAlways(s, bytes) ==
  LET newlines == Len(Split(s)) - 1
      rest == Last(Split(s))
  IN [raw |-> counts.raw + bytes, decoded |-> counts.decoded + Bytes(s), completed |-> counts.completed + newlines,
      current |-> IF newlines = 0 THEN counts.current + Bytes(s) ELSE Bytes(rest),
      open |-> newlines = 0 \/ rest # <<>>]

Counted(s, bytes) ==
  LET newlines == Len(Split(s)) - 1
      rest == Last(Split(s))
  IN [raw |-> counts.raw + bytes, decoded |-> counts.decoded + Bytes(s), completed |-> counts.completed + newlines,
      current |-> IF newlines = 0 THEN counts.current + Bytes(s) ELSE Bytes(rest),
      open |-> IF s = <<>> THEN counts.open ELSE newlines = 0 \/ rest # <<>>]

TotalLines(c) == c.completed + (IF c.open THEN 1 ELSE 0)
TooMuch(c) == c.decoded > MaxBytes \/ TotalLines(c) > MaxLines
\* Mutation: the bytes that are not decoded yet do not count.
UsesFileDecoded(c) == TooMuch(c)
\* Mutation: only the bytes that have come count.
UsesFileRaw(c) == c.raw > MaxBytes
UsesFile(c) == c.raw > MaxBytes \/ TooMuch(c)

\* append
ToTool(bytes, s) ==
  /\ AppendTail(s)
  /\ counts' = Counted(s, Len(bytes))
  /\ IF toolFile # NoFile THEN toolFile' = toolFile \o bytes /\ rawChunks' = rawChunks
     ELSE IF UsesFile(counts') THEN toolFile' = rawChunks \o bytes /\ rawChunks' = <<>>
          ELSE toolFile' = NoFile /\ rawChunks' = rawChunks \o bytes

\* Mutation: nothing is cut.
SnapshotTextUncut == tail
\* What snapshot cuts from the tail before truncateTail: the rest of a line whose start is gone.
SnapshotText ==
  IF atLineStart \/ ~Contains(tail, NL) THEN tail
  ELSE From(tail, (CHOOSE i \in 1..Len(tail) : tail[i] = NL /\ \A j \in 1..(i - 1) : tail[j] # NL) + 1)

Snapshot == [TruncateTail(SnapshotText) EXCEPT !.truncated = TooMuch(counts)]

---------------------------------------------------------------------------
(* executeBashWithOperations                                               *)

\* The oldest chunks go, all but the last, while more than the limit is kept; characters are counted here.
Roll(cs) == From(cs, CHOOSE i \in DOMAIN cs : /\ i = Len(cs) \/ Len(FlattenSeq(From(cs, i))) <= MaxRolling
                                             /\ \A j \in 1..(i - 1) : Len(FlattenSeq(From(cs, j))) > MaxRolling)

\* Mutation: the file is opened when chunks have been dropped already.
ToExecutorLate(bytes, s) ==
  /\ chunks' = Roll(Append(chunks, s))
  /\ execFile' = IF execFile # NoFile THEN execFile \o s
                 ELSE IF Len(raw) + Len(bytes) > MaxBytes THEN FlattenSeq(chunks') ELSE NoFile

ToExecutor(bytes, s) ==
  /\ execFile' = IF execFile # NoFile THEN execFile \o s
                 ELSE IF Len(raw) + Len(bytes) > MaxBytes THEN FlattenSeq(chunks) \o s ELSE NoFile
  /\ chunks' = Roll(Append(chunks, s))

ExecutorResult == TruncateTail(FlattenSeq(chunks))

---------------------------------------------------------------------------
Output(bytes) ==
  LET s == Decode(bytes) IN
  /\ ~finished /\ Len(raw) + Len(bytes) <= MaxOutput
  /\ (bytes[1] = "T") <=> cut
  /\ raw' = raw \o bytes /\ text' = text \o s /\ cut' = (Last(bytes) = "L")
  /\ ToTool(bytes, s) /\ ToExecutor(bytes, s)
  /\ finished' = finished

\* finish flushes the decoder of the tool; the executor leaves its own as it is.
Finish ==
  /\ ~finished /\ finished' = TRUE
  /\ LET s == IF cut THEN <<"?">> ELSE <<>> IN
     /\ text' = text \o s
     /\ AppendTail(s)
     /\ counts' = Counted(s, 0)
     /\ IF toolFile = NoFile /\ UsesFile(counts') THEN toolFile' = rawChunks /\ rawChunks' = <<>>
        ELSE UNCHANGED <<toolFile, rawChunks>>
  /\ execFile' = IF execFile = NoFile /\ ExecutorResult.truncated THEN FlattenSeq(chunks) ELSE execFile
  /\ cut' = FALSE
  /\ UNCHANGED <<raw, chunks>>

OutputNext == Finish \/ \E bytes \in Chunks : Output(bytes)

OutputSpec == OutputInit /\ [][OutputNext]_outputVars

---------------------------------------------------------------------------
OutputTypeOK ==
  /\ atLineStart \in BOOLEAN /\ cut \in BOOLEAN /\ finished \in BOOLEAN
  /\ counts.raw <= MaxOutput /\ counts.current <= counts.decoded

\* "Output is truncated to last ... lines or ...KB" (bash.ts:279): what the tool shows is what
\* truncateTail would make of the whole output.
SnapshotIsTail == Snapshot = TruncateTail(text)

\* The same, except that nothing is shown of a last line that is longer than the kept tail when a newline
\* ends it: the cut takes the rest of that line for the rest of an earlier one.
LongLastLine == text # <<>> /\ Last(text) = NL /\ Bytes(Last(LinesOf(text))) >= MaxRolling
SnapshotIsTailOrLongLine == LongLastLine \/ SnapshotIsTail

\* The totals that are reported beside the tail are those of the whole output, wherever chunks end.
CountsAreExact ==
  /\ counts.decoded = Bytes(text) /\ counts.raw = Len(raw)
  /\ TotalLines(counts) = Len(LinesOf(text))
  /\ counts.current = Bytes(Last(Split(text)))

\* "If truncated, full output is saved to a temp file" (bash.ts:279), from its first byte on, also when
\* it was the last byte that made it too much; until then nothing that is needed for it is dropped.
TempFilesAreWhole ==
  /\ toolFile # NoFile => toolFile = raw
  /\ toolFile = NoFile => rawChunks = raw
  /\ finished /\ Snapshot.truncated => toolFile # NoFile
  /\ execFile # NoFile => IsPrefix(execFile, text)

\* "bounded memory" (output-accumulator.ts:30): however much a command prints.
MemoryIsBounded == Bytes(tail) <= 2 * MaxRolling /\ Len(rawChunks) <= MaxBytes

\* "Whether the output was truncated" (bash-executor.ts:34): a result that leaves a part out says so.
TruncationIsTold == finished /\ ~ExecutorResult.truncated => ExecutorResult.lines = LinesOf(text)

\* The executor shows the end of the output (but for the half of a character its decoder still holds),
\* and when it has dropped a chunk its file has the whole.
ExecutorShowsEnd ==
  LET all == FlattenSeq(chunks)
      decoded == IF Contains(text, "?") THEN Front(text) ELSE text
  IN /\ IsSuffix(all, decoded)
     /\ all # decoded => execFile = decoded
=============================================================================
