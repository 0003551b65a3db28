----------------------------- MODULE StdinBuffer -----------------------------
(***************************************************************************)
(* The terminal's input, cut anywhere by the reads of stdin, back into key *)
(* sequences and pastes (packages/tui/src/stdin-buffer.ts).                *)
(*                                                                         *)
(* A byte is a symbol: E is escape, "[", "O", "P" and "\" what they are in *)
(* a sequence, "1" a parameter, "A" and "u" final bytes and "a" a letter;  *)
(* E [ S and E [ Z stand for the marks around a paste, ESC [200~ and       *)
(* ESC [201~; E [ u for the sequence a terminal with the Kitty protocol    *)
(* sends for the letter a.  Sequences that end as DCS does, and mouse      *)
(* sequences, are left out.  Bytes are counted from 1.                     *)
(***************************************************************************)
EXTENDS Naturals, Sequences, FiniteSets, SequencesExt

CONSTANTS MaxInput      \* bound on the keys

E == "E"
\* A key: the bytes the terminal sends, and the events that should come of them.
Key(bytes, events) == [bytes |-> bytes, events |-> events]
Plain(bytes) == Key(bytes, <<bytes>>)
Paste(text) == Key(<<E, "[", "S">> \o text \o <<E, "[", "Z">>, <<<<"paste">> \o text>>)
Escape == Plain(<<E>>)
\* What WezTerm sends for escape: the key as a byte, its release as a sequence.
EscapeWithRelease == Key(<<E, E, "[", "1", "u">>, <<<<E>>, <<E, "[", "1", "u">>>>)
Common == {Plain(<<E, "[", "1", "A">>), Plain(<<E, "P", "a", E, "\\">>), Paste(<<"a", E>>)}
Legacy == Common \cup {Plain(<<"a">>), Plain(<<E, "a">>), Plain(<<E, "O", "A">>), Escape}
\* A terminal may send a letter as a sequence only, or as a byte as well.
Kitty == Common \cup {Plain(<<E, "[", "u">>), Key(<<E, "[", "u", "a">>, <<<<E, "[", "u">>>>), EscapeWithRelease}

VARIABLES input,      \* the keys
          sent,       \* the number of their bytes that were read
          rest,       \* what process is called with next: what followed a paste
          buffer, pasteMode, pasteBuffer, pendingKittyPrintable,
          events,     \* what was emitted
          late,       \* the timer has fired while the rest of a sequence was on its way
          split       \* a read ended with two escapes, and more was on its way

stdinVars == <<input, sent, rest, buffer, pasteMode, pasteBuffer, pendingKittyPrintable, events, late, split>>

StdinInit ==
  /\ input \in UNION {[1 .. n -> Legacy] \cup [1 .. n -> Kitty] : n \in 1 .. MaxInput}
  /\ sent = 0 /\ rest = <<>> /\ buffer = <<>> /\ pasteMode = FALSE /\ pasteBuffer = <<>>
  /\ pendingKittyPrintable = FALSE /\ events = <<>> /\ late = FALSE /\ split = FALSE

Bytes == FoldLeft(LAMBDA all, key : all \o key.bytes, <<>>, input)

---------------------------------------------------------------------------
\* isCompleteSequence, of what begins with an escape.
Complete(s) ==
  /\ Len(s) >= 2
  /\ CASE s[2] = "[" -> Len(s) >= 3 /\ s[Len(s)] \notin {E, "1"}
       [] s[2] = "P" -> Len(s) >= 4 /\ s[Len(s) - 1] = E /\ s[Len(s)] = "\\"
       [] s[2] = "O" -> Len(s) >= 3
       [] OTHER -> TRUE

\* Mutation: two escapes are always a key with Alt.
EscapeNever(s, next) == FALSE

\* An escape that is followed by a sequence is a key of its own.
EscapeBefore(s, next) == s = <<E, E>> /\ next # <<>> /\ Head(next) \in {"[", "O", "P"}

\* extractCompleteSequences: the sequences from each position on, and what is left for more bytes.
Extract(bytes) ==
  LET Part(i, j) == SubSeq(bytes, i, j)
      from[i \in 1 .. Len(bytes) + 1] ==
        LET ends == {j \in i .. Len(bytes) : bytes[i] # E \/ Complete(Part(i, j))}
            first == CHOOSE j \in ends : \A k \in ends : j <= k
            end == IF EscapeBefore(Part(i, first), Part(first + 1, Len(bytes))) THEN i ELSE first
        IN IF i > Len(bytes) THEN [sequences |-> <<>>, remainder |-> <<>>]
           ELSE IF ends = {} THEN [sequences |-> <<>>, remainder |-> Part(i, Len(bytes))]
           ELSE [from[end + 1] EXCEPT !.sequences = <<Part(i, end)>> \o @]
  IN from[1]

\* Mutation: the letter's byte is emitted, too.
RepeatsNever(s, pending) == FALSE

\* The byte that repeats a letter's sequence.
Repeats(s, pending) == pending /\ s = <<"a">>

\* emitDataSequence, of each.
Emit(sequences) ==
  LET One(state, s) ==
        IF Repeats(s, state.pending) THEN [state EXCEPT !.pending = FALSE]
        ELSE [events |-> Append(state.events, s), pending |-> s = <<E, "[", "u">>]
  IN FoldLeft(One, [events |-> events, pending |-> pendingKittyPrintable], sequences)

\* Where a mark begins, or 0.
IndexOf(bytes, mark) ==
  LET at == {i \in 1 .. Len(bytes) - 2 : SubSeq(bytes, i, i + 2) = mark}
  IN IF at = {} THEN 0 ELSE CHOOSE i \in at : \A j \in at : i <= j
Behind(bytes, i) == SubSeq(bytes, i + 3, Len(bytes))

\* Mutation: the end of a paste is looked for in each chunk.
PastedInChunk(held, more) == IF IndexOf(more, <<E, "[", "Z">>) = 0 THEN held \o more ELSE more

\* What was pasted so far.
Pasted(held, more) == held \o more

\* Paste mode: everything up to the end mark is the paste.
InPaste(bytes, soFar) ==
  LET end == IndexOf(bytes, <<E, "[", "Z">>)
  IN /\ buffer' = <<>> /\ pendingKittyPrintable' = FALSE
     /\ pasteMode' = (end = 0)
     /\ pasteBuffer' = IF end = 0 THEN bytes ELSE <<>>
     /\ events' = IF end = 0 THEN soFar ELSE Append(soFar, <<"paste">> \o SubSeq(bytes, 1, end - 1))
     /\ rest' = IF end = 0 THEN <<>> ELSE Behind(bytes, end)

\* process.  A sequence that a paste cuts off is dropped.
Process(bytes) ==
  LET all == buffer \o bytes
      start == IndexOf(all, <<E, "[", "S">>)
      result == Extract(IF start = 0 THEN all ELSE SubSeq(all, 1, start - 1))
      emitted == Emit(result.sequences)
  IN \/ pasteMode /\ InPaste(Pasted(pasteBuffer, bytes), events)
     \/ ~pasteMode /\ start # 0 /\ InPaste(Behind(all, start), emitted.events)
     \/ /\ ~pasteMode /\ start = 0
        /\ buffer' = result.remainder /\ events' = emitted.events /\ pendingKittyPrintable' = emitted.pending
        /\ rest' = <<>> /\ UNCHANGED <<pasteMode, pasteBuffer>>

\* A read gets some of the bytes.
Read ==
  /\ rest = <<>>
  /\ \E n \in sent + 1 .. Len(Bytes) : sent' = n /\ Process(SubSeq(Bytes, sent + 1, n))
  /\ split' = (split \/ (sent' \in 2 .. Len(Bytes) - 1 /\ SubSeq(Bytes, sent' - 1, sent') = <<E, E>>))
  /\ UNCHANGED <<input, late>>
\* Behind a paste process is called again, in the same read.
ReadOn == rest # <<>> /\ Process(rest) /\ UNCHANGED <<input, sent, late, split>>

\* The timer: what there is of a sequence is taken for a key.
Timeout ==
  /\ rest = <<>> /\ ~pasteMode /\ buffer # <<>>
  /\ buffer' = <<>> /\ events' = Append(events, buffer) /\ pendingKittyPrintable' = FALSE
  /\ late' = (late \/ sent # Len(Bytes))
  /\ UNCHANGED <<input, sent, rest, pasteMode, pasteBuffer, split>>

StdinNext == Read \/ ReadOn \/ Timeout

---------------------------------------------------------------------------
\* Type invariant.
StdinTypeOK ==
  /\ sent \in 0 .. Len(Bytes) /\ {pasteMode, pendingKittyPrintable, late, split} \subseteq BOOLEAN
  /\ Range(buffer) \cup Range(pasteBuffer) \cup Range(rest) \subseteq {E, "[", "O", "P", "\\", "1", "A", "u", "a", "S", "Z"}

Done == sent = Len(Bytes) /\ rest = <<>> /\ buffer = <<>>
Expected == FoldLeft(LAMBDA all, key : all \o key.events, <<>>, input)

\* "stdin data events can arrive in partial chunks" (stdin-buffer.ts:4): the events are the keys that were pressed and
\* the texts that were pasted, wherever the input was cut; unless a sequence took longer than the timeout, a read ended
\* between two escapes and what makes the second one a sequence, or the key before it was an escape without a release.
KeysAreKept == Done /\ ~late /\ ~split /\ Escape \notin Range(input) => events = Expected

\* With such keys nothing but an escape is lost, added or moved.
BytesOf(all) == SelectSeq(FlattenSeq(all), LAMBDA b : b \notin {E, "paste"})
BytesAreKept == Done /\ ~late /\ ~split => BytesOf(events) = BytesOf(Expected)
=============================================================================
