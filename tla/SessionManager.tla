--------------------------- MODULE SessionManager ---------------------------
(***************************************************************************)
(* SessionManager (core/session-manager.ts): a conversation as an          *)
(* append-only tree of entries with a leaf pointer, kept in memory and in  *)
(* a JSONL file that is written from the first assistant message on.       *)
(*                                                                         *)
(* Every method is synchronous, so it is one step here; but it writes the  *)
(* file line by line, and the process may die, or a write may throw,       *)
(* between two lines or inside one.  Ids are numbers given out in order    *)
(* (generateId promises only that they are new); 0 is null.                *)
(***************************************************************************)
EXTENDS Naturals, Sequences, FiniteSets, SequencesExt, FiniteSetsExt, SequenceFilter

CONSTANTS
    Files,      \* names of session files
    NoFile,     \* no process, no session
    Scenarios   \* the bounds and the faults to choose from, see below

MessageKinds == {"user", "assistant", "branch_summary"}
CompactionKinds == {"compaction", "compaction_after"}
LabelKinds == {"label", "unlabel"}
AllKinds == MessageKinds \cup CompactionKinds \cup LabelKinds \cup {"info"}

(***************************************************************************)
(* A scenario bounds a behaviour: the kinds of entry that are appended,    *)
(* the number of entries and of files ever made, and what may go wrong in  *)
(* a write besides the death of the process: "throws", and "torn" for a    *)
(* partial line.                                                           *)
(***************************************************************************)
ASSUME FilesAssumption == NoFile \notin Files /\ Files # {}
ASSUME ScenariosAssumption ==
    \A s \in Scenarios :
        /\ s.kinds \subseteq AllKinds
        /\ s.maxId \in Nat /\ s.files \in Nat
        /\ s.faults \subseteq {"throws", "torn"}

\* ref: the target of a label, the first kept entry of a compaction (0 for
\* one that carries replacement messages, or whose first kept entry is gone).
EntryType == [id : Nat, kind : AllKinds \cup {"session", "garbled"},
              parent : Nat, ref : Nat]
Header == [id |-> 0, kind |-> "session", parent |-> 0, ref |-> 0]
Garbled == [id |-> 0, kind |-> "garbled", parent |-> 0, ref |-> 0]

VARIABLES
    scenario,   \* the scenario of this behaviour, chosen at the start
    mem,        \* the SessionManager object: sessionFile, fileEntries, leafId,
                \* labelsById (the set of labelled ids) and flushed
    disk,       \* the session files that exist, as sequences of lines
    ragged,     \* the files whose last line has no newline
    nextId      \* the next id generateId returns

vars == <<scenario, mem, disk, ragged, nextId>>

Kinds == scenario.kinds
Faults == scenario.faults
MaxId == scenario.maxId

Up == mem.file # NoFile
Down == [file |-> NoFile, entries |-> <<>>, leaf |-> 0, labels |-> {},
         flushed |-> FALSE]

(***************************************************************************)
(* The tree.                                                               *)
(***************************************************************************)

IsEntry(e) == e.kind \in AllKinds
EntriesOf(es) == {e \in ToSet(es) : IsEntry(e)}
Ids(es) == {e.id : e \in EntriesOf(es)}
ById(own, i) == CHOOSE e \in own : e.id = i

\* Mutation: no entries, no leaf (undefined instead of null).
LastIdOrUndefined(es) ==
    LET own == Filtered(es, EntriesOf(es))
    IN  IF own = <<>> THEN NoFile ELSE Last(own).id

\* Of _buildIndex: the last entry is the leaf.
LastId(es) ==
    LET own == Filtered(es, EntriesOf(es))
    IN  IF own = <<>> THEN 0 ELSE Last(own).id

Relabel(labels, e) ==
    CASE e.kind = "label"   -> labels \cup {e.ref}
      [] e.kind = "unlabel" -> labels \ {e.ref}
      [] OTHER              -> labels

\* A label of the file counts unless a later entry clears it.
LabelsOf(es) ==
    {es[i].ref : i \in {n \in DOMAIN es :
        /\ es[n].kind = "label"
        /\ \A m \in n + 1 .. Len(es) :
              es[m].kind = "unlabel" => es[m].ref # es[n].ref}}

\* getBranch: from entry l up the parent links, for as long as they lead to
\* an entry of own; in the order from the root.
PathIn(own, l) ==
    LET up[i \in 0..MaxId] ==
            IF \E e \in own : e.id = i
            THEN Append(up[ById(own, i).parent], ById(own, i))
            ELSE <<>>
    IN  up[l]
Path(es, l) == PathIn(EntriesOf(es), l)

PathIds(es, l) == {e.id : e \in ToSet(Path(es, l))}

HasAssistant(es) == \E e \in ToSet(es) : e.kind = "assistant"

\* buildSessionContext: the messages on the path, those before the latest
\* compaction replaced by its summary except from its first kept entry on.
MessagesOf(path) ==
    LET own == Filtered(path, {e \in ToSet(path) : e.kind \in MessageKinds})
    IN  [i \in DOMAIN own |-> own[i].id]

\* Mutation: the entry right after the compaction is skipped.
ContextSkipping(path) ==
    LET compactions == {i \in DOMAIN path : path[i].kind \in CompactionKinds}
    IN  IF compactions = {}
        THEN MessagesOf(path)
        ELSE LET c == Max(compactions)
             IN  <<path[c].id>> \o MessagesOf(SubSeq(path, c + 2, Len(path)))

\* Mutation: the first compaction of the path counts, not the latest.
ContextFirst(path) ==
    LET compactions == {i \in DOMAIN path : path[i].kind \in CompactionKinds}
    IN  IF compactions = {}
        THEN MessagesOf(path)
        ELSE LET c == Min(compactions)
             IN  <<path[c].id>> \o MessagesOf(SubSeq(path, c + 1, Len(path)))

ContextOf(path) ==
    LET compactions == {i \in DOMAIN path : path[i].kind \in CompactionKinds}
    IN  IF compactions = {}
        THEN MessagesOf(path)
        ELSE LET c == Max(compactions)
                 first == {i \in 1..c : path[i].id = path[c].ref}
                 kept == IF first = {} THEN <<>>
                         ELSE MessagesOf(SubSeq(path, Min(first), c - 1))
                 summary == <<path[c].id>>
             IN  (IF path[c].kind = "compaction" THEN summary \o kept
                                                 ELSE kept \o summary)
                 \o MessagesOf(SubSeq(path, c + 1, Len(path)))

Context(es, l) == ContextOf(Path(es, l))

(***************************************************************************)
(* The file.                                                               *)
(***************************************************************************)

\* loadEntriesFromFile: malformed lines are skipped; without a header first
\* the file counts as empty.
Load(lines) ==
    LET es == Filtered(lines, ToSet(lines) \ {Garbled})
    IN  IF es # <<>> /\ Head(es) = Header THEN es ELSE <<>>

Exists(f) == f \in DOMAIN disk
Lines(f) == IF Exists(f) THEN disk[f] ELSE <<>>
SetFile(f, lines) ==
    [g \in DOMAIN disk \cup {f} |-> IF g = f THEN lines ELSE disk[g]]

\* A new name: no file and no session of this process has it.
NamesInUse == DOMAIN disk \cup ({mem.file} \ {NoFile})
Fresh(f) == f \in Files \ NamesInUse /\ Cardinality(NamesInUse) < scenario.files

\* What is left in the line under way when a write stops early: nothing, a
\* part of it, or all of it but the newline.
Remains == IF "torn" \in Faults THEN {"none", "part", "unended"} ELSE {"none"}

Written(new, k, rest) ==
    SubSeq(new, 1, k) \o
    CASE rest = "none"    -> <<>>
      [] rest = "part"    -> <<Garbled>>
      [] rest = "unended" -> <<new[k + 1]>>

\* Mutation: writeFileSync where appendFileSync belongs.
OverwriteLines(f, new) == new

\* appendFileSync to a file whose last line was not ended spoils that line
\* and its own first one.
AppendLines(f, new) ==
    IF f \in ragged /\ new # <<>>
    THEN Front(disk[f]) \o <<Garbled>> \o Tail(new)
    ELSE Lines(f) \o new

(***************************************************************************)
(* A method that leaves the object as "done" and writes the lines "new",   *)
(* after those of the file or in their place.  If a write throws after k   *)
(* lines the object is left as "thrown"; or the process dies there.        *)
(***************************************************************************)
Perform(done, thrown, new, truncate) ==
    \E k \in 0..Len(new), rest \in Remains :
        /\ k = Len(new) => rest = "none"
        /\ \/ k = Len(new) /\ mem' = done
           \/ k < Len(new) /\ "throws" \in Faults /\ mem' = thrown
           \/ k < Len(new) /\ mem' = Down
        /\ LET f == done.file
               written == Written(new, k, rest)
           IN  IF new = <<>> \/ (written = <<>> /\ ~truncate)
               THEN UNCHANGED <<disk, ragged>>
               ELSE /\ disk' = SetFile(f, IF truncate THEN written
                                                      ELSE AppendLines(f, written))
                    /\ ragged' = IF rest = "none" THEN ragged \ {f}
                                                  ELSE ragged \cup {f}

(***************************************************************************)
(* Appending.                                                              *)
(***************************************************************************)

\* Mutation: the leaf is advanced before the entry takes it for its parent.
EntryOfItself(kind, parent, ref) ==
    [id |-> nextId, kind |-> kind, parent |-> nextId, ref |-> ref]

Entry(kind, parent, ref) ==
    [id |-> nextId, kind |-> kind, parent |-> parent, ref |-> ref]

\* Mutation: the entries held back until the first assistant are forgotten.
LinesOnlyNew(es, e) == IF ~HasAssistant(es) THEN <<>> ELSE <<e>>

\* _persist: nothing before the first assistant message, everything with it,
\* then entry by entry.
LinesToPersist(es, e) ==
    IF ~HasAssistant(es) THEN <<>> ELSE IF mem.flushed THEN <<e>> ELSE es

\* Mutation: flushed is not reset while there is no assistant message.
AppendEntryKeepsFlushed(e) ==
    LET es == Append(mem.entries, e)
        thrown == [mem EXCEPT !.entries = es, !.leaf = e.id]
        done == [thrown EXCEPT !.labels = Relabel(@, e),
                               !.flushed = @ \/ HasAssistant(es)]
    IN  /\ nextId <= MaxId
        /\ nextId' = nextId + 1 /\ UNCHANGED scenario
        /\ Perform(done, thrown, LinesToPersist(es, e), FALSE)

\* Mutation: the entry is indexed only after it has been written.
AppendEntryWritesFirst(e) ==
    LET es == Append(mem.entries, e)
        thrown == [mem EXCEPT !.leaf = e.id]
        done == [thrown EXCEPT !.entries = es, !.flushed = HasAssistant(es)]
    IN  /\ nextId <= MaxId
        /\ nextId' = nextId + 1 /\ UNCHANGED scenario
        /\ Perform(done, thrown, LinesToPersist(es, e), FALSE)

\* _appendEntry, and the label index of appendLabelChange, which a throwing
\* write skips.
AppendEntry(e) ==
    LET es == Append(mem.entries, e)
        thrown == [mem EXCEPT !.entries = es, !.leaf = e.id]
        done == [thrown EXCEPT !.labels = Relabel(@, e),
                               !.flushed = HasAssistant(es)]
    IN  /\ nextId <= MaxId
        /\ nextId' = nextId + 1 /\ UNCHANGED scenario
        /\ Perform(done, thrown, LinesToPersist(es, e), FALSE)

\* appendMessage, appendThinkingLevelChange, appendModelChange,
\* appendCustomEntry, appendCustomMessageEntry, appendSessionInfo.
AppendPlain(kind) ==
    /\ Up
    /\ kind \in Kinds \cap {"user", "assistant", "info"}
    /\ AppendEntry(Entry(kind, mem.leaf, 0))

AppendLabelChange(kind, target) ==
    /\ Up
    /\ kind \in Kinds \cap LabelKinds
    /\ target \in Ids(mem.entries)
    /\ AppendEntry(Entry(kind, mem.leaf, target))

\* The callers keep a suffix of the branch, or give replacement messages.
AppendCompaction(kind, firstKept) ==
    /\ Up
    /\ kind \in Kinds \cap CompactionKinds
    /\ firstKept \in {0} \cup PathIds(mem.entries, mem.leaf)
    /\ AppendEntry(Entry(kind, mem.leaf, firstKept))

BranchWithSummary(from) ==
    /\ Up
    /\ "branch_summary" \in Kinds
    /\ from \in {0} \cup Ids(mem.entries)
    /\ AppendEntry(Entry("branch_summary", from, 0))

\* branch and resetLeaf.
Branch(from) ==
    /\ Up
    /\ from \in {0} \cup Ids(mem.entries)
    /\ mem' = [mem EXCEPT !.leaf = from]
    /\ UNCHANGED <<scenario, disk, ragged, nextId>>

(***************************************************************************)
(* Sessions and files.                                                     *)
(***************************************************************************)

\* newSession, for a process that starts or has a session.
EmptySession(f) == [Down EXCEPT !.file = f, !.entries = <<Header>>]

NewSession(f) ==
    /\ Fresh(f)
    /\ mem' = EmptySession(f)
    /\ UNCHANGED <<scenario, disk, ragged, nextId>>

\* setSessionFile on file f with these entries.
Loaded(f, es) ==
    [file |-> f, entries |-> es, leaf |-> LastId(es), labels |-> LabelsOf(es),
     flushed |-> TRUE]

SetSessionFile(f) ==
    /\ f \in NamesInUse \/ Fresh(f)
    /\ LET es == Load(Lines(f))
           empty == EmptySession(f)
       IN  CASE ~Exists(f) -> /\ mem' = empty
                              /\ UNCHANGED <<disk, ragged>>
             [] Exists(f) /\ es = <<>> ->
                  Perform([empty EXCEPT !.flushed = TRUE], empty, <<Header>>, TRUE)
             [] OTHER -> mem' = Loaded(f, es) /\ UNCHANGED <<disk, ragged>>
    /\ UNCHANGED <<scenario, nextId>>

\* Mutation: only the messages of the path are taken over.
PathOfMessages(l) ==
    LET path == Path(mem.entries, l)
    IN  Filtered(path, {e \in ToSet(path) : e.kind \in {"user", "assistant"}})

\* Mutation: the entry asked for is itself left out.
PathBefore(l) == Front(Path(mem.entries, l))

\* createBranchedSession: the path without its labels, then a label for each
\* labelled entry of the path, in a new file.
PathWithoutLabels(l) ==
    LET path == Path(mem.entries, l)
    IN  Filtered(path, {e \in ToSet(path) : e.kind \notin LabelKinds})

\* Mutation: the last of the labels is forgotten.
LabelChainShort(targets, parent) ==
    [i \in 1..(Len(targets) - 1) |->
        [id |-> nextId + i - 1, kind |-> "label", ref |-> targets[i],
         parent |-> IF i = 1 THEN parent ELSE nextId + i - 2]]

LabelChain(targets, parent) ==
    [i \in DOMAIN targets |->
        [id |-> nextId + i - 1, kind |-> "label", ref |-> targets[i],
         parent |-> IF i = 1 THEN parent ELSE nextId + i - 2]]

LabelledOnPath(l) == mem.labels \cap {e.id : e \in ToSet(PathWithoutLabels(l))}

BranchedEntries(l) ==
    LET path == PathWithoutLabels(l)
        parent == IF path = <<>> THEN 0 ELSE Last(path).id
    IN  <<Header>> \o path \o LabelChain(SetToSeq(LabelledOnPath(l)), parent)

CreateBranchedSession(l, f) ==
    /\ Up
    /\ l \in Ids(mem.entries)
    /\ Fresh(f)
    /\ LET es == BranchedEntries(l)
           done == [Loaded(f, es) EXCEPT !.flushed = HasAssistant(es)]
           thrown == [done EXCEPT !.flushed = mem.flushed]
       IN  /\ \A e \in ToSet(es) : e.id <= MaxId
           /\ UNCHANGED scenario
           /\ nextId' = nextId + Cardinality(LabelledOnPath(l))
           /\ Perform(done, thrown, IF HasAssistant(es) THEN es ELSE <<>>, TRUE)

\* forkFrom: the entries of a source file under a new header, then opened.
ForkFrom(source, f) ==
    /\ source \in DOMAIN disk
    /\ Fresh(f)
    /\ Load(Lines(source)) # <<>>
    /\ LET own == Load(Lines(source))
           es == <<Header>> \o Filtered(own, EntriesOf(own))
       IN  Perform(Loaded(f, es), mem, es, FALSE)
    /\ UNCHANGED <<scenario, nextId>>

Exit ==
    /\ Up
    /\ mem' = Down
    /\ UNCHANGED <<scenario, disk, ragged, nextId>>

\* A file with nothing in it: touched by the user, or left by a crash.
Init ==
    /\ scenario \in Scenarios
    /\ mem = Down
    /\ disk \in {[f \in {} |-> <<>>], [f \in {CHOOSE f \in Files : TRUE} |-> <<>>]}
    /\ ragged = {}
    /\ nextId = 1

Next ==
    \/ \E kind \in Kinds : AppendPlain(kind)
    \/ \E kind \in Kinds, i \in Ids(mem.entries) : AppendLabelChange(kind, i)
    \/ \E kind \in Kinds, i \in 0..MaxId : AppendCompaction(kind, i)
    \/ \E i \in 0..MaxId : BranchWithSummary(i) \/ Branch(i)
    \/ \E f \in Files : NewSession(f) \/ SetSessionFile(f)
    \/ \E l \in 0..MaxId, f \in Files : CreateBranchedSession(l, f)
    \/ \E f, g \in Files : ForkFrom(f, g)
    \/ Exit

Spec == Init /\ [][Next]_vars

-----------------------------------------------------------------------------
(***************************************************************************)
(* Properties.                                                             *)
(***************************************************************************)

MemType == [file : Files \cup {NoFile}, entries : Seq(EntryType), leaf : Nat,
            labels : SUBSET Nat, flushed : BOOLEAN]

TypeOK ==
    /\ scenario \in Scenarios
    /\ mem \in MemType
    /\ DOMAIN disk \subseteq Files
    /\ \A f \in DOMAIN disk : disk[f] \in Seq(EntryType)
    /\ ragged \subseteq DOMAIN disk
    /\ nextId \in Nat

\* The leaf is null or an entry (getLeafEntry and the parent of the next
\* entry depend on it).
LeafKnown == mem.leaf \in {0} \cup Ids(mem.entries)

\* Parent links go back in time, in memory and on disk, so that the walks of
\* getBranch and buildSessionContext end whatever was lost or doubled.
Acyclic ==
    /\ \A e \in EntriesOf(mem.entries) : e.parent < e.id
    /\ \A f \in DOMAIN disk : \A e \in EntriesOf(disk[f]) : e.parent < e.id

\* A write that throws or is torn breaks the promises that follow; a label
\* breaks the chain of a branched session, see BranchKeepsContext.
SoundWrites == Faults = {}
SoundLinks == SoundWrites /\ Kinds \cap LabelKinds = {}

\* Each entry points to its parent (docs/session-format.md): following the
\* links of a session leads to a first entry, never into nothing.
ParentsInMemory ==
    SoundLinks =>
        \A e \in EntriesOf(mem.entries) : e.parent \in {0} \cup Ids(mem.entries)

\* The same of every file, whatever session it holds and wherever the process
\* has died.
ParentsOnDisk ==
    SoundLinks =>
        \A f \in DOMAIN disk : \A e \in EntriesOf(Load(disk[f])) :
            e.parent \in {0} \cup Ids(Load(disk[f]))

\* The entries are a forest: the leaf is one of them or null, links go back in
\* time and never into nothing, in memory and in every file, whatever was lost,
\* doubled or torn, and wherever the process has died.
TreeIsSound == LeafKnown /\ Acyclic /\ ParentsInMemory /\ ParentsOnDisk

\* A file has one header and no two entries with one id, as the test "does
\* not duplicate entries when forking" demands.
NoDuplicates ==
    \A f \in DOMAIN disk : \A i, j \in DOMAIN disk[f] :
        i # j /\ disk[f][i] = disk[f][j] => disk[f][i] = Garbled

\* From the first assistant message on, another process that opens the file
\* finds this session: the same entries, labels and contexts.
ReopenIsSame ==
    SoundWrites /\ Up /\ HasAssistant(mem.entries) =>
        LET es == Load(Lines(mem.file))
        IN  /\ EntriesOf(es) = EntriesOf(mem.entries)
            /\ LabelsOf(es) = mem.labels
            /\ LastId(es) = LastId(mem.entries)
            /\ \A i \in Ids(es) : Context(es, i) = Context(mem.entries, i)

\* No step makes an entry unreadable that could be loaded before it.
NothingLost ==
    [][SoundWrites => \A f \in DOMAIN disk :
          f \in DOMAIN disk' /\ ToSet(Load(disk[f])) \subseteq ToSet(Load(disk'[f]))]_vars

\* The steps that append to the session of this process, and the new entry.
NewEntry == IF mem'.entries = <<>> THEN Header ELSE Last(mem'.entries)
Appended ==
    /\ Up /\ mem'.file = mem.file /\ nextId' # nextId
    /\ mem'.entries = Append(mem.entries, NewEntry)

\* An entry adds its own message, if it has one, to the context of its
\* parent; it never changes what came before.
AppendKeepsContext ==
    [][LET e == NewEntry
       IN  Appended /\ e.kind \notin CompactionKinds
           => Context(mem'.entries, mem'.leaf) =
                  Context(mem.entries, e.parent)
                  \o (IF e.kind \in MessageKinds THEN <<e.id>> ELSE <<>>)]_vars

\* A compaction that keeps a message of the context keeps all that follow
\* it, in order, and nothing else but its own summary.
CompactionKeepsTail ==
    [][LET e == NewEntry
           old == Context(mem.entries, e.parent)
           own == EntriesOf(mem.entries)
           messages == {i \in Ids(mem.entries) : ById(own, i).kind \in MessageKinds}
       IN  Appended /\ e.kind \in CompactionKinds /\ e.ref \in ToSet(old) \cap messages
           => LET from == CHOOSE i \in DOMAIN old : old[i] = e.ref
                  new == Context(mem'.entries, mem'.leaf)
                  kept == Filtered(new, ToSet(new) \ {e.id})
              IN  /\ kept = Filtered(SubSeq(old, from, Len(old)), messages)
                  /\ Len(kept) + 1 = Len(new)]_vars

Branched(l) == \E f \in Files : CreateBranchedSession(l, f) /\ mem'.file = f

\* A session extracted with createBranchedSession gives the model the context
\* that the old one gave at that entry.
BranchKeepsContext ==
    [][\A l \in Ids(mem.entries) :
          Branched(l) => Context(mem'.entries, mem'.leaf) = Context(mem.entries, l)]_vars

\* The same for a path on which no label has been set.
UnlabelledBranchKeepsContext ==
    [][\A l \in Ids(mem.entries) :
          Branched(l) /\ (\A e \in ToSet(Path(mem.entries, l)) : e.kind \notin LabelKinds) =>
              Context(mem'.entries, mem'.leaf) = Context(mem.entries, l)]_vars

\* It has the labels of the entries it has taken over, and no others.
BranchKeepsLabels ==
    [][\A l \in Ids(mem.entries) :
          Branched(l) => mem'.labels = LabelledOnPath(l)]_vars

\* createBranchedSession copies what it promises: the whole path, as long as no
\* label was set on it, and the labels of what it copies.
BranchIsWhole == UnlabelledBranchKeepsContext /\ BranchKeepsLabels

=============================================================================
