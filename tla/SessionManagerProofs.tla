------------------------ MODULE SessionManagerProofs ------------------------
(***************************************************************************)
(* For any number of entries, crashes and processes: the variables of      *)
(* SessionManager keep their types, the links of the entries form a tree   *)
(* in memory and on disk, a step never takes an entry from a file, and a   *)
(* session that is opened again is the one that was left.  Then what       *)
(* entries do to the context, whatever writes do: an entry adds its own    *)
(* message to the context of its parent and changes nothing before it; a   *)
(* branch without labels that is extracted gives the same context and      *)
(* keeps its labels; a compaction keeps what it says it keeps.             *)
(***************************************************************************)
EXTENDS SessionManager, SequenceLemmas, FiniteSetTheorems

LEMMA HeaderType ==
    /\ Header \in EntryType /\ ~IsEntry(Header)
    /\ Garbled \in EntryType /\ ~IsEntry(Garbled)
    /\ Header # Garbled
  BY DEF Header, Garbled, EntryType, IsEntry, AllKinds, MessageKinds,
         CompactionKinds, LabelKinds

\* The entries of sequences that are put together.
LEMMA EntriesOfAppend ==
    ASSUME NEW s \in Seq(EntryType), NEW e \in EntryType
    PROVE  EntriesOf(Append(s, e)) = EntriesOf(s) \cup {x \in {e} : IsEntry(x)}
<1>1. ToSet(Append(s, e)) = ToSet(s) \cup {e}
  BY AppendElements
<1> QED
  BY <1>1 DEF EntriesOf

LEMMA EntriesOfConcat ==
    ASSUME NEW s \in Seq(EntryType), NEW t \in Seq(EntryType)
    PROVE  EntriesOf(s \o t) = EntriesOf(s) \cup EntriesOf(t)
<1>1. ToSet(s \o t) = ToSet(s) \cup ToSet(t)
  BY ConcatElements
<1> QED
  BY <1>1 DEF EntriesOf

LEMMA EntriesOfType ==
    ASSUME NEW s \in Seq(EntryType)
    PROVE  EntriesOf(s) \subseteq EntryType /\ ToSet(s) \subseteq EntryType
  BY DEF EntriesOf, ToSet

\* What is loaded are lines of the file that are not malformed.
LEMMA LoadedLines ==
    ASSUME NEW lines \in Seq(EntryType)
    PROVE  /\ Load(lines) \in Seq(EntryType)
           /\ ToSet(Load(lines)) \subseteq ToSet(lines) \ {Garbled}
<1> DEFINE kept == Filtered(lines, ToSet(lines) \ {Garbled})
<1>1. /\ kept \in Seq(EntryType \cap (ToSet(lines) \ {Garbled}))
      /\ ToSet(kept) = ToSet(lines) \cap (ToSet(lines) \ {Garbled})
  BY FilteredElements
<1>2. Load(lines) = IF kept # <<>> /\ Head(kept) = Header THEN kept ELSE <<>>
  BY DEF Load
<1> HIDE DEF kept
<1>3. kept \in Seq(EntryType)
  BY <1>1
<1>4. ToSet(<<>>) = {} /\ <<>> \in Seq(EntryType)
  BY DEF ToSet
<1> QED
  BY <1>1, <1>2, <1>3, <1>4

LEMMA LastIdIsOneOfThem ==
    ASSUME NEW es \in Seq(EntryType)
    PROVE  LastId(es) \in {0} \cup Ids(es)
<1> DEFINE own == Filtered(es, EntriesOf(es))
<1>1. own \in Seq(EntryType \cap EntriesOf(es))
  BY FilteredElements
<1>2. LastId(es) = IF own = <<>> THEN 0 ELSE Last(own).id
  BY DEF LastId
<1> HIDE DEF own
<1>3. CASE own # <<>>
  <2>1. Last(own) \in EntryType \cap EntriesOf(es)
    BY <1>1, <1>3, FrontThenLast
  <2> QED
    BY <1>2, <1>3, <2>1 DEF Ids
<1> QED
  BY <1>2, <1>3

LEMMA LabelsOfType ==
    ASSUME NEW es \in Seq(EntryType)
    PROVE  LabelsOf(es) \subseteq Nat
<1>1. \A i \in DOMAIN es : es[i] \in EntryType
  OBVIOUS
<1>2. \A e \in EntryType : e.ref \in Nat
  BY DEF EntryType
<1> QED
  BY <1>1, <1>2 DEF LabelsOf

-----------------------------------------------------------------------------
(***************************************************************************)
(* The walk up the tree.                                                   *)
(***************************************************************************)

\* Entries with ids below n, none above max, whose links go back in time.
Given(own, n, max) ==
    \A e \in own : e.id \in 1 .. max /\ e.id < n /\ e.parent < e.id

\* getBranch goes one step up and then on from there.
LEMMA PathStep ==
    ASSUME NEW own, own \subseteq EntryType, NEW n \in Nat, MaxId \in Nat,
           Given(own, n, MaxId)
    PROVE  \A l \in 0 .. MaxId :
              /\ PathIn(own, l) \in Seq(own)
              /\ (\E e \in own : e.id = l) =>
                    /\ ById(own, l) \in own /\ ById(own, l).id = l
                    /\ ById(own, l).parent \in 0 .. MaxId /\ ById(own, l).parent < l
                    /\ PathIn(own, l) =
                          Append(PathIn(own, ById(own, l).parent), ById(own, l))
              /\ (~ \E e \in own : e.id = l) => PathIn(own, l) = <<>>
<1> DEFINE N == MaxId
           V == Seq(own)
           Known(i) == \E e \in own : e.id = i
           E(i) == ById(own, i)
           h == [i \in 1 .. N |->
                    [v \in V |-> IF Known(i) THEN Append(v, E(i)) ELSE <<>>]]
           prev == [i \in 1 .. N |-> IF Known(i) THEN E(i).parent ELSE 0]
           Body(g) == [i \in 0 .. N |->
                          IF Known(i) THEN Append(g[E(i).parent], E(i)) ELSE <<>>]
<1>1. ASSUME NEW i, Known(i)
      PROVE  /\ E(i) \in own /\ E(i).id = i /\ i \in 1 .. N
             /\ E(i).parent \in 0 .. N /\ E(i).parent < i /\ E(i).parent \in Nat
  <2>1. E(i) \in own /\ E(i).id = i
    BY <1>1 DEF ById
  <2>2. E(i) \in EntryType /\ E(i).id \in 1 .. N /\ E(i).parent < E(i).id
    BY <2>1 DEF Given
  <2> QED
    BY <2>1, <2>2 DEF EntryType
<1>2. ~ Known(0)
  BY <1>1
<1> HIDE DEF E, Known
<1> DEFINE b == <<>>
<1>3. b \in V
  OBVIOUS
<1>4. ASSUME NEW i \in 1 .. N, NEW v \in V
      PROVE  (IF Known(i) THEN Append(v, E(i)) ELSE <<>>) \in V
  BY <1>1, AppendElements
<1>5. IsStep(h, N, V)
  <2> HIDE DEF V
  <2> QED
    BY <1>4 DEF IsStep
<1>6. Descends(prev, N)
  BY <1>1 DEF Descends
<1>7. \A i \in 1 .. N, v \in V : h[i][v] = IF Known(i) THEN Append(v, E(i)) ELSE <<>>
  <2> HIDE DEF V
  <2> QED
    OBVIOUS
<1>8. \A i \in 1 .. N : prev[i] = IF Known(i) THEN E(i).parent ELSE 0
  OBVIOUS
<1> HIDE DEF h, prev, b
<1>9. PICK g : IsRecursion(g, N, V, b, h, prev)
  <2> HIDE DEF N, V
  <2> QED
    BY <1>3, <1>5, <1>6, RecursionExists DEF N
<1> HIDE DEF V
<1>10. /\ g \in [0 .. N -> V] /\ g[0] = <<>>
       /\ \A i \in 1 .. N : g[i] = h[i][g[prev[i]]]
  BY <1>9 DEF IsRecursion, b
<1>11. g = Body(g)
  <2>1. ASSUME NEW i \in 0 .. N, Known(i)
        PROVE  g[i] = Append(g[E(i).parent], E(i))
    <3>1. i \in 1 .. N /\ E(i).parent \in 0 .. N
      BY <1>1, <2>1
    <3>2. g[E(i).parent] \in V
      BY <1>10, <3>1
    <3> QED
      BY <1>7, <1>8, <1>10, <2>1, <3>1, <3>2
  <2>2. ASSUME NEW i \in 0 .. N, ~ Known(i)
        PROVE  g[i] = <<>>
    <3>1. CASE i = 0
      BY <1>10, <3>1
    <3>2. CASE i # 0
      <4>1. i \in 1 .. N /\ 0 \in 0 .. N
        BY <3>2
      <4>2. g[0] \in V
        BY <1>10, <4>1
      <4> QED
        BY <1>7, <1>8, <1>10, <2>2, <4>1, <4>2
    <3> QED
      BY <3>1, <3>2
  <2>3. \A i \in 0 .. N : g[i] = Body(g)[i]
    BY <2>1, <2>2
  <2> QED
    BY <1>10, <2>3
<1>12. \E f : f = Body(f)
  BY <1>11
<1> DEFINE c == CHOOSE f : f = Body(f)
<1>13. c = Body(c)
  BY Zenon, <1>12
<1>14. \A l : PathIn(own, l) = c[l]
  BY Zenon DEF PathIn, Known, E
<1> HIDE DEF c
<1>15. \A i \in 0 .. N : c[i] = IF Known(i) THEN Append(c[E(i).parent], E(i)) ELSE <<>>
  BY <1>13
<1> DEFINE Typed == {i \in 0 .. N : c[i] \in V}
<1>16. ASSUME NEW i \in 0 .. N, \A k \in 0 .. i - 1 : k \in Typed
       PROVE  i \in Typed
  <2>1. CASE Known(i)
    <3>1. E(i).parent \in 0 .. i - 1 /\ i \in 1 .. N
      BY <1>1, <2>1
    <3>2. c[E(i).parent] \in V
      BY <3>1, <1>16
    <3>3. Append(c[E(i).parent], E(i)) \in V
      BY <1>4, <2>1, <3>1, <3>2
    <3> QED
      BY <1>15, <2>1, <3>3
  <2>2. CASE ~ Known(i)
    BY <1>3, <1>15, <2>2 DEF b
  <2> QED
    BY <2>1, <2>2
<1>17. \A i \in 0 .. N : i \in Typed
  <2> HIDE DEF Typed
  <2> QED
    BY <1>16, Upward
<1> SUFFICES ASSUME NEW l \in 0 .. MaxId
             PROVE  /\ PathIn(own, l) \in Seq(own)
                    /\ Known(l) =>
                          /\ E(l) \in own /\ E(l).id = l
                          /\ E(l).parent \in 0 .. MaxId /\ E(l).parent < l
                          /\ PathIn(own, l) = Append(PathIn(own, E(l).parent), E(l))
                    /\ ~ Known(l) => PathIn(own, l) = <<>>
  BY Zenon DEF Known, E
<1>18. PathIn(own, l) \in Seq(own)
  BY <1>14, <1>17 DEF V
<1>19. Known(l) => /\ E(l) \in own /\ E(l).id = l
                   /\ E(l).parent \in 0 .. MaxId /\ E(l).parent < l
                   /\ PathIn(own, l) = Append(PathIn(own, E(l).parent), E(l))
  BY <1>1, <1>14, <1>15
<1>20. ~ Known(l) => PathIn(own, l) = <<>>
  BY <1>14, <1>15
<1> QED
  BY <1>18, <1>19, <1>20

-----------------------------------------------------------------------------
(***************************************************************************)
(* What every method keeps, whatever goes wrong: the types, ids that are   *)
(* new, links that go back in time and a leaf that is known.               *)
(***************************************************************************)

GoodMem(m, n, max) ==
    /\ m \in MemType
    /\ Given(EntriesOf(m.entries), n, max)
    /\ m.leaf \in {0} \cup Ids(m.entries)

GoodDisk(d, r, n, max) ==
    /\ DOMAIN d \subseteq Files /\ r \subseteq DOMAIN d
    /\ \A f \in DOMAIN d :
          d[f] \in Seq(EntryType) /\ Given(EntriesOf(d[f]), n, max)

TreeInv ==
    /\ scenario \in Scenarios
    /\ nextId \in Nat \ {0}
    /\ GoodMem(mem, nextId, MaxId)
    /\ GoodDisk(disk, ragged, nextId, MaxId)

LEMMA MaxIdType == scenario \in Scenarios => MaxId \in Nat
  BY ScenariosAssumption DEF MaxId

LEMMA GivenLater ==
    ASSUME NEW own, own \subseteq EntryType, NEW n \in Nat, NEW k \in Nat, n <= k,
           NEW max \in Nat, Given(own, n, max)
    PROVE  Given(own, k, max)
<1> SUFFICES ASSUME NEW e \in own PROVE e.id < k
  BY DEF Given
<1>1. e.id < n /\ e.id \in 1 .. max
  BY DEF Given
<1> QED
  BY <1>1

LEMMA DownIsGood ==
    ASSUME NEW n, NEW max
    PROVE  GoodMem(Down, n, max)
<1>1. EntriesOf(<<>>) = {}
  BY DEF EntriesOf, ToSet
<1> QED
  BY <1>1 DEF GoodMem, Down, MemType, Given

\* What a write leaves of its lines.
LEMMA WrittenLines ==
    ASSUME NEW new \in Seq(EntryType), NEW k \in 0 .. Len(new), NEW rest \in Remains,
           k = Len(new) => rest = "none"
    PROVE  /\ Written(new, k, rest) \in Seq(EntryType)
           /\ ToSet(Written(new, k, rest)) \subseteq ToSet(new) \cup {Garbled}
           /\ rest = "none" => Written(new, k, rest) = SubSeq(new, 1, k)
<1> DEFINE begin == SubSeq(new, 1, k)
           end == CASE rest = "none"    -> <<>>
                    [] rest = "part"    -> <<Garbled>>
                    [] rest = "unended" -> <<new[k + 1]>>
<1>1. begin \in Seq(EntryType) /\ ToSet(begin) \subseteq ToSet(new)
  BY PrefixElements
<1>2. rest \in {"none", "part", "unended"}
  BY DEF Remains
<1>3. /\ end \in Seq(EntryType) /\ ToSet(end) \subseteq ToSet(new) \cup {Garbled}
      /\ rest = "none" => end = <<>>
  <2>1. CASE rest = "none"
    <3>1. end = <<>>
      BY <2>1
    <3>2. <<>> \in Seq(EntryType) /\ ToSet(<<>>) = {}
      BY DEF ToSet
    <3> HIDE DEF end
    <3> QED
      BY <3>1, <3>2
  <2>2. CASE rest = "part"
    <3>1. end = <<Garbled>>
      BY <2>2
    <3> QED
      BY <3>1, <2>2, HeaderType, FewElements
  <2>3. CASE rest = "unended"
    <3>1. k + 1 \in 1 .. Len(new) /\ DOMAIN new = 1 .. Len(new)
      BY <2>3
    <3>5. \A i \in 1 .. Len(new) : new[i] \in EntryType
      OBVIOUS
    <3>2. new[k + 1] \in EntryType
      BY <3>1, <3>5
    <3>4. new[k + 1] \in ToSet(new)
      BY <3>1 DEF ToSet
    <3>3. end = <<new[k + 1]>>
      BY <2>3
    <3> QED
      BY <3>2, <3>3, <3>4, <2>3, FewElements
  <2> QED
    BY <1>2, <2>1, <2>2, <2>3
<1>4. Written(new, k, rest) = begin \o end
  BY DEF Written
<1> HIDE DEF begin, end
<1>5. begin \o end \in Seq(EntryType) /\ ToSet(begin \o end) = ToSet(begin) \cup ToSet(end)
  BY <1>1, <1>3, ConcatElements
<1>6. rest = "none" => begin \o end = begin
  BY <1>1, <1>3, ConcatEmptySeq
<1> QED
  BY <1>1, <1>3, <1>4, <1>5, <1>6 DEF begin

LEMMA AppendedLines ==
    ASSUME NEW n, NEW max, GoodDisk(disk, ragged, n, max), NEW f,
           NEW new \in Seq(EntryType)
    PROVE  /\ Lines(f) \in Seq(EntryType)
           /\ AppendLines(f, new) \in Seq(EntryType)
           /\ ToSet(AppendLines(f, new)) \subseteq ToSet(Lines(f)) \cup ToSet(new) \cup {Garbled}
           /\ f \notin ragged => AppendLines(f, new) = Lines(f) \o new
<1>1. Lines(f) \in Seq(EntryType)
  BY DEF GoodDisk, Lines, Exists
<1>2. /\ Lines(f) \o new \in Seq(EntryType)
      /\ ToSet(Lines(f) \o new) = ToSet(Lines(f)) \cup ToSet(new)
  BY <1>1, ConcatElements
<1>3. CASE ~(f \in ragged /\ new # <<>>)
  BY <1>1, <1>2, <1>3 DEF AppendLines
<1>4. CASE f \in ragged /\ new # <<>>
  <2> DEFINE front == Front(disk[f])
             tail == Tail(new)
  <2>1. disk[f] = Lines(f)
    BY <1>4 DEF GoodDisk, Lines, Exists
  <2>2. front \in Seq(EntryType) /\ ToSet(front) \subseteq ToSet(Lines(f))
    <3>1. CASE disk[f] = <<>>
      <4>1. front = <<>>
        BY <3>1 DEF Front
      <4> QED
        BY <4>1 DEF ToSet
    <3>2. CASE disk[f] # <<>>
      BY <1>1, <2>1, <3>2, FrontThenLast
    <3> QED
      BY <3>1, <3>2
  <2>3. tail \in Seq(EntryType) /\ ToSet(tail) \subseteq ToSet(new)
    BY <1>4, HeadAndTail
  <2>4. AppendLines(f, new) = front \o <<Garbled>> \o tail
    BY <1>4 DEF AppendLines
  <2> HIDE DEF front, tail
  <2> DEFINE spoilt == <<Garbled>>
             begin == front \o spoilt
  <2>5. spoilt \in Seq(EntryType) /\ ToSet(spoilt) = {Garbled}
    BY HeaderType, FewElements
  <2> HIDE DEF spoilt
  <2>6. begin \in Seq(EntryType) /\ ToSet(begin) = ToSet(front) \cup {Garbled}
    BY <2>2, <2>5, ConcatElements
  <2> HIDE DEF begin
  <2>7. /\ begin \o tail \in Seq(EntryType)
        /\ ToSet(begin \o tail) = ToSet(front) \cup {Garbled} \cup ToSet(tail)
    BY <2>3, <2>6, ConcatElements
  <2> QED
    BY <1>1, <1>4, <2>2, <2>3, <2>4, <2>7 DEF begin, spoilt
<1> QED
  BY <1>3, <1>4

LEMMA EntriesAmong ==
    ASSUME NEW s, NEW t, NEW u, ToSet(s) \subseteq ToSet(t) \cup ToSet(u) \cup {Garbled}
    PROVE  EntriesOf(s) \subseteq EntriesOf(t) \cup EntriesOf(u)
  BY HeaderType DEF EntriesOf

\* A method that leaves a good object and writes good lines.
LEMMA PerformIsGood ==
    ASSUME NEW n \in Nat, NEW max \in Nat, GoodDisk(disk, ragged, n, max),
           NEW done, NEW thrown, GoodMem(done, n, max), GoodMem(thrown, n, max),
           done.file \in Files, NEW new \in Seq(EntryType),
           Given(EntriesOf(new), n, max), NEW truncate \in BOOLEAN,
           Perform(done, thrown, new, truncate)
    PROVE  GoodMem(mem', n, max) /\ GoodDisk(disk', ragged', n, max)
<1> DEFINE f == done.file
<1>1. PICK k \in 0 .. Len(new), rest \in Remains :
        /\ k = Len(new) => rest = "none"
        /\ mem' \in {done, thrown, Down}
        /\ \/ UNCHANGED <<disk, ragged>>
           \/ /\ disk' = SetFile(f, IF truncate THEN Written(new, k, rest)
                                    ELSE AppendLines(f, Written(new, k, rest)))
              /\ ragged' \subseteq ragged \cup {f}
  <2>1. PICK k \in 0 .. Len(new), rest \in Remains :
        /\ k = Len(new) => rest = "none"
        /\ \/ k = Len(new) /\ mem' = done
           \/ k < Len(new) /\ "throws" \in Faults /\ mem' = thrown
           \/ k < Len(new) /\ mem' = Down
        /\ IF new = <<>> \/ (Written(new, k, rest) = <<>> /\ ~truncate)
           THEN UNCHANGED <<disk, ragged>>
           ELSE /\ disk' = SetFile(f, IF truncate THEN Written(new, k, rest)
                                      ELSE AppendLines(f, Written(new, k, rest)))
                /\ ragged' = IF rest = "none" THEN ragged \ {f}
                                              ELSE ragged \cup {f}
    BY Zenon DEF Perform
  <2>2. mem' \in {done, thrown, Down}
    BY <2>1
  <2>3. \/ UNCHANGED <<disk, ragged>>
        \/ /\ disk' = SetFile(f, IF truncate THEN Written(new, k, rest)
                                 ELSE AppendLines(f, Written(new, k, rest)))
           /\ ragged' \subseteq ragged \cup {f}
    BY <2>1
  <2> QED
    BY <2>1, <2>2, <2>3
<1>2. GoodMem(mem', n, max)
  BY <1>1, DownIsGood
<1>3. CASE UNCHANGED <<disk, ragged>>
  <2>1. disk' = disk /\ ragged' = ragged
    BY <1>3
  <2> QED
    BY <1>2, <2>1
<1>4. ASSUME disk' = SetFile(f, IF truncate THEN Written(new, k, rest)
                                ELSE AppendLines(f, Written(new, k, rest))),
             ragged' \subseteq ragged \cup {f}
      PROVE  GoodDisk(disk', ragged', n, max)
  <2> DEFINE w == Written(new, k, rest)
             lines == IF truncate THEN w ELSE AppendLines(f, w)
  <2>1. w \in Seq(EntryType) /\ ToSet(w) \subseteq ToSet(new) \cup {Garbled}
    BY <1>1, WrittenLines
  <2>2. disk' = [g \in DOMAIN disk \cup {f} |-> IF g = f THEN lines ELSE disk[g]]
    BY <1>4 DEF SetFile
  <2> HIDE DEF w
  <2>3. /\ Lines(f) \in Seq(EntryType) /\ lines \in Seq(EntryType)
        /\ ToSet(lines) \subseteq ToSet(Lines(f)) \cup ToSet(new) \cup {Garbled}
    <3>1. /\ Lines(f) \in Seq(EntryType) /\ AppendLines(f, w) \in Seq(EntryType)
          /\ ToSet(AppendLines(f, w)) \subseteq ToSet(Lines(f)) \cup ToSet(w) \cup {Garbled}
      BY <2>1, AppendedLines
    <3> QED
      BY <2>1, <3>1
  <2> HIDE DEF lines
  <2>4. EntriesOf(lines) \subseteq EntriesOf(Lines(f)) \cup EntriesOf(new)
    BY <2>3, EntriesAmong
  <2>5. Given(EntriesOf(Lines(f)), n, max)
    <3>1. EntriesOf(<<>>) = {}
      BY DEF EntriesOf, ToSet
    <3> QED
      BY <3>1 DEF GoodDisk, Lines, Exists, Given
  <2>6. Given(EntriesOf(lines), n, max)
    BY <2>4, <2>5 DEF Given
  <2>7. DOMAIN disk' = DOMAIN disk \cup {f}
        /\ \A g \in DOMAIN disk' : disk'[g] = IF g = f THEN lines ELSE disk[g]
    BY <2>2
  <2> QED
    BY <1>4, <2>3, <2>6, <2>7 DEF GoodDisk
<1> QED
  BY <1>1, <1>2, <1>3, <1>4

LEMMA LoadedIsGood ==
    ASSUME NEW n, NEW max, NEW f \in Files, NEW es \in Seq(EntryType),
           Given(EntriesOf(es), n, max)
    PROVE  GoodMem(Loaded(f, es), n, max)
<1> DEFINE m == Loaded(f, es)
<1>1. m.file = f /\ m.entries = es /\ m.leaf = LastId(es)
      /\ m = [file |-> f, entries |-> es, leaf |-> LastId(es), labels |-> LabelsOf(es),
              flushed |-> TRUE]
  BY DEF Loaded
<1>2. LastId(es) \in {0} \cup Ids(es)
  BY LastIdIsOneOfThem
<1>3. Ids(es) \subseteq Nat
  BY EntriesOfType DEF Ids, EntryType
<1>4. LabelsOf(es) \in SUBSET Nat
  BY LabelsOfType
<1> HIDE DEF m
<1>5. m \in MemType
  BY <1>1, <1>2, <1>3, <1>4 DEF MemType
<1>6. m.leaf \in {0} \cup Ids(m.entries) /\ Given(EntriesOf(m.entries), n, max)
  BY <1>1, <1>2
<1>7. GoodMem(m, n, max)
  BY <1>5, <1>6 DEF GoodMem
<1> QED
  BY <1>7 DEF m

LEMMA EmptySessionIsGood ==
    ASSUME NEW n, NEW max, NEW f \in Files
    PROVE  GoodMem(EmptySession(f), n, max) /\ EntriesOf(<<Header>>) = {}
           /\ <<Header>> \in Seq(EntryType)
<1>1. <<Header>> \in Seq(EntryType) /\ ToSet(<<Header>>) = {Header}
  BY HeaderType, FewElements
<1>2. EntriesOf(<<Header>>) = {}
  BY <1>1, HeaderType DEF EntriesOf
<1>3. EmptySession(f) = [file |-> f, entries |-> <<Header>>, leaf |-> 0, labels |-> {},
                         flushed |-> FALSE]
  <2> DEFINE h == <<Header>>
  <2>1. EmptySession(f) = [Down EXCEPT !.file = f, !.entries = h]
    BY DEF EmptySession
  <2>2. Down = [file |-> NoFile, entries |-> <<>>, leaf |-> 0, labels |-> {},
                flushed |-> FALSE]
    BY DEF Down
  <2> HIDE DEF h
  <2>3. EmptySession(f) = [file |-> f, entries |-> h, leaf |-> 0, labels |-> {},
                           flushed |-> FALSE]
    BY <2>1, <2>2
  <2> QED
    BY <2>3 DEF h
<1> QED
  BY <1>1, <1>2, <1>3 DEF GoodMem, MemType, Given

\* Giving out k more ids spoils nothing.
LEMMA LaterIsGood ==
    ASSUME TreeInv, NEW k \in Nat, nextId <= k
    PROVE  GoodMem(mem, k, MaxId) /\ GoodDisk(disk, ragged, k, MaxId)
<1>1. MaxId \in Nat /\ nextId \in Nat
  BY MaxIdType DEF TreeInv
<1>2. GoodMem(mem, k, MaxId)
  <2>1. mem \in MemType /\ mem.entries \in Seq(EntryType)
    BY DEF TreeInv, GoodMem, MemType
  <2>2. EntriesOf(mem.entries) \subseteq EntryType
    BY <2>1, EntriesOfType
  <2>3. Given(EntriesOf(mem.entries), k, MaxId)
    BY <1>1, <2>2, GivenLater DEF TreeInv, GoodMem
  <2> QED
    BY <2>3 DEF TreeInv, GoodMem
<1>3. GoodDisk(disk, ragged, k, MaxId)
  <2>1. ASSUME NEW f \in DOMAIN disk PROVE Given(EntriesOf(disk[f]), k, MaxId)
    <3>1. disk[f] \in Seq(EntryType) /\ Given(EntriesOf(disk[f]), nextId, MaxId)
      BY DEF TreeInv, GoodDisk
    <3> QED
      BY <1>1, <3>1, EntriesOfType, GivenLater
  <2> QED
    BY <2>1 DEF TreeInv, GoodDisk
<1> QED
  BY <1>2, <1>3

\* The object after an entry has been appended, whether the write throws or not.
LEMMA AppendedIsGood ==
    ASSUME TreeInv, nextId <= MaxId, NEW e \in EntryType, IsEntry(e), e.id = nextId,
           e.parent \in {0} \cup Ids(mem.entries),
           NEW m \in MemType, m.entries = Append(mem.entries, e), m.leaf = e.id
    PROVE  GoodMem(m, nextId + 1, MaxId)
<1>1. MaxId \in Nat /\ nextId \in Nat /\ nextId # 0 /\ mem.entries \in Seq(EntryType)
  BY MaxIdType DEF TreeInv, GoodMem, MemType
<1>2. EntriesOf(m.entries) = EntriesOf(mem.entries) \cup {e}
  BY <1>1, EntriesOfAppend
<1>3. Given(EntriesOf(mem.entries), nextId, MaxId)
  BY DEF TreeInv, GoodMem
<1>4. Given(EntriesOf(mem.entries), nextId + 1, MaxId)
  BY <1>1, LaterIsGood DEF GoodMem
<1>5. e.parent < nextId
  <2>1. CASE e.parent = 0
    BY <1>1, <2>1
  <2>2. CASE e.parent \in Ids(mem.entries)
    BY <1>3, <2>2 DEF Ids, Given
  <2> QED
    BY <2>1, <2>2
<1>6. Given(EntriesOf(m.entries), nextId + 1, MaxId)
  BY <1>1, <1>2, <1>4, <1>5 DEF Given
<1>7. m.leaf \in Ids(m.entries)
  BY <1>2 DEF Ids
<1> QED
  BY <1>6, <1>7 DEF GoodMem

LEMMA RelabelType ==
    ASSUME NEW labels \in SUBSET Nat, NEW e \in EntryType
    PROVE  Relabel(labels, e) \in SUBSET Nat
  BY DEF Relabel, EntryType

LEMMA LinesToPersistAre ==
    ASSUME NEW es, NEW e
    PROVE  LinesToPersist(es, e) \in {<<>>, <<e>>, es}
  BY DEF LinesToPersist

LEMMA AppendEntryKeepsTree ==
    ASSUME TreeInv, Up, NEW e \in EntryType, IsEntry(e), e.id = nextId,
           e.parent \in {0} \cup Ids(mem.entries), AppendEntry(e)
    PROVE  TreeInv'
<1> DEFINE es == Append(mem.entries, e)
           thrown == [mem EXCEPT !.entries = es, !.leaf = e.id]
           done == [thrown EXCEPT !.labels = Relabel(@, e),
                                  !.flushed = HasAssistant(es)]
           new == LinesToPersist(es, e)
<1>1. /\ nextId <= MaxId /\ nextId' = nextId + 1 /\ scenario' = scenario
      /\ Perform(done, thrown, new, FALSE)
  BY Zenon DEF AppendEntry
<1>2. mem \in MemType /\ mem.file \in Files /\ mem.entries \in Seq(EntryType)
      /\ MaxId \in Nat /\ nextId \in Nat
  BY MaxIdType DEF TreeInv, GoodMem, MemType, Up
<1>3. es \in Seq(EntryType) /\ HasAssistant(es) \in BOOLEAN /\ e.id \in Nat
  <2>1. HasAssistant(es) \in BOOLEAN
    BY DEF HasAssistant
  <2>2. e.id \in Nat
    BY DEF EntryType
  <2> QED
    BY <1>2, <2>1, <2>2, AppendElements
<1>4. GoodMem(thrown, nextId + 1, MaxId) /\ GoodMem(done, nextId + 1, MaxId)
      /\ done.file \in Files
  <2>1. Relabel(mem.labels, e) \in SUBSET Nat
    BY <1>2, RelabelType DEF MemType
  <2> DEFINE relabelled == Relabel(mem.labels, e)
             has == HasAssistant(es)
  <2>2. relabelled \in SUBSET Nat /\ has \in BOOLEAN
    BY <1>3, <2>1
  <2>3. thrown.labels = mem.labels
    BY <1>2 DEF MemType
  <2>4. done = [thrown EXCEPT !.labels = relabelled, !.flushed = has]
    BY <2>3
  <2> HIDE DEF relabelled, has, done, es
  <2>5. thrown \in MemType /\ thrown.entries = es /\ thrown.leaf = e.id
    BY <1>2, <1>3 DEF MemType
  <2>6. done \in MemType /\ done.entries = es /\ done.leaf = e.id /\ done.file = mem.file
    BY <1>2, <1>3, <2>2, <2>4 DEF MemType
  <2> HIDE DEF thrown
  <2> QED
    BY <1>1, <1>2, <2>5, <2>6, AppendedIsGood DEF es
<1>5. EntriesOf(es) = EntriesOf(mem.entries) \cup {e}
  BY <1>2, EntriesOfAppend
<1>6. Given(EntriesOf(es), nextId + 1, MaxId)
  <2> HIDE DEF es, done
  <2>1. thrown.entries = es
    BY <1>2 DEF MemType
  <2> QED
    BY <1>4, <2>1 DEF GoodMem
<1>7. new \in Seq(EntryType) /\ EntriesOf(new) \subseteq EntriesOf(es)
  <2>1. /\ <<>> \in Seq(EntryType) /\ ToSet(<<>>) = {}
        /\ <<e>> \in Seq(EntryType) /\ ToSet(<<e>>) = {e}
    BY FewElements
  <2>2. EntriesOf(<<>>) = {} /\ EntriesOf(<<e>>) = {e}
    BY <2>1 DEF EntriesOf
  <2>3. new \in {<<>>, <<e>>, es}
    BY LinesToPersistAre
  <2> HIDE DEF new, es
  <2> QED
    BY <1>3, <1>5, <2>1, <2>2, <2>3
<1>8. Given(EntriesOf(new), nextId + 1, MaxId)
  BY <1>6, <1>7 DEF Given
<1>9. GoodDisk(disk, ragged, nextId + 1, MaxId)
  BY <1>2, LaterIsGood
<1> HIDE DEF done, thrown, new, es
<1>10. GoodMem(mem', nextId + 1, MaxId) /\ GoodDisk(disk', ragged', nextId + 1, MaxId)
  <2>1. nextId + 1 \in Nat /\ FALSE \in BOOLEAN
    BY <1>2
  <2> QED
    BY <1>1, <1>2, <1>4, <1>7, <1>8, <1>9, <2>1, PerformIsGood
<1>11. MaxId' = MaxId /\ scenario' \in Scenarios /\ nextId' \in Nat \ {0}
  BY <1>1, <1>2 DEF MaxId, TreeInv
<1> QED
  BY <1>1, <1>10, <1>11 DEF TreeInv

LEMMA SequenceOfSet ==
    ASSUME NEW S, IsFiniteSet(S)
    PROVE  /\ SetToSeq(S) \in [1 .. Cardinality(S) -> S] /\ Cardinality(S) \in Nat
           /\ SetToSeq(S) \in Seq(S) /\ Len(SetToSeq(S)) = Cardinality(S)
<1>1. Cardinality(S) \in Nat /\ ExistsBijection(1 .. Cardinality(S), S)
  BY FS_CardinalityType
<1>2. PICK f \in [1 .. Cardinality(S) -> S] : IsInjective(f)
  BY <1>1 DEF ExistsBijection, Bijection, Injection
<1>3. SetToSeq(S) \in [1 .. Cardinality(S) -> S]
  BY <1>2 DEF SetToSeq
<1> QED
  BY <1>1, <1>3

LEMMA IdsInRange ==
    ASSUME TreeInv, NEW l \in Ids(mem.entries)
    PROVE  l \in 0 .. MaxId /\ l \in Nat /\ l < nextId /\ MaxId \in Nat
<1>1. MaxId \in Nat /\ Given(EntriesOf(mem.entries), nextId, MaxId)
  BY MaxIdType DEF TreeInv, GoodMem
<1> QED
  BY <1>1 DEF Ids, Given

\* The path that a branched session takes over.
LEMMA PathType ==
    ASSUME TreeInv, NEW l \in Ids(mem.entries)
    PROVE  /\ Path(mem.entries, l) \in Seq(EntriesOf(mem.entries))
           /\ PathWithoutLabels(l) \in Seq(EntriesOf(mem.entries))
           /\ EntriesOf(mem.entries) \subseteq EntryType
           /\ IsFiniteSet(LabelledOnPath(l)) /\ LabelledOnPath(l) \subseteq Nat
<1> DEFINE own == EntriesOf(mem.entries)
<1>1. /\ MaxId \in Nat /\ nextId \in Nat /\ own \subseteq EntryType
      /\ Given(own, nextId, MaxId)
  BY MaxIdType, EntriesOfType DEF TreeInv, GoodMem, MemType
<1>2. l \in 0 .. MaxId
  BY IdsInRange
<1>3. PathIn(own, l) \in Seq(own)
  <2> HIDE DEF own
  <2> QED
    BY <1>1, <1>2, PathStep
<1>4. Path(mem.entries, l) \in Seq(own)
  BY <1>3 DEF Path
<1>5. PathWithoutLabels(l) \in Seq(own)
  <2> DEFINE path == Path(mem.entries, l)
             kept == {e \in ToSet(path) : e.kind \notin LabelKinds}
  <2>1. PathWithoutLabels(l) = Filtered(path, kept)
    BY DEF PathWithoutLabels
  <2> HIDE DEF kept, own
  <2>2. Filtered(path, kept) \in Seq(own \cap kept)
    BY <1>4, FilteredElements
  <2> QED
    BY <2>1, <2>2
<1>6. LabelledOnPath(l) \subseteq 1 .. MaxId
  <2>1. ToSet(PathWithoutLabels(l)) \subseteq own
    <3> HIDE DEF own
    <3> QED
      BY <1>5 DEF ToSet
  <2>2. \A e \in own : e.id \in 1 .. MaxId
    BY <1>1 DEF Given
  <2> QED
    BY <2>1, <2>2 DEF LabelledOnPath
<1>7. IsFiniteSet(LabelledOnPath(l))
  <2>1. IsFiniteSet(1 .. MaxId)
    BY <1>1, FS_Interval
  <2> QED
    BY <1>6, <2>1, FS_Subset
<1> QED
  BY <1>1, <1>4, <1>5, <1>6, <1>7

\* The labels that a branched session sets anew.
LEMMA LabelChainType ==
    ASSUME NEW targets \in Seq(Nat), NEW parent \in Nat, nextId \in Nat \ {0},
           parent < nextId
    PROVE  /\ LabelChain(targets, parent) \in Seq(EntryType)
           /\ \A e \in ToSet(LabelChain(targets, parent)) :
                 /\ e.id \in nextId .. nextId + Len(targets) - 1
                 /\ e.parent < e.id /\ e.kind = "label"
<1> DEFINE entry(i) == [id |-> nextId + i - 1, kind |-> "label", ref |-> targets[i],
                        parent |-> IF i = 1 THEN parent ELSE nextId + i - 2]
<1>1. Len(targets) \in Nat /\ DOMAIN targets = 1 .. Len(targets)
      /\ \A i \in 1 .. Len(targets) : targets[i] \in Nat
  OBVIOUS
<1>2. ASSUME NEW i \in 1 .. Len(targets)
      PROVE  /\ entry(i) \in EntryType /\ entry(i).kind = "label"
             /\ entry(i).id \in nextId .. nextId + Len(targets) - 1
             /\ entry(i).parent < entry(i).id
  <2>1. nextId + i - 1 \in Nat /\ (i # 1 => nextId + i - 2 \in Nat)
    BY <1>1
  <2>2. targets[i] \in Nat /\ "label" \in AllKinds \cup {"session", "garbled"}
    BY <1>1 DEF AllKinds, LabelKinds
  <2>3. entry(i) \in EntryType
    BY <2>1, <2>2 DEF EntryType
  <2> QED
    BY <1>1, <2>3
<1> HIDE DEF entry
<1>3. LabelChain(targets, parent) = [i \in 1 .. Len(targets) |-> entry(i)]
  BY <1>1 DEF LabelChain, entry
<1>4. LabelChain(targets, parent) \in Seq(EntryType)
  BY <1>1, <1>2, <1>3
<1>5. ToSet(LabelChain(targets, parent)) = {entry(i) : i \in 1 .. Len(targets)}
  BY <1>3 DEF ToSet
<1> QED
  BY <1>2, <1>4, <1>5

LEMMA BranchedEntriesAreGood ==
    ASSUME TreeInv, NEW l \in Ids(mem.entries),
           \A e \in ToSet(BranchedEntries(l)) : e.id <= MaxId
    PROVE  /\ BranchedEntries(l) \in Seq(EntryType)
           /\ Cardinality(LabelledOnPath(l)) \in Nat
           /\ Given(EntriesOf(BranchedEntries(l)),
                    nextId + Cardinality(LabelledOnPath(l)), MaxId)
<1> DEFINE path == PathWithoutLabels(l)
           own == EntriesOf(mem.entries)
           parent == IF path = <<>> THEN 0 ELSE Last(path).id
           targets == SetToSeq(LabelledOnPath(l))
           chain == LabelChain(targets, parent)
           head == <<Header>>
           n == Cardinality(LabelledOnPath(l))
<1>1. BranchedEntries(l) = head \o path \o chain
  BY DEF BranchedEntries
<1>2. /\ path \in Seq(own) /\ own \subseteq EntryType
      /\ IsFiniteSet(LabelledOnPath(l)) /\ LabelledOnPath(l) \subseteq Nat
  BY PathType
<1>3. nextId \in Nat \ {0} /\ MaxId \in Nat /\ Given(own, nextId, MaxId)
  BY MaxIdType DEF TreeInv, GoodMem
<1> HIDE DEF path, own
<1>4. targets \in Seq(Nat) /\ Len(targets) = n /\ n \in Nat
  <2>1. targets \in Seq(LabelledOnPath(l)) /\ Len(targets) = n /\ n \in Nat
    BY <1>2, SequenceOfSet
  <2> HIDE DEF targets
  <2> QED
    BY <1>2, <2>1
<1>5. parent \in Nat /\ parent < nextId
  <2>1. CASE path = <<>>
    BY <1>3, <2>1
  <2>2. CASE path # <<>>
    <3>1. Last(path) \in own
      BY <1>2, <2>2, FrontThenLast
    <3> QED
      BY <1>3, <2>2, <3>1 DEF Given
  <2> QED
    BY <2>1, <2>2
<1> HIDE DEF targets, parent, n
<1>6. /\ chain \in Seq(EntryType)
      /\ \A e \in ToSet(chain) : /\ e.id \in nextId .. nextId + n - 1
                                 /\ e.parent < e.id
  BY <1>3, <1>4, <1>5, LabelChainType
<1>7. head \in Seq(EntryType) /\ ToSet(head) = {Header}
  BY HeaderType, FewElements
<1> HIDE DEF chain, head
<1>8. path \in Seq(EntryType) /\ ToSet(path) \subseteq own
  BY <1>2 DEF ToSet
<1>9. head \o path \in Seq(EntryType) /\ ToSet(head \o path) = {Header} \cup ToSet(path)
  BY <1>7, <1>8, ConcatElements
<1> DEFINE begin == head \o path
<1>14. begin \in Seq(EntryType) /\ ToSet(begin) = {Header} \cup ToSet(path)
  BY <1>7, <1>9
<1> HIDE DEF begin
<1>10. /\ begin \o chain \in Seq(EntryType)
       /\ ToSet(begin \o chain) = {Header} \cup ToSet(path) \cup ToSet(chain)
  BY <1>6, <1>14, ConcatElements
<1>11. BranchedEntries(l) = begin \o chain
  BY <1>1 DEF begin
<1>12. ASSUME NEW e \in EntriesOf(BranchedEntries(l))
       PROVE  e.id \in 1 .. MaxId /\ e.id < nextId + n /\ e.parent < e.id
  <2>1. e \in {Header} \cup ToSet(path) \cup ToSet(chain) /\ IsEntry(e) /\ e.id <= MaxId
    BY <1>10, <1>11 DEF EntriesOf
  <2>2. e \in ToSet(path) \/ e \in ToSet(chain)
    BY <2>1, HeaderType
  <2>3. CASE e \in ToSet(path)
    BY <1>3, <1>4, <1>8, <2>3 DEF Given
  <2>4. CASE e \in ToSet(chain)
    <3>1. e.id \in nextId .. nextId + n - 1 /\ e.parent < e.id
      BY <1>6, <2>4
    <3> QED
      BY <1>3, <1>4, <2>1, <3>1
  <2> QED
    BY <2>2, <2>3, <2>4
<1>13. Given(EntriesOf(BranchedEntries(l)), nextId + n, MaxId)
  BY <1>12 DEF Given
<1> QED
  BY <1>4, <1>10, <1>11, <1>13 DEF n

LEMMA FreshIsAFile ==
    ASSUME NEW f, Fresh(f)
    PROVE  f \in Files /\ f \notin DOMAIN disk
  BY DEF Fresh, NamesInUse

LEMMA CreateBranchedSessionKeepsTree ==
    ASSUME TreeInv, NEW l, NEW f, CreateBranchedSession(l, f)
    PROVE  TreeInv'
<1> DEFINE es == BranchedEntries(l)
           loaded == Loaded(f, es)
           has == HasAssistant(es)
           done == [loaded EXCEPT !.flushed = has]
           thrown == [done EXCEPT !.flushed = mem.flushed]
           new == IF has THEN es ELSE <<>>
           n == nextId + Cardinality(LabelledOnPath(l))
<1>1. /\ l \in Ids(mem.entries) /\ Fresh(f) /\ \A e \in ToSet(es) : e.id <= MaxId
      /\ scenario' = scenario /\ nextId' = n /\ Perform(done, thrown, new, TRUE)
  BY Zenon DEF CreateBranchedSession
<1>2. f \in Files
  BY <1>1, FreshIsAFile
<1>3. /\ es \in Seq(EntryType) /\ n \in Nat /\ nextId <= n /\ n # 0 /\ MaxId \in Nat
      /\ Given(EntriesOf(es), n, MaxId)
  <2>1. nextId \in Nat \ {0} /\ MaxId \in Nat
    BY MaxIdType DEF TreeInv
  <2>2. /\ es \in Seq(EntryType) /\ Cardinality(LabelledOnPath(l)) \in Nat
        /\ Given(EntriesOf(es), n, MaxId)
    BY <1>1, BranchedEntriesAreGood
  <2> HIDE DEF es
  <2> QED
    BY <2>1, <2>2
<1>4. has \in BOOLEAN /\ mem.flushed \in BOOLEAN
  BY DEF HasAssistant, TreeInv, GoodMem, MemType
<1> HIDE DEF es, has, n
<1>5. GoodMem(loaded, n, MaxId) /\ loaded.file = f
  BY <1>2, <1>3, LoadedIsGood DEF Loaded
<1> HIDE DEF loaded
<1>6. GoodMem(done, n, MaxId) /\ GoodMem(thrown, n, MaxId) /\ done.file = f
  BY <1>4, <1>5 DEF GoodMem, MemType
<1>7. new \in Seq(EntryType) /\ Given(EntriesOf(new), n, MaxId)
  <2>1. EntriesOf(<<>>) = {}
    BY DEF EntriesOf, ToSet
  <2> QED
    BY <1>3, <2>1 DEF Given
<1>8. GoodDisk(disk, ragged, n, MaxId)
  BY <1>3, LaterIsGood
<1> HIDE DEF done, thrown, new
<1>9. GoodMem(mem', n, MaxId) /\ GoodDisk(disk', ragged', n, MaxId)
  <2>1. TRUE \in BOOLEAN
    OBVIOUS
  <2> QED
    BY <1>1, <1>2, <1>3, <1>6, <1>7, <1>8, <2>1, PerformIsGood
<1>10. MaxId' = MaxId /\ scenario' \in Scenarios /\ nextId' \in Nat \ {0}
  BY <1>1, <1>3 DEF MaxId, TreeInv
<1> QED
  BY <1>1, <1>9, <1>10 DEF TreeInv

LEMMA SetSessionFileKeepsTree ==
    ASSUME TreeInv, NEW f, SetSessionFile(f)
    PROVE  TreeInv'
<1> DEFINE es == Load(Lines(f))
           empty == EmptySession(f)
           done == [empty EXCEPT !.flushed = TRUE]
<1>1. /\ f \in NamesInUse \/ Fresh(f)
      /\ CASE ~Exists(f) -> mem' = empty /\ UNCHANGED <<disk, ragged>>
           [] Exists(f) /\ es = <<>> -> Perform(done, empty, <<Header>>, TRUE)
           [] OTHER -> mem' = Loaded(f, es) /\ UNCHANGED <<disk, ragged>>
      /\ UNCHANGED <<scenario, nextId>>
  BY Zenon DEF SetSessionFile
<1>2. f \in Files
  BY <1>1, FreshIsAFile DEF NamesInUse, TreeInv, GoodMem, MemType, GoodDisk
<1>3. MaxId \in Nat /\ nextId \in Nat /\ GoodDisk(disk, ragged, nextId, MaxId)
  BY MaxIdType DEF TreeInv
<1>4. es \in Seq(EntryType) /\ Given(EntriesOf(es), nextId, MaxId)
  <2>1. Lines(f) \in Seq(EntryType) /\ Given(EntriesOf(Lines(f)), nextId, MaxId)
    <3>1. EntriesOf(<<>>) = {}
      BY DEF EntriesOf, ToSet
    <3> QED
      BY <1>3, <3>1 DEF GoodDisk, Lines, Exists, Given
  <2>2. es \in Seq(EntryType) /\ EntriesOf(es) \subseteq EntriesOf(Lines(f))
    BY <2>1, LoadedLines DEF EntriesOf
  <2> QED
    BY <2>1, <2>2 DEF Given
<1>5. GoodMem(empty, nextId, MaxId) /\ empty.file = f /\ <<Header>> \in Seq(EntryType)
      /\ EntriesOf(<<Header>>) = {}
  BY <1>2, EmptySessionIsGood DEF EmptySession, Down
<1>6. GoodMem(Loaded(f, es), nextId, MaxId)
  <2> HIDE DEF es
  <2> QED
    BY <1>2, <1>4, LoadedIsGood
<1> HIDE DEF empty, es
<1>7. GoodMem(mem', nextId, MaxId) /\ GoodDisk(disk', ragged', nextId, MaxId)
  <2>1. CASE Exists(f) /\ es = <<>>
    <3>1. Perform(done, empty, <<Header>>, TRUE)
      BY <1>1, <2>1
    <3>2. GoodMem(done, nextId, MaxId) /\ done.file = f
      BY <1>5 DEF GoodMem, MemType
    <3>3. Given(EntriesOf(<<Header>>), nextId, MaxId) /\ TRUE \in BOOLEAN
      BY <1>5 DEF Given
    <3> HIDE DEF done
    <3> QED
      BY <1>2, <1>3, <1>5, <3>1, <3>2, <3>3, PerformIsGood
  <2>2. CASE ~ (Exists(f) /\ es = <<>>)
    <3>1. mem' \in {empty, Loaded(f, es)} /\ disk' = disk /\ ragged' = ragged
      BY <1>1, <2>2
    <3> QED
      BY <1>3, <1>5, <1>6, <3>1
  <2> QED
    BY <2>1, <2>2
<1>8. MaxId' = MaxId /\ scenario' \in Scenarios /\ nextId' = nextId /\ nextId \in Nat \ {0}
  BY <1>1 DEF MaxId, TreeInv
<1> QED
  BY <1>7, <1>8 DEF TreeInv

LEMMA ForkFromKeepsTree ==
    ASSUME TreeInv, NEW source, NEW f, ForkFrom(source, f)
    PROVE  TreeInv'
<1> DEFINE own == Load(Lines(source))
           kept == Filtered(own, EntriesOf(own))
           head == <<Header>>
           es == head \o kept
<1>1. /\ source \in DOMAIN disk /\ Fresh(f)
      /\ Perform(Loaded(f, es), mem, es, FALSE)
      /\ UNCHANGED <<scenario, nextId>>
  BY Zenon DEF ForkFrom
<1>2. f \in Files
  BY <1>1, FreshIsAFile
<1>3. /\ MaxId \in Nat /\ nextId \in Nat /\ GoodDisk(disk, ragged, nextId, MaxId)
      /\ GoodMem(mem, nextId, MaxId)
  BY MaxIdType DEF TreeInv
<1>4. Lines(source) \in Seq(EntryType) /\ Given(EntriesOf(Lines(source)), nextId, MaxId)
  BY <1>1, <1>3 DEF GoodDisk, Lines, Exists
<1>5. own \in Seq(EntryType) /\ EntriesOf(own) \subseteq EntriesOf(Lines(source))
  BY <1>4, LoadedLines DEF EntriesOf
<1> HIDE DEF own
<1>6. kept \in Seq(EntryType \cap EntriesOf(own)) /\ head \in Seq(EntryType)
      /\ EntriesOf(head) = {}
  BY <1>2, <1>5, FilteredElements, EmptySessionIsGood
<1> HIDE DEF kept, head
<1>7. kept \in Seq(EntryType) /\ EntriesOf(kept) \subseteq EntriesOf(own)
  BY <1>6 DEF EntriesOf, ToSet
<1>8. es \in Seq(EntryType) /\ EntriesOf(es) = EntriesOf(kept)
  <2>1. es \in Seq(EntryType) /\ ToSet(es) = ToSet(head) \cup ToSet(kept)
    BY <1>6, <1>7, ConcatElements
  <2> QED
    BY <1>6, <2>1 DEF EntriesOf
<1> HIDE DEF es
<1>9. Given(EntriesOf(es), nextId, MaxId)
  BY <1>4, <1>5, <1>7, <1>8 DEF Given
<1>10. GoodMem(Loaded(f, es), nextId, MaxId) /\ Loaded(f, es).file = f
  BY <1>2, <1>8, <1>9, LoadedIsGood DEF Loaded
<1>11. GoodMem(mem', nextId, MaxId) /\ GoodDisk(disk', ragged', nextId, MaxId)
  <2>1. FALSE \in BOOLEAN
    OBVIOUS
  <2> DEFINE loaded == Loaded(f, es)
  <2> HIDE DEF loaded
  <2> QED
    BY <1>1, <1>2, <1>3, <1>8, <1>9, <1>10, <2>1, PerformIsGood DEF loaded
<1>12. MaxId' = MaxId /\ scenario' \in Scenarios /\ nextId' = nextId /\ nextId \in Nat \ {0}
  BY <1>1 DEF MaxId, TreeInv
<1> QED
  BY <1>11, <1>12 DEF TreeInv

\* Appends by their kinds.
LEMMA NewEntryType ==
    ASSUME NEW kind \in AllKinds, NEW parent \in Nat, NEW ref \in Nat, nextId \in Nat
    PROVE  LET e == Entry(kind, parent, ref)
           IN  /\ e \in EntryType /\ IsEntry(e) /\ e.id = nextId
               /\ e.parent = parent /\ e.kind = kind /\ e.ref = ref
  BY DEF Entry, EntryType, IsEntry

LEMMA IdsType ==
    ASSUME TreeInv
    PROVE  /\ {0} \cup Ids(mem.entries) \subseteq Nat /\ mem.leaf \in {0} \cup Ids(mem.entries)
           /\ nextId \in Nat /\ mem.leaf \in Nat
  BY IdsInRange DEF TreeInv, GoodMem, MemType

LEMMA PathIdsAreIds ==
    ASSUME TreeInv
    PROVE  PathIds(mem.entries, mem.leaf) \subseteq Ids(mem.entries)
<1> DEFINE own == EntriesOf(mem.entries)
<1>1. /\ MaxId \in Nat /\ nextId \in Nat /\ own \subseteq EntryType
      /\ Given(own, nextId, MaxId)
  BY MaxIdType, EntriesOfType DEF TreeInv, GoodMem, MemType
<1>2. mem.leaf \in 0 .. MaxId
  <2>1. mem.leaf \in {0} \cup Ids(mem.entries)
    BY DEF TreeInv, GoodMem
  <2>2. mem.leaf = 0 \/ mem.leaf \in 0 .. MaxId
    BY <2>1, IdsInRange
  <2> QED
    BY <1>1, <2>2
<1> HIDE DEF own
<1>3. PathIn(own, mem.leaf) \in Seq(own)
  BY <1>1, <1>2, PathStep
<1>4. ToSet(Path(mem.entries, mem.leaf)) \subseteq own
  <2>1. Path(mem.entries, mem.leaf) \in Seq(own)
    BY <1>3 DEF Path, own
  <2> QED
    BY <2>1 DEF ToSet
<1> QED
  BY <1>4 DEF PathIds, Ids, own

\* An append is an entry of one of the kinds of this behaviour, with a parent
\* that is known.
IsAppendOf(e) ==
    /\ Up /\ AppendEntry(e)
    /\ e \in EntryType /\ IsEntry(e) /\ e.id = nextId
    /\ e.parent \in {0} \cup Ids(mem.entries)
    /\ e.kind \in Kinds

LEMMA AppendsAreAppends ==
    ASSUME TreeInv,
           \/ \E kind \in Kinds : AppendPlain(kind)
           \/ \E kind \in Kinds, i \in Ids(mem.entries) : AppendLabelChange(kind, i)
           \/ \E kind \in Kinds, i \in 0..MaxId : AppendCompaction(kind, i)
           \/ \E i \in 0..MaxId : BranchWithSummary(i)
    PROVE  \E e : IsAppendOf(e)
<1>1. /\ {0} \cup Ids(mem.entries) \subseteq Nat /\ mem.leaf \in {0} \cup Ids(mem.entries)
      /\ nextId \in Nat /\ mem.leaf \in Nat /\ 0 \in Nat
  BY IdsType
<1>2. Kinds \subseteq AllKinds
  BY ScenariosAssumption DEF Kinds, TreeInv
<1>3. ASSUME NEW kind \in Kinds, NEW parent \in {0} \cup Ids(mem.entries), NEW ref \in Nat,
             Up, AppendEntry(Entry(kind, parent, ref))
      PROVE  \E e : IsAppendOf(e)
  <2> DEFINE e == Entry(kind, parent, ref)
  <2>1. /\ e \in EntryType /\ IsEntry(e) /\ e.id = nextId
        /\ e.parent = parent /\ e.kind = kind /\ e.ref = ref
    BY <1>1, <1>2, NewEntryType
  <2>2. AppendEntry(e)
    BY <1>3
  <2> HIDE DEF e
  <2>3. IsAppendOf(e)
    BY <1>3, <2>1, <2>2 DEF IsAppendOf
  <2> QED
    BY <2>3
<1>4. CASE \E kind \in Kinds : AppendPlain(kind)
  <2>1. PICK kind \in Kinds : AppendPlain(kind)
    BY <1>4
  <2>2. Up /\ AppendEntry(Entry(kind, mem.leaf, 0))
    BY <2>1 DEF AppendPlain
  <2> QED
    BY <1>1, <1>3, <2>2
<1>5. CASE \E kind \in Kinds, i \in Ids(mem.entries) : AppendLabelChange(kind, i)
  <2>1. PICK kind \in Kinds, i \in Ids(mem.entries) : AppendLabelChange(kind, i)
    BY <1>5
  <2>2. Up /\ AppendEntry(Entry(kind, mem.leaf, i)) /\ i \in Nat
    BY <1>1, <2>1 DEF AppendLabelChange
  <2> QED
    BY <1>1, <1>3, <2>2
<1>6. CASE \E kind \in Kinds, i \in 0..MaxId : AppendCompaction(kind, i)
  <2>1. PICK kind \in Kinds, i \in 0..MaxId : AppendCompaction(kind, i)
    BY <1>6
  <2>2. Up /\ AppendEntry(Entry(kind, mem.leaf, i)) /\ i \in Nat
    BY <1>1, <2>1 DEF AppendCompaction
  <2> QED
    BY <1>1, <1>3, <2>2
<1>7. CASE \E i \in 0..MaxId : BranchWithSummary(i)
  <2>1. PICK i \in 0..MaxId : BranchWithSummary(i)
    BY <1>7
  <2>2. /\ Up /\ AppendEntry(Entry("branch_summary", i, 0))
        /\ "branch_summary" \in Kinds /\ i \in {0} \cup Ids(mem.entries)
    BY <2>1 DEF BranchWithSummary
  <2> QED
    BY <1>1, <1>3, <2>2
<1> QED
  BY <1>4, <1>5, <1>6, <1>7

\* The steps by their kinds: the appends are alike.
LEMMA StepKinds ==
    ASSUME TreeInv, Next
    PROVE  \/ \E e : IsAppendOf(e)
           \/ \E i : Branch(i)
           \/ \E f \in Files : NewSession(f)
           \/ \E f \in Files : SetSessionFile(f)
           \/ \E l, f : CreateBranchedSession(l, f)
           \/ \E f, g : ForkFrom(f, g)
           \/ Exit
<1>1. \/ \/ \E kind \in Kinds : AppendPlain(kind)
         \/ \E kind \in Kinds, i \in Ids(mem.entries) : AppendLabelChange(kind, i)
         \/ \E kind \in Kinds, i \in 0..MaxId : AppendCompaction(kind, i)
         \/ \E i \in 0..MaxId : BranchWithSummary(i)
      \/ \E i : Branch(i)
      \/ \E f \in Files : NewSession(f)
      \/ \E f \in Files : SetSessionFile(f)
      \/ \E l, f : CreateBranchedSession(l, f)
      \/ \E f, g : ForkFrom(f, g)
      \/ Exit
  BY Zenon DEF Next
<1> QED
  BY Zenon, <1>1, AppendsAreAppends

LEMMA QuietKeepsTree ==
    ASSUME TreeInv, GoodMem(mem', nextId, MaxId), UNCHANGED <<scenario, disk, ragged, nextId>>
    PROVE  TreeInv'
<1>1. scenario' = scenario /\ disk' = disk /\ ragged' = ragged /\ nextId' = nextId
      /\ MaxId' = MaxId
  BY DEF MaxId
<1> QED
  BY <1>1 DEF TreeInv

LEMMA StepKeepsTree ==
    ASSUME TreeInv, [Next]_vars
    PROVE  TreeInv'
<1>1. CASE UNCHANGED vars
  <2>1. mem' = mem /\ UNCHANGED <<scenario, disk, ragged, nextId>>
    BY <1>1 DEF vars
  <2>2. GoodMem(mem', nextId, MaxId)
    BY <2>1 DEF TreeInv
  <2> QED
    BY <2>1, <2>2, QuietKeepsTree
<1>2. CASE \E e : IsAppendOf(e)
  <2>1. PICK e : IsAppendOf(e)
    BY <1>2
  <2> QED
    BY <2>1, AppendEntryKeepsTree DEF IsAppendOf
<1>3. CASE \E i : Branch(i)
  <2>1. PICK i : Branch(i)
    BY <1>3
  <2>2. /\ i \in {0} \cup Ids(mem.entries) /\ mem' = [mem EXCEPT !.leaf = i]
        /\ UNCHANGED <<scenario, disk, ragged, nextId>>
    BY <2>1 DEF Branch
  <2>3. GoodMem(mem', nextId, MaxId)
    <3>1. i \in Nat /\ GoodMem(mem, nextId, MaxId)
      BY <2>2, IdsType DEF TreeInv
    <3> QED
      BY <2>2, <3>1 DEF GoodMem, MemType
  <2> QED
    BY <2>2, <2>3, QuietKeepsTree
<1>4. CASE \E f \in Files : NewSession(f)
  <2>1. PICK f \in Files : NewSession(f)
    BY <1>4
  <2>2. mem' = EmptySession(f) /\ UNCHANGED <<scenario, disk, ragged, nextId>>
    BY <2>1 DEF NewSession
  <2>3. GoodMem(mem', nextId, MaxId)
    BY <2>2, EmptySessionIsGood
  <2> QED
    BY <2>2, <2>3, QuietKeepsTree
<1>5. CASE \E f \in Files : SetSessionFile(f)
  BY <1>5, SetSessionFileKeepsTree
<1>6. CASE \E l, f : CreateBranchedSession(l, f)
  BY <1>6, CreateBranchedSessionKeepsTree
<1>7. CASE \E f, g : ForkFrom(f, g)
  BY <1>7, ForkFromKeepsTree
<1>8. CASE Exit
  <2>1. mem' = Down /\ UNCHANGED <<scenario, disk, ragged, nextId>>
    BY <1>8 DEF Exit
  <2>2. GoodMem(mem', nextId, MaxId)
    BY <2>1, DownIsGood
  <2> QED
    BY <2>1, <2>2, QuietKeepsTree
<1> QED
  BY Zenon, StepKinds, <1>1, <1>2, <1>3, <1>4, <1>5, <1>6, <1>7, <1>8

LEMMA InitTree == Init => TreeInv
<1> SUFFICES ASSUME Init PROVE TreeInv
  OBVIOUS
<1>1. (CHOOSE f \in Files : TRUE) \in Files
  BY FilesAssumption
<1>2. \A f \in DOMAIN disk : disk[f] = <<>>
  BY DEF Init
<1>3. DOMAIN disk \subseteq Files
  BY <1>1 DEF Init
<1>4. EntriesOf(<<>>) = {} /\ <<>> \in Seq(EntryType)
  BY DEF EntriesOf, ToSet
<1>5. GoodDisk(disk, ragged, nextId, MaxId)
  BY <1>2, <1>3, <1>4 DEF Init, GoodDisk, Given
<1>6. GoodMem(mem, nextId, MaxId)
  BY DownIsGood DEF Init
<1> QED
  BY <1>5, <1>6 DEF Init, TreeInv

LEMMA AlwaysTree == Spec => []TreeInv
  BY InitTree, StepKeepsTree, PTL DEF Spec

LEMMA TreeIsTyped == TreeInv => TypeOK
  BY DEF TreeInv, TypeOK, GoodMem, GoodDisk

\* The object and the files have their types whatever goes wrong in a write;
\* in particular the leaf of a session is never the undefined of an index that
\* has no entries.
THEOREM TypeCorrect == Spec => []TypeOK
  BY AlwaysTree, TreeIsTyped, PTL

-----------------------------------------------------------------------------
LinesOf(d, f) == IF f \in DOMAIN d THEN d[f] ELSE <<>>

\* Every entry of a sequence has its parent before it, and none is a label.
Ordered(es) ==
    \A i \in DOMAIN es : IsEntry(es[i]) =>
        /\ es[i].kind \notin LabelKinds
        /\ es[i].parent \in {0} \cup Ids(SubSeq(es, 1, i - 1))

\* No line is malformed, the first is the header; without labels in the
\* behaviour the links are in order.
Whole(es) == Garbled \notin ToSet(es) /\ (es # <<>> => es[1] = Header)
Sound(es, kinds) == Whole(es) /\ (kinds \cap LabelKinds = {} => Ordered(es))

\* What the file holds of a session: all of its entries, behind the p first
\* ones when these had been written before; or only those.
OnFile(m, lines, p) ==
    /\ m.flushed => lines = SubSeq(m.entries, 1, p) \o m.entries
    /\ m.flushed /\ ~HasAssistant(m.entries) => p = 0
    /\ ~m.flushed => lines = SubSeq(m.entries, 1, p)

Kept(m, d, kinds) ==
    m.file # NoFile \/ m.entries # <<>> =>
        /\ m.entries # <<>> /\ Sound(m.entries, kinds)
        /\ m.labels = LabelsOf(m.entries)
        /\ HasAssistant(m.entries) => m.flushed
        /\ \E p \in 0 .. Len(m.entries) : OnFile(m, LinesOf(d, m.file), p)

AllSound(d, kinds) == \A f \in DOMAIN d : Sound(d[f], kinds)

FileInv ==
    SoundWrites => ragged = {} /\ AllSound(disk, Kinds) /\ Kept(mem, disk, Kinds)

-----------------------------------------------------------------------------
(***************************************************************************)
(* Sequences in order.                                                     *)
(***************************************************************************)

LEMMA HasAssistantAppend ==
    ASSUME NEW s \in Seq(EntryType), NEW e \in EntryType
    PROVE  HasAssistant(Append(s, e)) <=> HasAssistant(s) \/ e.kind = "assistant"
<1>1. ToSet(Append(s, e)) = ToSet(s) \cup {e}
  BY AppendElements
<1> QED
  BY <1>1 DEF HasAssistant

LEMMA OrderedAppend ==
    ASSUME NEW s \in Seq(EntryType), NEW e \in EntryType
    PROVE  Ordered(Append(s, e)) <=>
              /\ Ordered(s)
              /\ IsEntry(e) => e.kind \notin LabelKinds /\ e.parent \in {0} \cup Ids(s)
<1> DEFINE a == Append(s, e)
           N == Len(s)
           Good(t, i) == IsEntry(t[i]) =>
                            /\ t[i].kind \notin LabelKinds
                            /\ t[i].parent \in {0} \cup Ids(SubSeq(t, 1, i - 1))
<1>1. /\ a \in Seq(EntryType) /\ Len(a) = N + 1 /\ N \in Nat
      /\ \A i \in 1 .. N : a[i] = s[i]
      /\ a[N + 1] = e
  BY AppendElements
<1>2. DOMAIN a = 1 .. N + 1 /\ DOMAIN s = 1 .. N
  BY <1>1
<1>3. ASSUME NEW i \in 1 .. N + 1 PROVE SubSeq(a, 1, i - 1) = SubSeq(s, 1, i - 1)
  <2>1. i - 1 \in 0 .. N
    BY <1>1
  <2> QED
    BY <2>1, PrefixOfAppend
<1>4. SubSeq(a, 1, (N + 1) - 1) = s
  <2>1. (N + 1) - 1 = N /\ N + 1 \in 1 .. N + 1
    BY <1>1
  <2>2. SubSeq(s, 1, N) = s
    BY PrefixWhole
  <2> QED
    BY <1>3, <2>1, <2>2
<1> HIDE DEF a, N
<1>5. Ordered(a) <=> \A i \in 1 .. N + 1 : Good(a, i)
  BY Zenon, <1>2 DEF Ordered
<1>6. Ordered(s) <=> \A i \in 1 .. N : Good(s, i)
  BY Zenon, <1>2 DEF Ordered
<1>7. ASSUME NEW i \in 1 .. N PROVE Good(a, i) <=> Good(s, i)
  <2>1. a[i] = s[i] /\ i \in 1 .. N + 1
    BY <1>1
  <2>2. SubSeq(a, 1, i - 1) = SubSeq(s, 1, i - 1)
    BY <1>3, <2>1
  <2> QED
    BY <2>1, <2>2
<1>8. Good(a, N + 1) <=>
          (IsEntry(e) => e.kind \notin LabelKinds /\ e.parent \in {0} \cup Ids(s))
  BY <1>1, <1>4
<1>9. 1 .. N + 1 = (1 .. N) \cup {N + 1}
  BY <1>1
<1> HIDE DEF Good
<1>10. Ordered(a) <=> Ordered(s) /\ Good(a, N + 1)
  BY <1>5, <1>6, <1>7, <1>9
<1> QED
  BY <1>8, <1>10 DEF a

LEMMA OrderedEmpty == Ordered(<<>>)
  BY DEF Ordered

LEMMA OrderedPrefix ==
    ASSUME NEW s \in Seq(EntryType), NEW k \in 0 .. Len(s), Ordered(s)
    PROVE  Ordered(SubSeq(s, 1, k))
<1> DEFINE p == SubSeq(s, 1, k)
<1>1. p \in Seq(EntryType) /\ Len(p) = k /\ \A i \in 1 .. k : p[i] = s[i]
  BY PrefixElements
<1>2. Len(s) \in Nat /\ DOMAIN s = 1 .. Len(s)
  OBVIOUS
<1>3. ASSUME NEW i \in 1 .. k PROVE SubSeq(p, 1, i - 1) = SubSeq(s, 1, i - 1)
  <2> DEFINE u == SubSeq(p, 1, i - 1)
             v == SubSeq(s, 1, i - 1)
  <2>1. i - 1 \in 0 .. Len(p) /\ i - 1 \in 0 .. Len(s)
    BY <1>1, <1>2
  <2> HIDE DEF p
  <2>2. u \in Seq(EntryType) /\ Len(u) = i - 1 /\ \A j \in 1 .. i - 1 : u[j] = p[j]
    BY <1>1, <2>1, PrefixElements
  <2>3. v \in Seq(EntryType) /\ Len(v) = i - 1 /\ \A j \in 1 .. i - 1 : v[j] = s[j]
    BY <2>1, PrefixElements
  <2> HIDE DEF u, v
  <2>4. \A j \in 1 .. i - 1 : u[j] = v[j]
    <3>1. \A j \in 1 .. i - 1 : j \in 1 .. k
      OBVIOUS
    <3> QED
      BY <1>1, <2>2, <2>3, <3>1
  <2>5. u = v
    BY <2>2, <2>3, <2>4, SeqEqual
  <2> QED
    BY <2>5 DEF u, v
<1> HIDE DEF p
<1>4. DOMAIN p = 1 .. k /\ \A i \in 1 .. k : i \in DOMAIN s
  BY <1>1, <1>2
<1>5. Ordered(p)
  BY <1>1, <1>3, <1>4 DEF Ordered
<1> QED
  BY <1>5 DEF p

LEMMA OrderedConcat ==
    ASSUME NEW s \in Seq(EntryType), NEW t \in Seq(EntryType), Ordered(s), Ordered(t)
    PROVE  Ordered(s \o t)
<1> DEFINE P == {u \in Seq(EntryType) : Ordered(u) => Ordered(s \o u)}
<1>1. <<>> \in P
  <2>1. s \o <<>> = s /\ <<>> \in Seq(EntryType)
    BY ConcatEmptySeq
  <2> QED
    BY <2>1
<1>2. ASSUME NEW u \in Seq(EntryType), NEW e \in EntryType, u \in P
      PROVE  Append(u, e) \in P
  <2>1. Append(u, e) \in Seq(EntryType)
    BY AppendElements
  <2>2. SUFFICES ASSUME Ordered(Append(u, e)) PROVE Ordered(s \o Append(u, e))
    BY <2>1
  <2>3. Ordered(u) /\ (IsEntry(e) => e.kind \notin LabelKinds /\ e.parent \in {0} \cup Ids(u))
    BY <2>2, OrderedAppend
  <2> DEFINE c == s \o u
  <2>4. c \in Seq(EntryType) /\ s \o Append(u, e) = Append(c, e)
    OBVIOUS
  <2>5. Ordered(c)
    BY <1>2, <2>3
  <2>6. Ids(u) \subseteq Ids(c)
    BY EntriesOfConcat DEF Ids
  <2> HIDE DEF c
  <2>7. Ordered(Append(c, e))
    BY <2>3, <2>4, <2>5, <2>6, OrderedAppend
  <2> QED
    BY <2>4, <2>7
<1>3. \A u \in Seq(EntryType) : u \in P
  <2> HIDE DEF P
  <2> QED
    BY <1>1, <1>2, SequenceInduction
<1> QED
  BY <1>3

\* Taking out what is not an entry leaves the entries in order.
LEMMA OrderedFiltered ==
    ASSUME NEW s \in Seq(EntryType), Ordered(s)
    PROVE  Ordered(Filtered(s, EntriesOf(s)))
<1> DEFINE S == EntriesOf(s)
           P == {u \in Seq(EntryType) :
                    Ordered(u) /\ EntriesOf(u) \subseteq S => Ordered(Filtered(u, S))}
<1>1. \A x \in S : IsEntry(x)
  BY DEF EntriesOf
<1> HIDE DEF S
<1>2. <<>> \in P
  <2>1. <<>> \in Seq(EntryType)
    OBVIOUS
  <2> QED
    BY <2>1, FilteredEmpty, OrderedEmpty
<1>3. ASSUME NEW u \in Seq(EntryType), NEW e \in EntryType, u \in P
      PROVE  Append(u, e) \in P
  <2>1. Append(u, e) \in Seq(EntryType)
        /\ EntriesOf(Append(u, e)) = EntriesOf(u) \cup {x \in {e} : IsEntry(x)}
    BY AppendElements, EntriesOfAppend
  <2>2. SUFFICES ASSUME Ordered(Append(u, e)), EntriesOf(Append(u, e)) \subseteq S
                 PROVE  Ordered(Filtered(Append(u, e), S))
    BY <2>1
  <2>3. Ordered(u) /\ (IsEntry(e) => e.kind \notin LabelKinds /\ e.parent \in {0} \cup Ids(u))
    BY <2>2, OrderedAppend
  <2> DEFINE k == Filtered(u, S)
  <2>4. Ordered(k) /\ EntriesOf(u) \subseteq S
    BY <1>3, <2>1, <2>2, <2>3
  <2>5. k \in Seq(EntryType \cap S) /\ ToSet(k) = ToSet(u) \cap S
    BY FilteredElements
  <2>6. k \in Seq(EntryType)
    BY <2>5
  <2>7. EntriesOf(k) = EntriesOf(u)
    BY <2>4, <2>5 DEF EntriesOf
  <2>8. Filtered(Append(u, e), S) = IF e \in S THEN Append(k, e) ELSE k
    BY FilteredAppend
  <2> HIDE DEF k
  <2>9. Ordered(Append(k, e))
    BY <2>3, <2>4, <2>6, <2>7, OrderedAppend DEF Ids
  <2> QED
    BY <2>4, <2>8, <2>9
<1>4. \A u \in Seq(EntryType) : u \in P
  <2> HIDE DEF P
  <2> QED
    BY <1>2, <1>3, SequenceInduction
<1> QED
  BY <1>4 DEF S

LEMMA SoundPrefix ==
    ASSUME NEW s \in Seq(EntryType), NEW k \in 0 .. Len(s), NEW kinds, Sound(s, kinds)
    PROVE  Sound(SubSeq(s, 1, k), kinds)
<1> DEFINE p == SubSeq(s, 1, k)
<1>1. /\ p \in Seq(EntryType) /\ Len(p) = k /\ (\A i \in 1 .. k : p[i] = s[i])
      /\ ToSet(p) \subseteq ToSet(s)
  BY PrefixElements
<1>2. Ordered(s) => Ordered(p)
  BY OrderedPrefix
<1> HIDE DEF p
<1>3. p # <<>> => p[1] = Header
  <2> SUFFICES ASSUME p # <<>> PROVE p[1] = Header
    OBVIOUS
  <2>1. 1 \in 1 .. k /\ s # <<>>
    BY <1>1
  <2> QED
    BY <1>1, <2>1 DEF Sound, Whole
<1>4. Sound(p, kinds)
  BY <1>1, <1>2, <1>3 DEF Sound, Whole
<1> QED
  BY <1>4 DEF p

LEMMA SoundConcat ==
    ASSUME NEW s \in Seq(EntryType), NEW t \in Seq(EntryType), NEW kinds,
           Sound(s, kinds), Sound(t, kinds)
    PROVE  Sound(s \o t, kinds)
<1> DEFINE c == s \o t
<1>1. /\ c \in Seq(EntryType) /\ Len(c) = Len(s) + Len(t)
      /\ (\A i \in 1 .. Len(s) : c[i] = s[i])
      /\ ToSet(c) = ToSet(s) \cup ToSet(t)
  BY ConcatElements
<1>2. Ordered(s) /\ Ordered(t) => Ordered(c)
  BY OrderedConcat
<1>3. c # <<>> => c[1] = Header
  <2> SUFFICES ASSUME c # <<>> PROVE c[1] = Header
    OBVIOUS
  <2>1. CASE s = <<>>
    <3>1. c = t
      BY <2>1
    <3> QED
      BY <3>1 DEF Sound, Whole
  <2>2. CASE s # <<>>
    <3>1. 1 \in 1 .. Len(s)
      BY <2>2
    <3> QED
      BY <1>1, <2>2, <3>1 DEF Sound, Whole
  <2> QED
    BY <2>1, <2>2
<1> HIDE DEF c
<1>4. Sound(c, kinds)
  BY <1>1, <1>2, <1>3 DEF Sound, Whole
<1> QED
  BY <1>4 DEF c

LEMMA SoundAppend ==
    ASSUME NEW s \in Seq(EntryType), NEW kinds, Sound(s, kinds), s # <<>>,
           NEW e \in EntryType, IsEntry(e), e.kind \in kinds,
           kinds \cap LabelKinds = {} => e.parent \in {0} \cup Ids(s)
    PROVE  Sound(Append(s, e), kinds)
<1> DEFINE a == Append(s, e)
<1>1. /\ a \in Seq(EntryType) /\ ToSet(a) = ToSet(s) \cup {e}
      /\ \A i \in 1 .. Len(s) : a[i] = s[i]
  BY AppendElements
<1>2. a[1] = Header
  <2>1. 1 \in 1 .. Len(s)
    OBVIOUS
  <2> QED
    BY <1>1, <2>1 DEF Sound, Whole
<1>3. kinds \cap LabelKinds = {} => Ordered(a)
  BY OrderedAppend DEF Sound
<1>4. e # Garbled
  BY HeaderType
<1> HIDE DEF a
<1>5. Sound(a, kinds)
  BY <1>1, <1>2, <1>3, <1>4 DEF Sound, Whole
<1> QED
  BY <1>5 DEF a

\* A sound file is loaded as it is.
LEMMA LoadWhole ==
    ASSUME NEW lines \in Seq(EntryType), Whole(lines)
    PROVE  Load(lines) = lines
<1> DEFINE kept == ToSet(lines) \ {Garbled}
<1>1. ToSet(lines) \subseteq kept
  BY DEF Whole
<1> HIDE DEF kept
<1>2. Filtered(lines, kept) = lines
  BY <1>1, FilteredWhole
<1>3. Load(lines) = IF lines # <<>> /\ Head(lines) = Header THEN lines ELSE <<>>
  BY <1>2 DEF Load, kept
<1>4. lines # <<>> => Head(lines) = Header
  BY HeadAndTail DEF Whole
<1> QED
  BY <1>3, <1>4

-----------------------------------------------------------------------------
(***************************************************************************)
(* A write that may only be cut short between two lines.                   *)
(***************************************************************************)

\* File f now holds k of the lines "new", after those of "base".
IsWrite(f, base, new, k) ==
    /\ ragged' = {}
    /\ LinesOf(disk', f) = base \o SubSeq(new, 1, k)
    /\ DOMAIN disk \subseteq DOMAIN disk'
    /\ \A g \in DOMAIN disk' : g # f => g \in DOMAIN disk /\ disk'[g] = disk[g]

LEMMA LinesAreLinesOf == \A f : Lines(f) = LinesOf(disk, f)
  BY DEF Lines, LinesOf, Exists

LEMMA SoundPerform ==
    ASSUME NEW n, NEW max, GoodDisk(disk, ragged, n, max), SoundWrites, ragged = {},
           NEW done, NEW thrown, NEW new \in Seq(EntryType), NEW truncate \in BOOLEAN,
           Perform(done, thrown, new, truncate),
           truncate /\ new = <<>> => Lines(done.file) = <<>>
    PROVE  \E k \in 0 .. Len(new) :
              /\ (k = Len(new) /\ mem' = done) \/ mem' = Down
              /\ IsWrite(done.file, IF truncate THEN <<>> ELSE Lines(done.file), new, k)
<1> DEFINE f == done.file
           base == IF truncate THEN <<>> ELSE Lines(f)
<1>1. PICK k \in 0 .. Len(new), rest \in Remains :
        /\ k = Len(new) => rest = "none"
        /\ \/ k = Len(new) /\ mem' = done
           \/ k < Len(new) /\ "throws" \in Faults /\ mem' = thrown
           \/ k < Len(new) /\ mem' = Down
        /\ IF new = <<>> \/ (Written(new, k, rest) = <<>> /\ ~truncate)
           THEN UNCHANGED <<disk, ragged>>
           ELSE /\ disk' = SetFile(f, IF truncate THEN Written(new, k, rest)
                                      ELSE AppendLines(f, Written(new, k, rest)))
                /\ ragged' = IF rest = "none" THEN ragged \ {f}
                                              ELSE ragged \cup {f}
  BY Zenon DEF Perform
<1>2. rest = "none" /\ ((k = Len(new) /\ mem' = done) \/ mem' = Down)
  BY <1>1 DEF SoundWrites, Remains
<1> DEFINE w == SubSeq(new, 1, k)
<1>3. Written(new, k, rest) = w /\ w \in Seq(EntryType)
  BY <1>1, <1>2, WrittenLines
<1>4. Lines(f) \in Seq(EntryType) /\ AppendLines(f, w) = Lines(f) \o w
  BY <1>3, AppendedLines
<1> HIDE DEF w
<1>5. base \in Seq(EntryType)
  <2>1. <<>> \in Seq(EntryType)
    OBVIOUS
  <2> QED
    BY <1>4, <2>1
<1>6. IsWrite(f, base, new, k)
  <2>1. CASE new = <<>> \/ (w = <<>> /\ ~truncate)
    <3>1. disk' = disk /\ ragged' = ragged
      BY <1>1, <1>3, <2>1
    <3>2. w = <<>>
      <4>1. CASE new = <<>>
        <5>1. Len(new) = 0 /\ k = 0
          BY <4>1
        <5> QED
          BY <5>1, PrefixWhole DEF w
      <4> QED
        BY <2>1, <4>1
    <3>3. base = Lines(f)
      BY <2>1
    <3>4. Lines(f) \o w = Lines(f)
      BY <1>4, <3>2, ConcatEmptySeq
    <3>5. LinesOf(disk', f) = base \o w
      BY <3>1, <3>3, <3>4, LinesAreLinesOf
    <3> QED
      BY <3>1, <3>5 DEF IsWrite, w
  <2>2. CASE ~(new = <<>> \/ (w = <<>> /\ ~truncate))
    <3>1. /\ disk' = SetFile(f, IF truncate THEN w ELSE Lines(f) \o w)
          /\ ragged' = ragged \ {f}
      BY <1>1, <1>2, <1>3, <1>4, <2>2
    <3>2. (IF truncate THEN w ELSE Lines(f) \o w) = base \o w
      <4>1. <<>> \o w = w
        BY <1>3, ConcatEmptySeq
      <4> QED
        BY <4>1
    <3> HIDE DEF base
    <3>3. disk' = [g \in DOMAIN disk \cup {f} |-> IF g = f THEN base \o w ELSE disk[g]]
      BY <3>1, <3>2 DEF SetFile
    <3>4. LinesOf(disk', f) = base \o w
      BY <3>3 DEF LinesOf
    <3>5. DOMAIN disk \subseteq DOMAIN disk'
          /\ \A g \in DOMAIN disk' : g # f => g \in DOMAIN disk /\ disk'[g] = disk[g]
      BY <3>3
    <3> QED
      BY <3>1, <3>4, <3>5 DEF IsWrite, w
  <2> QED
    BY <2>1, <2>2
<1> QED
  BY <1>2, <1>6

\* No file loses a line that was in it.
Grows ==
    \A f \in DOMAIN disk : f \in DOMAIN disk' /\ ToSet(disk[f]) \subseteq ToSet(disk'[f])

\* What a write of sound lines keeps.
LEMMA WriteIsSound ==
    ASSUME NEW n, NEW max, GoodDisk(disk, ragged, n, max),
           NEW kinds, AllSound(disk, kinds),
           NEW f, NEW base \in Seq(EntryType), NEW new \in Seq(EntryType),
           NEW k \in 0 .. Len(new), IsWrite(f, base, new, k),
           Sound(base \o SubSeq(new, 1, k), kinds),
           base = Lines(f) \/ Lines(f) = <<>>
    PROVE  ragged' = {} /\ AllSound(disk', kinds) /\ Grows
<1> DEFINE w == SubSeq(new, 1, k)
<1>1. w \in Seq(EntryType)
  BY PrefixElements
<1>2. ToSet(base \o w) = ToSet(base) \cup ToSet(w)
  BY <1>1, ConcatElements
<1> HIDE DEF w
<1>3. /\ ragged' = {} /\ LinesOf(disk', f) = base \o w /\ Sound(base \o w, kinds)
      /\ DOMAIN disk \subseteq DOMAIN disk'
      /\ \A g \in DOMAIN disk' : g # f => g \in DOMAIN disk /\ disk'[g] = disk[g]
  BY DEF IsWrite, w
<1>4. AllSound(disk', kinds)
  BY <1>3 DEF AllSound, LinesOf
<1>5. ASSUME NEW g \in DOMAIN disk
      PROVE  g \in DOMAIN disk' /\ ToSet(disk[g]) \subseteq ToSet(disk'[g])
  <2>1. CASE g # f
    BY <1>3, <2>1
  <2>2. CASE g = f
    <3>1. disk[g] = Lines(f) /\ disk'[g] = base \o w
      BY <1>3, <2>2 DEF Lines, LinesOf, Exists
    <3>2. ToSet(<<>>) = {}
      BY DEF ToSet
    <3> QED
      BY <1>2, <1>3, <2>2, <3>1, <3>2
  <2> QED
    BY <2>1, <2>2
<1> QED
  BY <1>3, <1>4, <1>5 DEF Grows

\* A step that ends as it should, or with the death of the process.
LEMMA DownIsKept ==
    ASSUME NEW d, NEW kinds
    PROVE  Kept(Down, d, kinds)
  BY DEF Kept, Down

LEMMA HeaderAlone ==
    ASSUME NEW kinds
    PROVE  /\ <<Header>> \in Seq(EntryType) /\ <<Header>> # <<>> /\ Sound(<<Header>>, kinds)
           /\ ~HasAssistant(<<Header>>) /\ LabelsOf(<<Header>>) = {}
           /\ Len(<<Header>>) = 1 /\ EntriesOf(<<Header>>) = {}
<1> DEFINE h == <<Header>>
<1>1. h \in Seq(EntryType) /\ ToSet(h) = {Header} /\ Len(h) = 1 /\ h[1] = Header
  BY HeaderType, FewElements
<1>2. DOMAIN h = {1} /\ h # <<>>
  OBVIOUS
<1> HIDE DEF h
<1>3. Header.kind # "assistant" /\ Header.kind # "label"
  BY DEF Header
<1>4. LabelsOf(h) = {} /\ ~HasAssistant(h)
  BY <1>1, <1>2, <1>3 DEF LabelsOf, HasAssistant
<1>5. Ordered(h)
  BY <1>1, <1>2, HeaderType DEF Ordered
<1>6. Sound(h, kinds) /\ EntriesOf(h) = {}
  BY <1>1, <1>5, HeaderType DEF Sound, Whole, EntriesOf
<1> QED
  BY <1>1, <1>2, <1>4, <1>6 DEF h

\* A session as it is opened, new or loaded.
LEMMA EmptySessionIsKept ==
    ASSUME NEW f, NEW d, NEW kinds, LinesOf(d, f) = <<>>
    PROVE  Kept(EmptySession(f), d, kinds)
<1> DEFINE h == <<Header>>
           m == EmptySession(f)
<1>1. m.file = f /\ m.entries = h /\ m.labels = {} /\ m.flushed = FALSE
  BY DEF EmptySession, Down
<1>2. /\ h \in Seq(EntryType) /\ h # <<>> /\ Sound(h, kinds)
      /\ ~HasAssistant(h) /\ LabelsOf(h) = {}
  BY HeaderAlone
<1> HIDE DEF h, m
<1>3. SubSeq(m.entries, 1, 0) = <<>> /\ 0 \in 0 .. Len(m.entries)
  BY <1>1, <1>2, PrefixWhole
<1>4. OnFile(m, LinesOf(d, f), 0)
  BY <1>1, <1>3 DEF OnFile
<1>5. Kept(m, d, kinds)
  BY <1>1, <1>2, <1>3, <1>4 DEF Kept
<1> QED
  BY <1>5 DEF m

LEMMA FlushedIsKept ==
    ASSUME NEW m, NEW d, NEW kinds, m.entries \in Seq(EntryType), m.entries # <<>>,
           Sound(m.entries, kinds), m.labels = LabelsOf(m.entries), m.flushed = TRUE,
           LinesOf(d, m.file) = m.entries
    PROVE  Kept(m, d, kinds)
<1>1. /\ SubSeq(m.entries, 1, 0) = <<>> /\ 0 \in 0 .. Len(m.entries)
      /\ <<>> \o m.entries = m.entries
  BY PrefixWhole, ConcatEmptySeq
<1>2. OnFile(m, LinesOf(d, m.file), 0)
  BY <1>1 DEF OnFile
<1> QED
  BY <1>1, <1>2 DEF Kept

LEMMA UnflushedIsKept ==
    ASSUME NEW m, NEW d, NEW kinds, m.entries \in Seq(EntryType), m.entries # <<>>,
           Sound(m.entries, kinds), m.labels = LabelsOf(m.entries), m.flushed = FALSE,
           ~HasAssistant(m.entries),
           NEW p \in 0 .. Len(m.entries), LinesOf(d, m.file) = SubSeq(m.entries, 1, p)
    PROVE  Kept(m, d, kinds)
<1>1. OnFile(m, LinesOf(d, m.file), p)
  BY DEF OnFile
<1> QED
  BY <1>1 DEF Kept

\* The label index is kept up to date entry by entry.
LEMMA LabelsOfAppend ==
    ASSUME NEW s \in Seq(EntryType), NEW e \in EntryType
    PROVE  LabelsOf(Append(s, e)) = Relabel(LabelsOf(s), e)
<1> DEFINE a == Append(s, e)
           N == Len(s)
           Stays(t, r, i, j) == t[i].kind = "label" /\ t[i].ref = r
                               /\ \A m \in i + 1 .. j : t[m].kind = "unlabel" => t[m].ref # r
<1>1. /\ a \in Seq(EntryType) /\ Len(a) = N + 1 /\ N \in Nat
      /\ (\A i \in 1 .. N : a[i] = s[i]) /\ a[N + 1] = e
  BY AppendElements
<1>2. DOMAIN a = 1 .. N + 1 /\ DOMAIN s = 1 .. N
  BY <1>1
<1> HIDE DEF a
<1>3. \A r : r \in LabelsOf(s) <=> \E i \in 1 .. N : Stays(s, r, i, N)
  BY <1>2 DEF LabelsOf
<1>4. \A r : r \in LabelsOf(a) <=> \E i \in 1 .. N + 1 : Stays(a, r, i, N + 1)
  BY <1>1, <1>2 DEF LabelsOf
<1> HIDE DEF N
<1>5. ASSUME NEW r, NEW i \in 1 .. N
      PROVE  Stays(a, r, i, N + 1) <=>
                Stays(s, r, i, N) /\ (e.kind = "unlabel" => e.ref # r)
  <2>1. i + 1 .. N + 1 = (i + 1 .. N) \cup {N + 1}
    BY <1>1
  <2>2. \A m \in i + 1 .. N : a[m] = s[m]
    BY <1>1
  <2>3. a[i] = s[i] /\ a[N + 1] = e
    BY <1>1
  <2> QED
    BY <2>1, <2>2, <2>3
<1>6. ASSUME NEW r PROVE Stays(a, r, N + 1, N + 1) <=> e.kind = "label" /\ e.ref = r
  <2>1. (N + 1) + 1 .. N + 1 = {} /\ a[N + 1] = e
    BY <1>1
  <2> QED
    BY <2>1
<1> HIDE DEF Stays
<1>7. 1 .. N + 1 = (1 .. N) \cup {N + 1}
  BY <1>1
<1>8. ASSUME NEW r
      PROVE  r \in LabelsOf(a) <=>
                \/ r \in LabelsOf(s) /\ (e.kind = "unlabel" => e.ref # r)
                \/ e.kind = "label" /\ e.ref = r
  BY <1>3, <1>4, <1>5, <1>6, <1>7
<1>9. LabelsOf(a) = Relabel(LabelsOf(s), e)
  BY <1>8 DEF Relabel
<1> QED
  BY <1>9 DEF a

-----------------------------------------------------------------------------
(***************************************************************************)
(* The steps.                                                              *)
(***************************************************************************)

StepIsSound ==
    SoundWrites =>
        ragged' = {} /\ AllSound(disk', Kinds) /\ Kept(mem', disk', Kinds) /\ Grows

LEMMA SoundFacts ==
    ASSUME TreeInv, FileInv, SoundWrites
    PROVE  /\ ragged = {} /\ AllSound(disk, Kinds) /\ Kept(mem, disk, Kinds)
           /\ GoodDisk(disk, ragged, nextId, MaxId)
           /\ mem \in MemType /\ mem.entries \in Seq(EntryType)
  BY DEF FileInv, TreeInv, GoodMem, MemType

\* A file that no session has written yet.
LEMMA FreshIsEmpty ==
    ASSUME NEW f, Fresh(f)
    PROVE  Lines(f) = <<>>
  BY FreshIsAFile DEF Lines, Exists

\* The entries known to a session are in its file once it has been flushed.
LEMMA AppendIsSound ==
    ASSUME TreeInv, FileInv, NEW e, IsAppendOf(e)
    PROVE  StepIsSound
<1> SUFFICES ASSUME SoundWrites
             PROVE  /\ ragged' = {} /\ AllSound(disk', Kinds)
                    /\ Kept(mem', disk', Kinds) /\ Grows
  BY DEF StepIsSound
<1> DEFINE E == mem.entries
           es == Append(E, e)
           f == mem.file
           has == HasAssistant(es)
           labels == Relabel(mem.labels, e)
           thrown == [mem EXCEPT !.entries = es, !.leaf = e.id]
           done == [thrown EXCEPT !.labels = Relabel(@, e), !.flushed = HasAssistant(es)]
           new == LinesToPersist(es, e)
           base == Lines(f)
<1>1. /\ Up /\ e \in EntryType /\ IsEntry(e) /\ e.kind \in Kinds
      /\ e.parent \in {0} \cup Ids(E) /\ Perform(done, thrown, new, FALSE)
  BY Zenon DEF IsAppendOf, AppendEntry
<1>2. /\ ragged = {} /\ AllSound(disk, Kinds) /\ Kept(mem, disk, Kinds)
      /\ GoodDisk(disk, ragged, nextId, MaxId)
      /\ mem \in MemType /\ E \in Seq(EntryType)
  BY SoundFacts
<1>3. /\ E # <<>> /\ Sound(E, Kinds) /\ mem.labels = LabelsOf(E)
      /\ HasAssistant(E) => mem.flushed
  BY <1>1, <1>2 DEF Kept, Up
<1>4. PICK p \in 0 .. Len(E) : OnFile(mem, base, p)
  BY <1>1, <1>2, LinesAreLinesOf DEF Kept, Up
<1>5. /\ es \in Seq(EntryType) /\ Len(es) = Len(E) + 1 /\ Len(E) \in Nat
      /\ has <=> HasAssistant(E) \/ e.kind = "assistant"
  BY <1>1, <1>2, AppendElements, HasAssistantAppend
<1>6. Sound(es, Kinds) /\ es # <<>>
  <2>1. Sound(es, Kinds)
    BY <1>1, <1>2, <1>3, SoundAppend
  <2>2. Len(<<>>) = 0
    OBVIOUS
  <2> QED
    BY <1>5, <2>1, <2>2
<1>7. labels = LabelsOf(es)
  BY <1>1, <1>2, <1>3, LabelsOfAppend
<1>8. /\ SubSeq(es, 1, p) = SubSeq(E, 1, p) /\ p \in 0 .. Len(es)
      /\ SubSeq(es, 1, Len(E)) = E /\ Len(E) \in 0 .. Len(es)
  <2>1. SubSeq(es, 1, p) = SubSeq(E, 1, p)
    BY <1>1, <1>2, PrefixOfAppend
  <2>2. Len(E) \in 0 .. Len(E)
    BY <1>5
  <2>3. SubSeq(es, 1, Len(E)) = SubSeq(E, 1, Len(E))
    BY <1>1, <1>2, <2>2, PrefixOfAppend
  <2>4. SubSeq(E, 1, Len(E)) = E
    BY <1>2, PrefixWhole
  <2> QED
    BY <1>5, <2>1, <2>3, <2>4
<1>9. new = IF ~has THEN <<>> ELSE IF mem.flushed THEN <<e>> ELSE es
  BY DEF LinesToPersist
<1>10. /\ done.file = f /\ done.entries = es /\ done.labels = labels
       /\ done.flushed = has
  BY <1>2 DEF MemType
<1>11. <<e>> \in Seq(EntryType) /\ Len(<<e>>) = 1
  BY <1>1, FewElements
<1> DEFINE one == <<e>>
<1> HIDE DEF es, done, thrown, labels, has, base, one
<1>12. new \in Seq(EntryType)
  BY <1>5, <1>9, <1>11 DEF one
<1> HIDE DEF new
<1>13. PICK k \in 0 .. Len(new) :
          /\ (k = Len(new) /\ mem' = done) \/ mem' = Down
          /\ IsWrite(f, base, new, k)
  <2>1. FALSE \in BOOLEAN
    OBVIOUS
  <2>2. \E k \in 0 .. Len(new) :
          /\ (k = Len(new) /\ mem' = done) \/ mem' = Down
          /\ IsWrite(done.file, IF FALSE THEN <<>> ELSE Lines(done.file), new, k)
    BY <1>1, <1>2, <1>12, <2>1, SoundPerform
  <2> QED
    BY <1>10, <2>2 DEF base
<1>14. base \in Seq(EntryType) /\ Sound(base, Kinds)
  <2>1. Sound(<<>>, Kinds)
    BY OrderedEmpty DEF Sound, Whole, ToSet
  <2> QED
    BY <1>2, <2>1, AppendedLines DEF base, Lines, Exists, AllSound
<1> DEFINE w == SubSeq(new, 1, k)
<1>15. w \in Seq(EntryType)
  BY <1>12, PrefixElements
<1>16. /\ Sound(base \o w, Kinds)
       /\ k = Len(new) => Kept(done, disk', Kinds)
  <2>1. LinesOf(disk', f) = base \o w
    BY <1>13 DEF IsWrite
  <2>2. CASE ~has
    <3>1. w = <<>>
      <4>1. new = <<>> /\ Len(<<>>) = 0
        BY <1>9, <2>2 DEF new
      <4>2. k = 0
        BY <4>1
      <4> QED
        BY <1>12, <4>2, PrefixWhole
    <3>2. base \o w = base
      BY <1>14, <3>1, ConcatEmptySeq
    <3>3. PICK q \in 0 .. Len(es) : base = SubSeq(es, 1, q)
      <4>1. CASE mem.flushed
        <5>1. p = 0
          BY <1>4, <1>5, <2>2, <4>1 DEF OnFile
        <5>2. base = <<>> \o E
          BY <1>2, <1>4, <4>1, <5>1, PrefixWhole DEF OnFile
        <5>3. base = E
          BY <1>2, <5>2, ConcatEmptySeq
        <5> QED
          BY <1>8, <5>3
      <4>2. CASE ~mem.flushed
        BY <1>4, <1>8, <4>2 DEF OnFile
      <4> QED
        BY <4>1, <4>2
    <3>4. done.flushed = FALSE /\ ~HasAssistant(es)
      BY <1>10, <2>2 DEF has
    <3>5. Kept(done, disk', Kinds)
      BY <1>5, <1>6, <1>7, <1>10, <2>1, <3>2, <3>3, <3>4, UnflushedIsKept
    <3> QED
      BY <1>14, <3>2, <3>5
  <2>3. CASE has /\ ~mem.flushed
    <3>1. new = es /\ base = SubSeq(es, 1, p)
      BY <1>4, <1>8, <1>9, <2>3 DEF OnFile, new
    <3>2. Sound(w, Kinds)
      BY <1>5, <1>6, <3>1, SoundPrefix
    <3>3. Sound(base \o w, Kinds)
      BY <1>14, <1>15, <3>2, SoundConcat
    <3>4. ASSUME k = Len(new) PROVE Kept(done, disk', Kinds)
      <4>1. w = es
        BY <1>5, <3>1, <3>4, PrefixWhole
      <4>2. OnFile(done, LinesOf(disk', f), p)
        BY <1>10, <2>1, <2>3, <3>1, <4>1 DEF OnFile, has
      <4> QED
        BY <1>6, <1>7, <1>8, <1>10, <2>3, <4>2 DEF Kept
    <3> QED
      BY <3>3, <3>4
  <2>4. CASE has /\ mem.flushed
    <3>1. new = one /\ base = SubSeq(E, 1, p) \o E
      BY <1>4, <1>9, <2>4 DEF OnFile, new, one
    <3>2. one \in Seq(EntryType) /\ Len(one) = 1
      BY <1>11 DEF one
    <3>3. k = 0 \/ k = 1
      BY <3>1, <3>2
    <3>4. CASE k = 0
      <4>1. w = <<>> /\ base \o w = base
        BY <1>12, <1>14, <3>4, PrefixWhole, ConcatEmptySeq
      <4>2. k # Len(new)
        BY <3>1, <3>2, <3>4
      <4> HIDE DEF w
      <4> QED
        BY <1>14, <4>1, <4>2
    <3>5. CASE k = 1
      <4>1. w = one
        BY <3>1, <3>2, <3>5, PrefixWhole
      <4> DEFINE first == SubSeq(E, 1, p)
      <4>2. first \in Seq(EntryType)
        BY <1>2, PrefixElements
      <4> HIDE DEF first
      <4>3. base = first \o E
        BY <3>1 DEF first
      <4>4. base \o one = Append(base, e)
        BY <1>1, <1>14 DEF one
      <4>5. base \o one = first \o es
        <5>1. E \in Seq(EntryType) /\ e \in EntryType
          BY <1>1, <1>2
        <5>2. first \o Append(E, e) = Append(first \o E, e)
          BY ONLY <5>1, <4>2
        <5> QED
          BY <4>3, <4>4, <5>2 DEF es
      <4>6. base # <<>>
        <5>1. Len(base) = Len(first) + Len(E) /\ Len(first) \in Nat /\ Len(E) > 0
          BY <1>2, <1>3, <4>2, <4>3
        <5>2. Len(<<>>) = 0
          OBVIOUS
        <5> QED
          BY <5>1, <5>2
      <4>7. Ids(E) \subseteq Ids(base)
        BY <1>2, <4>2, <4>3, EntriesOfConcat DEF Ids
      <4>8. Sound(Append(base, e), Kinds)
        BY <1>1, <1>14, <4>6, <4>7, SoundAppend
      <4>9. OnFile(done, LinesOf(disk', f), p)
        BY <1>8, <1>10, <2>1, <2>4, <4>1, <4>5 DEF OnFile, has, first
      <4>10. Kept(done, disk', Kinds)
        BY <1>6, <1>7, <1>8, <1>10, <2>4, <4>9 DEF Kept
      <4> QED
        BY <4>1, <4>4, <4>8, <4>10
    <3> QED
      BY <3>3, <3>4, <3>5
  <2> QED
    BY <2>2, <2>3, <2>4
<1>17. ragged' = {} /\ AllSound(disk', Kinds) /\ Grows
  BY <1>2, <1>12, <1>13, <1>14, <1>16, WriteIsSound DEF base
<1>18. Kept(mem', disk', Kinds)
  BY <1>13, <1>16, DownIsKept
<1> QED
  BY <1>17, <1>18

\* In an ordered sequence links lead nowhere but to an entry or the root.
Closed(own) ==
    \A e \in own : e.kind \notin LabelKinds /\ e.parent \in {0} \cup {x.id : x \in own}

LEMMA OrderedIsClosed ==
    ASSUME NEW es \in Seq(EntryType), Ordered(es)
    PROVE  Closed(EntriesOf(es))
<1> SUFFICES ASSUME NEW e \in EntriesOf(es)
             PROVE  e.kind \notin LabelKinds /\ e.parent \in {0} \cup Ids(es)
  BY DEF Closed, Ids
<1>1. PICK i \in DOMAIN es : e = es[i] /\ IsEntry(e)
  BY DEF EntriesOf, ToSet
<1>2. e.kind \notin LabelKinds /\ e.parent \in {0} \cup Ids(SubSeq(es, 1, i - 1))
  BY <1>1 DEF Ordered
<1>3. i - 1 \in 0 .. Len(es)
  OBVIOUS
<1>4. ToSet(SubSeq(es, 1, i - 1)) \subseteq ToSet(es)
  BY <1>3, PrefixElements
<1>5. Ids(SubSeq(es, 1, i - 1)) \subseteq Ids(es)
  BY <1>4 DEF Ids, EntriesOf
<1> QED
  BY <1>2, <1>5

\* The walk up from an entry passes parents before children.
LEMMA PathIsOrdered ==
    ASSUME NEW own, own \subseteq EntryType, \A x \in own : IsEntry(x), NEW n \in Nat,
           MaxId \in Nat, Given(own, n, MaxId), Closed(own)
    PROVE  \A l \in 0 .. MaxId :
              /\ Ordered(PathIn(own, l))
              /\ (\E e \in own : e.id = l) => l \in Ids(PathIn(own, l))
<1> DEFINE Known(i) == \E e \in own : e.id = i
           P(i) == PathIn(own, i)
           Good == {i \in 0 .. MaxId : Ordered(P(i)) /\ (Known(i) => i \in Ids(P(i)))}
<1>1. \A l \in 0 .. MaxId :
          /\ P(l) \in Seq(own)
          /\ Known(l) =>
                /\ ById(own, l) \in own /\ ById(own, l).id = l
                /\ ById(own, l).parent \in 0 .. MaxId /\ ById(own, l).parent < l
                /\ P(l) = Append(P(ById(own, l).parent), ById(own, l))
          /\ ~Known(l) => P(l) = <<>>
  BY Zenon, PathStep
<1> HIDE DEF P
<1>2. ASSUME NEW i \in 0 .. MaxId, \A k \in 0 .. i - 1 : k \in Good
      PROVE  i \in Good
  <2>1. CASE ~Known(i)
    BY <1>1, <2>1, OrderedEmpty
  <2>2. CASE Known(i)
    <3> DEFINE e == ById(own, i)
               up == e.parent
               path == P(up)
    <3>1. /\ e \in own /\ e.id = i /\ up \in 0 .. MaxId /\ up < i
          /\ P(i) = Append(path, e)
      BY <1>1, <2>2
    <3>2. path \in Seq(own) /\ path \in Seq(EntryType) /\ e \in EntryType
          /\ IsEntry(e)
      BY <1>1, <3>1
    <3>3. up \in 0 .. i - 1
      BY <3>1
    <3>4. Ordered(path) /\ (Known(up) => up \in Ids(path))
      BY <1>2, <3>3
    <3>5. e.kind \notin LabelKinds /\ up \in {0} \cup Ids(path)
      <4>1. e.kind \notin LabelKinds /\ up \in {0} \cup {x.id : x \in own}
        BY <3>1 DEF Closed
      <4> QED
        BY <3>4, <4>1
    <3> HIDE DEF e, path
    <3>6. Ordered(Append(path, e))
      BY <3>2, <3>4, <3>5, OrderedAppend
    <3>7. i \in Ids(Append(path, e))
      BY <3>1, <3>2, EntriesOfAppend DEF Ids
    <3> QED
      BY <3>1, <3>6, <3>7
  <2> QED
    BY <2>1, <2>2
<1>3. \A i \in 0 .. MaxId : i \in Good
  <2> HIDE DEF Good
  <2> QED
    BY <1>2, Upward
<1> QED
  BY <1>3 DEF P

LEMMA BranchedEntriesAreSound ==
    ASSUME TreeInv, FileInv, SoundWrites, Up, NEW l \in Ids(mem.entries)
    PROVE  Sound(BranchedEntries(l), Kinds) /\ BranchedEntries(l) # <<>>
<1> DEFINE E == mem.entries
           own == EntriesOf(E)
           full == Path(E, l)
           path == PathWithoutLabels(l)
           parent == IF path = <<>> THEN 0 ELSE Last(path).id
           targets == SetToSeq(LabelledOnPath(l))
           chain == LabelChain(targets, parent)
           head == <<Header>>
           begin == head \o path
           es == begin \o chain
<1>1. BranchedEntries(l) = es
  BY DEF BranchedEntries
<1>2. /\ full \in Seq(own) /\ path \in Seq(own) /\ own \subseteq EntryType
      /\ IsFiniteSet(LabelledOnPath(l)) /\ LabelledOnPath(l) \subseteq Nat
  BY PathType
<1>3. /\ nextId \in Nat \ {0} /\ MaxId \in Nat /\ Given(own, nextId, MaxId)
      /\ l \in 0 .. MaxId
  BY MaxIdType, IdsInRange DEF TreeInv, GoodMem
<1>4. /\ E \in Seq(EntryType) /\ Sound(E, Kinds) /\ mem.labels = LabelsOf(E)
  BY SoundFacts DEF Kept, Up
<1>5. \A x \in own : IsEntry(x)
  BY DEF EntriesOf
<1>6. targets \in Seq(Nat) /\ Len(targets) = Cardinality(LabelledOnPath(l))
  <2>1. targets \in Seq(LabelledOnPath(l)) /\ Len(targets) = Cardinality(LabelledOnPath(l))
    BY <1>2, SequenceOfSet
  <2> HIDE DEF targets
  <2> QED
    BY <1>2, <2>1
<1> HIDE DEF path, own, targets
<1>7. parent \in Nat /\ parent < nextId
  <2>1. CASE path = <<>>
    BY <1>3, <2>1
  <2>2. CASE path # <<>>
    <3>1. Last(path) \in own
      BY <1>2, <2>2, FrontThenLast
    <3> QED
      BY <1>3, <2>2, <3>1 DEF Given
  <2> QED
    BY <2>1, <2>2
<1> HIDE DEF parent
<1>8. chain \in Seq(EntryType) /\ \A e \in ToSet(chain) : e.kind = "label"
  BY <1>3, <1>6, <1>7, LabelChainType
<1>9. /\ head \in Seq(EntryType) /\ ToSet(head) = {Header} /\ Len(head) = 1
      /\ head[1] = Header
  BY HeaderType, FewElements
<1>10. Ordered(head)
  BY HeaderAlone, <1>9, HeaderType DEF Ordered
<1>11. path \in Seq(EntryType) /\ ToSet(path) \subseteq own
  BY <1>2 DEF ToSet
<1> HIDE DEF chain, head
<1>12. /\ begin \in Seq(EntryType) /\ ToSet(begin) = ToSet(head) \cup ToSet(path)
       /\ Len(begin) = Len(head) + Len(path)
       /\ \A i \in 1 .. Len(head) : begin[i] = head[i]
  BY <1>9, <1>11, ConcatElements
<1>13. begin[1] = Header /\ 1 \in 1 .. Len(begin)
  <2>1. Len(path) \in Nat
    BY <1>11
  <2> QED
    BY <1>9, <1>12, <2>1
<1>14. Ordered(path) => Ordered(begin)
  BY <1>9, <1>10, <1>11, OrderedConcat
<1> HIDE DEF begin
<1>15. /\ es \in Seq(EntryType) /\ ToSet(es) = ToSet(begin) \cup ToSet(chain)
       /\ Len(es) = Len(begin) + Len(chain)
       /\ \A i \in 1 .. Len(begin) : es[i] = begin[i]
  <2>1. begin \in Seq(EntryType) /\ chain \in Seq(EntryType)
    BY <1>8, <1>12
  <2> QED
    BY ONLY <2>1, ConcatElements
<1>16. es # <<>> /\ es[1] = Header
  <2>1. Len(chain) \in Nat /\ Len(<<>>) = 0
    BY <1>8
  <2> QED
    BY <1>13, <1>15, <2>1
<1>17. Garbled \notin ToSet(es)
  <2>1. Garbled \notin ToSet(head)
    BY <1>9, HeaderType
  <2>2. Garbled \notin ToSet(path)
    BY <1>5, <1>11, HeaderType
  <2>3. Garbled \notin ToSet(chain)
    BY <1>8 DEF Garbled
  <2> QED
    BY <1>12, <1>15, <2>1, <2>2, <2>3
<1>18. ASSUME Kinds \cap LabelKinds = {} PROVE Ordered(es)
  <2>1. Ordered(E)
    BY <1>4, <1>18 DEF Sound
  <2>2. Closed(own)
    BY <1>4, <2>1, OrderedIsClosed DEF own
  <2>3. LabelsOf(E) = {}
    BY <1>4, <2>1 DEF LabelsOf, Ordered, IsEntry, AllKinds, LabelKinds
  <2>4. chain = <<>>
    <3>1. LabelledOnPath(l) = {}
      BY <1>4, <2>3 DEF LabelledOnPath
    <3>2. Cardinality({}) = 0
      BY FS_EmptySet
    <3>3. targets = <<>>
      BY <1>6, <3>1, <3>2
    <3> QED
      BY <3>3 DEF chain, LabelChain
  <2>5. path = full
    <3> DEFINE kept == {e \in ToSet(full) : e.kind \notin LabelKinds}
    <3>1. ToSet(full) \subseteq own
      <4> HIDE DEF full
      <4> QED
        BY <1>2 DEF ToSet
    <3>2. ToSet(full) \subseteq kept
      BY <2>2, <3>1 DEF Closed
    <3>3. path = Filtered(full, kept)
      BY DEF path, PathWithoutLabels
    <3> HIDE DEF kept, full
    <3> QED
      BY <1>2, <3>2, <3>3, FilteredWhole
  <2>6. Ordered(full)
    <3>1. Ordered(PathIn(own, l))
      BY <1>2, <1>3, <1>5, <2>2, PathIsOrdered
    <3> QED
      BY <3>1 DEF Path, own
  <2>7. es = begin
    BY <1>12, <2>4, ConcatEmptySeq
  <2> QED
    BY <1>14, <2>5, <2>6, <2>7
<1> HIDE DEF es
<1>19. Sound(es, Kinds)
  BY <1>16, <1>17, <1>18 DEF Sound, Whole
<1> QED
  BY <1>1, <1>16, <1>19

LEMMA CreateBranchedSessionIsSound ==
    ASSUME TreeInv, FileInv, NEW l, NEW f, CreateBranchedSession(l, f)
    PROVE  StepIsSound
<1> SUFFICES ASSUME SoundWrites
             PROVE  /\ ragged' = {} /\ AllSound(disk', Kinds)
                    /\ Kept(mem', disk', Kinds) /\ Grows
  BY DEF StepIsSound
<1> DEFINE es == BranchedEntries(l)
           has == HasAssistant(es)
           done == [Loaded(f, es) EXCEPT !.flushed = has]
           thrown == [done EXCEPT !.flushed = mem.flushed]
           new == IF has THEN es ELSE <<>>
<1>1. /\ Up /\ l \in Ids(mem.entries) /\ Fresh(f) /\ \A e \in ToSet(es) : e.id <= MaxId
      /\ Perform(done, thrown, new, TRUE)
  BY Zenon DEF CreateBranchedSession
<1>2. es \in Seq(EntryType) /\ Sound(es, Kinds) /\ es # <<>>
  BY <1>1, BranchedEntriesAreGood, BranchedEntriesAreSound
<1>3. /\ ragged = {} /\ AllSound(disk, Kinds) /\ GoodDisk(disk, ragged, nextId, MaxId)
  BY SoundFacts
<1>4. Lines(f) = <<>>
  BY <1>1, FreshIsEmpty
<1>5. /\ done.file = f /\ done.entries = es /\ done.labels = LabelsOf(es)
      /\ done.flushed = has
  BY DEF Loaded
<1>6. new \in Seq(EntryType) /\ Sound(new, Kinds)
  <2>1. Sound(<<>>, Kinds) /\ <<>> \in Seq(EntryType)
    BY OrderedEmpty DEF Sound, Whole, ToSet
  <2> QED
    BY <1>2, <2>1
<1>7. has \in BOOLEAN
  BY DEF HasAssistant
<1> HIDE DEF es, done, thrown, has
<1>8. PICK k \in 0 .. Len(new) :
          /\ (k = Len(new) /\ mem' = done) \/ mem' = Down
          /\ IsWrite(f, <<>>, new, k)
  <2> DEFINE N == new
  <2>1. TRUE \in BOOLEAN /\ N \in Seq(EntryType)
    BY <1>6
  <2>2. Perform(done, thrown, N, TRUE)
    BY <1>1
  <2> HIDE DEF N
  <2>3. \E k \in 0 .. Len(N) :
          /\ (k = Len(N) /\ mem' = done) \/ mem' = Down
          /\ IsWrite(done.file, IF TRUE THEN <<>> ELSE Lines(done.file), N, k)
    BY <1>3, <1>4, <1>5, <2>1, <2>2, SoundPerform
  <2> QED
    BY <1>5, <2>3 DEF N
<1> DEFINE w == SubSeq(new, 1, k)
<1>9. w \in Seq(EntryType) /\ Sound(w, Kinds) /\ <<>> \o w = w
  <2> HIDE DEF new
  <2>1. w \in Seq(EntryType) /\ Sound(w, Kinds)
    BY <1>6, PrefixElements, SoundPrefix
  <2> QED
    BY <2>1, ConcatEmptySeq
<1>10. LinesOf(disk', f) = w
  BY <1>8, <1>9 DEF IsWrite
<1>11. ragged' = {} /\ AllSound(disk', Kinds) /\ Grows
  <2> HIDE DEF new
  <2>1. <<>> \in Seq(EntryType) /\ Sound(<<>> \o w, Kinds)
    BY <1>9
  <2> QED
    BY <1>3, <1>4, <1>6, <1>8, <2>1, WriteIsSound
<1>12. ASSUME k = Len(new) PROVE Kept(done, disk', Kinds)
  <2>1. w = new
    <3> HIDE DEF new
    <3> QED
      BY <1>6, <1>12, PrefixWhole
  <2>2. CASE has
    <3>1. done.flushed = TRUE
      BY <1>5, <1>7, <2>2
    <3> QED
      BY <1>2, <1>5, <1>10, <2>1, <2>2, <3>1, FlushedIsKept
  <2>3. CASE ~has
    <3>1. done.flushed = FALSE /\ ~HasAssistant(done.entries)
      BY <1>5, <1>7, <2>3 DEF has
    <3>2. 0 \in 0 .. Len(es) /\ SubSeq(es, 1, 0) = <<>>
      BY <1>2, PrefixWhole
    <3>3. LinesOf(disk', f) = SubSeq(es, 1, 0)
      BY <1>10, <2>1, <2>3, <3>2
    <3> QED
      BY <1>2, <1>5, <3>1, <3>2, <3>3, UnflushedIsKept
  <2> QED
    BY <2>2, <2>3
<1> QED
  BY <1>8, <1>11, <1>12, DownIsKept

LEMMA SetSessionFileIsSound ==
    ASSUME TreeInv, FileInv, NEW f \in Files, SetSessionFile(f)
    PROVE  StepIsSound
<1> SUFFICES ASSUME SoundWrites
             PROVE  /\ ragged' = {} /\ AllSound(disk', Kinds)
                    /\ Kept(mem', disk', Kinds) /\ Grows
  BY DEF StepIsSound
<1> DEFINE es == Load(Lines(f))
           empty == EmptySession(f)
           done == [empty EXCEPT !.flushed = TRUE]
           loaded == Loaded(f, es)
           new == <<Header>>
<1>1. (CASE ~Exists(f) -> mem' = empty /\ UNCHANGED <<disk, ragged>>
         [] Exists(f) /\ es = <<>> -> Perform(done, empty, new, TRUE)
         [] OTHER -> mem' = loaded /\ UNCHANGED <<disk, ragged>>)
  BY Zenon DEF SetSessionFile
<1>2. ragged = {} /\ AllSound(disk, Kinds) /\ GoodDisk(disk, ragged, nextId, MaxId)
  BY SoundFacts
<1>3. Lines(f) \in Seq(EntryType) /\ Sound(Lines(f), Kinds)
  <2>1. Sound(<<>>, Kinds) /\ <<>> \in Seq(EntryType)
    BY OrderedEmpty DEF Sound, Whole, ToSet
  <2> QED
    BY <1>2, <2>1 DEF AllSound, GoodDisk, Lines, Exists
<1>4. es = Lines(f)
  BY <1>3, LoadWhole DEF Sound
<1>5. /\ new \in Seq(EntryType) /\ new # <<>> /\ Sound(new, Kinds)
      /\ LabelsOf(new) = {} /\ Len(new) = 1
  BY HeaderAlone
<1>6. done.file = f /\ done.entries = new /\ done.labels = {} /\ done.flushed = TRUE
  BY DEF EmptySession, Down
<1>7. /\ loaded.file = f /\ loaded.entries = es /\ loaded.labels = LabelsOf(es)
      /\ loaded.flushed = TRUE
  BY DEF Loaded
<1> HIDE DEF es, empty, done, loaded, new
<1>8. CASE ~Exists(f)
  <2>1. mem' = empty /\ disk' = disk /\ ragged' = ragged
    BY <1>1, <1>8
  <2>2. LinesOf(disk, f) = <<>>
    BY <1>8 DEF LinesOf, Exists
  <2>3. Kept(empty, disk, Kinds)
    BY <2>2, EmptySessionIsKept DEF empty
  <2> QED
    BY <1>2, <2>1, <2>3 DEF Grows
<1>9. CASE Exists(f) /\ es = <<>>
  <2>1. Perform(done, empty, new, TRUE) /\ Lines(f) = <<>>
    BY <1>1, <1>4, <1>9
  <2>2. PICK k \in 0 .. Len(new) :
          /\ (k = Len(new) /\ mem' = done) \/ mem' = Down
          /\ IsWrite(f, <<>>, new, k)
    <3>1. TRUE \in BOOLEAN
      OBVIOUS
    <3>2. \E k \in 0 .. Len(new) :
          /\ (k = Len(new) /\ mem' = done) \/ mem' = Down
          /\ IsWrite(done.file, IF TRUE THEN <<>> ELSE Lines(done.file), new, k)
      BY <1>2, <1>5, <1>6, <2>1, <3>1, SoundPerform
    <3> QED
      BY <1>6, <3>2
  <2> DEFINE w == SubSeq(new, 1, k)
  <2>3. w \in Seq(EntryType) /\ Sound(w, Kinds) /\ <<>> \o w = w
    <3>1. w \in Seq(EntryType) /\ Sound(w, Kinds)
      BY <1>5, PrefixElements, SoundPrefix
    <3> QED
      BY <3>1, ConcatEmptySeq
  <2>4. ragged' = {} /\ AllSound(disk', Kinds) /\ Grows
    <3>1. <<>> \in Seq(EntryType) /\ Sound(<<>> \o w, Kinds)
      BY <2>3
    <3> QED
      BY <1>2, <1>5, <2>1, <2>2, <3>1, WriteIsSound
  <2>5. ASSUME k = Len(new) PROVE Kept(done, disk', Kinds)
    <3>1. w = new
      BY <1>5, <2>5, PrefixWhole
    <3>2. LinesOf(disk', f) = done.entries
      BY <1>6, <2>2, <2>3, <3>1 DEF IsWrite
    <3> QED
      BY <1>5, <1>6, <3>2, FlushedIsKept
  <2> QED
    BY <2>2, <2>4, <2>5, DownIsKept
<1>10. CASE Exists(f) /\ es # <<>>
  <2>1. mem' = loaded /\ disk' = disk /\ ragged' = ragged
    BY <1>1, <1>10
  <2>2. LinesOf(disk, f) = es
    BY <1>4, LinesAreLinesOf
  <2>3. Kept(loaded, disk, Kinds)
    BY <1>3, <1>4, <1>7, <1>10, <2>2, FlushedIsKept
  <2> QED
    BY <1>2, <2>1, <2>3 DEF Grows
<1> QED
  BY <1>8, <1>9, <1>10

LEMMA ForkFromIsSound ==
    ASSUME TreeInv, FileInv, NEW source, NEW f, ForkFrom(source, f)
    PROVE  StepIsSound
<1> SUFFICES ASSUME SoundWrites
             PROVE  /\ ragged' = {} /\ AllSound(disk', Kinds)
                    /\ Kept(mem', disk', Kinds) /\ Grows
  BY DEF StepIsSound
<1> DEFINE own == Load(Lines(source))
           kept == Filtered(own, EntriesOf(own))
           head == <<Header>>
           es == head \o kept
           done == Loaded(f, es)
<1>1. /\ source \in DOMAIN disk /\ Fresh(f) /\ Perform(done, mem, es, FALSE)
  BY Zenon DEF ForkFrom
<1>2. ragged = {} /\ AllSound(disk, Kinds) /\ GoodDisk(disk, ragged, nextId, MaxId)
  BY SoundFacts
<1>3. Lines(source) \in Seq(EntryType) /\ Sound(Lines(source), Kinds)
  BY <1>1, <1>2 DEF AllSound, GoodDisk, Lines, Exists
<1>4. own \in Seq(EntryType) /\ Sound(own, Kinds)
  BY <1>3, LoadWhole DEF Sound
<1>5. Lines(f) = <<>>
  BY <1>1, FreshIsEmpty
<1>6. /\ head \in Seq(EntryType) /\ ToSet(head) = {Header} /\ Len(head) = 1
      /\ head[1] = Header
  BY HeaderType, FewElements
<1>7. Ordered(head)
  BY <1>6, HeaderType DEF Ordered
<1> HIDE DEF own, head
<1>8. kept \in Seq(EntryType \cap EntriesOf(own))
  BY <1>4, FilteredElements
<1>9. Ordered(own) => Ordered(kept)
  BY <1>4, OrderedFiltered
<1> HIDE DEF kept
<1>10. kept \in Seq(EntryType) /\ \A e \in ToSet(kept) : IsEntry(e)
  BY <1>8 DEF EntriesOf, ToSet
<1>11. /\ es \in Seq(EntryType) /\ ToSet(es) = ToSet(head) \cup ToSet(kept)
       /\ Len(es) = Len(head) + Len(kept)
       /\ \A i \in 1 .. Len(head) : es[i] = head[i]
  BY <1>6, <1>10, ConcatElements
<1>12. es # <<>> /\ es[1] = Header
  <2>1. Len(kept) \in Nat /\ Len(<<>>) = 0
    BY <1>10
  <2> QED
    BY <1>6, <1>11, <2>1
<1>13. Ordered(own) => Ordered(es)
  BY <1>6, <1>7, <1>9, <1>10, OrderedConcat
<1>14. Garbled \notin ToSet(es)
  BY <1>6, <1>10, <1>11, HeaderType
<1> HIDE DEF es
<1>15. Sound(es, Kinds)
  BY <1>4, <1>12, <1>13, <1>14 DEF Sound, Whole
<1>16. /\ done.file = f /\ done.entries = es /\ done.labels = LabelsOf(es)
       /\ done.flushed = TRUE
  BY DEF Loaded
<1> HIDE DEF done
<1>17. PICK k \in 0 .. Len(es) :
          /\ (k = Len(es) /\ mem' = done) \/ mem' = Down
          /\ IsWrite(f, <<>>, es, k)
  <2>1. FALSE \in BOOLEAN
    OBVIOUS
  <2>2. \E k \in 0 .. Len(es) :
          /\ (k = Len(es) /\ mem' = done) \/ mem' = Down
          /\ IsWrite(done.file, IF FALSE THEN <<>> ELSE Lines(done.file), es, k)
    BY <1>1, <1>2, <1>11, <2>1, SoundPerform
  <2> QED
    BY <1>5, <1>16, <2>2
<1> DEFINE w == SubSeq(es, 1, k)
<1>18. w \in Seq(EntryType) /\ Sound(w, Kinds) /\ <<>> \o w = w
  <2>1. w \in Seq(EntryType) /\ Sound(w, Kinds)
    BY <1>11, <1>15, PrefixElements, SoundPrefix
  <2> QED
    BY <2>1, ConcatEmptySeq
<1>19. ragged' = {} /\ AllSound(disk', Kinds) /\ Grows
  <2>1. <<>> \in Seq(EntryType) /\ Sound(<<>> \o w, Kinds)
    BY <1>18
  <2> QED
    BY <1>2, <1>5, <1>11, <1>17, <2>1, WriteIsSound
<1>20. ASSUME k = Len(es) PROVE Kept(done, disk', Kinds)
  <2>1. w = es
    BY <1>11, <1>20, PrefixWhole
  <2>2. LinesOf(disk', f) = done.entries
    BY <1>16, <1>17, <1>18, <2>1 DEF IsWrite
  <2> QED
    BY <1>11, <1>12, <1>15, <1>16, <2>2, FlushedIsKept
<1> QED
  BY <1>17, <1>19, <1>20, DownIsKept

\* A step that writes nothing.
LEMMA QuietIsSound ==
    ASSUME TreeInv, FileInv, UNCHANGED <<disk, ragged>>,
           SoundWrites => Kept(mem', disk, Kinds)
    PROVE  StepIsSound
<1>1. disk' = disk /\ ragged' = ragged
  OBVIOUS
<1> QED
  BY <1>1, SoundFacts DEF StepIsSound, Grows

LEMMA StepsAreSound ==
    ASSUME TreeInv, FileInv, [Next]_vars
    PROVE  StepIsSound /\ scenario' = scenario
<1>1. CASE UNCHANGED vars
  <2>1. mem' = mem /\ UNCHANGED <<disk, ragged>> /\ scenario' = scenario
    BY <1>1 DEF vars
  <2> QED
    BY <2>1, QuietIsSound DEF FileInv
<1>2. CASE \E e : IsAppendOf(e)
  <2>1. PICK e : IsAppendOf(e)
    BY <1>2
  <2>2. scenario' = scenario
    BY <2>1 DEF IsAppendOf, AppendEntry
  <2> QED
    BY <2>1, <2>2, AppendIsSound
<1>3. CASE \E i : Branch(i)
  <2>1. PICK i : Branch(i)
    BY <1>3
  <2>2. /\ Up /\ mem' = [mem EXCEPT !.leaf = i] /\ UNCHANGED <<disk, ragged>>
        /\ scenario' = scenario
    BY <2>1 DEF Branch
  <2>3. ASSUME SoundWrites PROVE Kept(mem', disk, Kinds)
    <3>1. mem \in MemType /\ Kept(mem, disk, Kinds)
      BY <2>3, SoundFacts
    <3>2. /\ mem'.file = mem.file /\ mem'.entries = mem.entries
          /\ mem'.labels = mem.labels /\ mem'.flushed = mem.flushed
      BY <2>2, <3>1 DEF MemType
    <3> QED
      BY <3>1, <3>2 DEF Kept, OnFile
  <2> QED
    BY <2>2, <2>3, QuietIsSound
<1>4. CASE \E f \in Files : NewSession(f)
  <2>1. PICK f \in Files : NewSession(f)
    BY <1>4
  <2>2. /\ Fresh(f) /\ mem' = EmptySession(f) /\ UNCHANGED <<disk, ragged>>
        /\ scenario' = scenario
    BY <2>1 DEF NewSession
  <2>3. LinesOf(disk, f) = <<>>
    BY <2>2, FreshIsEmpty, LinesAreLinesOf
  <2>4. Kept(mem', disk, Kinds)
    BY <2>2, <2>3, EmptySessionIsKept
  <2> QED
    BY <2>2, <2>4, QuietIsSound
<1>5. CASE \E f \in Files : SetSessionFile(f)
  BY <1>5, SetSessionFileIsSound DEF SetSessionFile
<1>6. CASE \E l, f : CreateBranchedSession(l, f)
  <2>1. PICK l, f : CreateBranchedSession(l, f)
    BY <1>6
  <2>2. scenario' = scenario
    BY <2>1 DEF CreateBranchedSession
  <2> QED
    BY <2>1, <2>2, CreateBranchedSessionIsSound
<1>7. CASE \E f, g : ForkFrom(f, g)
  <2>1. PICK f, g : ForkFrom(f, g)
    BY <1>7
  <2>2. scenario' = scenario
    BY <2>1 DEF ForkFrom
  <2> QED
    BY <2>1, <2>2, ForkFromIsSound
<1>8. CASE Exit
  <2>1. mem' = Down /\ UNCHANGED <<disk, ragged>> /\ scenario' = scenario
    BY <1>8 DEF Exit
  <2> QED
    BY <2>1, DownIsKept, QuietIsSound
<1> QED
  BY Zenon, StepKinds, <1>1, <1>2, <1>3, <1>4, <1>5, <1>6, <1>7, <1>8

LEMMA StepKeepsFiles ==
    ASSUME TreeInv, FileInv, [Next]_vars
    PROVE  FileInv'
<1>1. StepIsSound /\ scenario' = scenario
  BY StepsAreSound
<1>2. Kinds' = Kinds /\ (SoundWrites' <=> SoundWrites)
  BY <1>1 DEF Kinds, SoundWrites, Faults
<1> QED
  BY <1>1, <1>2 DEF FileInv, StepIsSound

LEMMA InitFiles == Init => FileInv
<1> SUFFICES ASSUME Init PROVE FileInv
  OBVIOUS
<1>1. \A f \in DOMAIN disk : disk[f] = <<>>
  BY DEF Init
<1>2. Sound(<<>>, Kinds)
  BY OrderedEmpty DEF Sound, Whole, ToSet
<1>3. Kept(mem, disk, Kinds)
  BY DownIsKept DEF Init
<1> QED
  BY <1>1, <1>2, <1>3 DEF FileInv, AllSound, Init

LEMMA AlwaysFiles == Spec => [](TreeInv /\ FileInv)
  BY InitTree, InitFiles, StepKeepsTree, StepKeepsFiles, PTL DEF Spec

-----------------------------------------------------------------------------
(***************************************************************************)
(* What the invariants say of the properties.                              *)
(***************************************************************************)

LEMMA FileFacts ==
    ASSUME TreeInv, FileInv, SoundWrites, NEW f \in DOMAIN disk
    PROVE  /\ disk[f] \in Seq(EntryType) /\ Load(disk[f]) = disk[f]
           /\ Sound(disk[f], Kinds)
<1>1. disk[f] \in Seq(EntryType) /\ Sound(disk[f], Kinds)
  BY SoundFacts DEF AllSound, GoodDisk
<1> QED
  BY <1>1, LoadWhole DEF Sound

LEMMA InvariantsGiveTree == TreeInv /\ FileInv => TreeIsSound
<1> SUFFICES ASSUME TreeInv, FileInv PROVE TreeIsSound
  OBVIOUS
<1>1. LeafKnown
  BY DEF LeafKnown, TreeInv, GoodMem
<1>2. Acyclic
  BY DEF Acyclic, TreeInv, GoodMem, GoodDisk, Given
<1>3. ParentsInMemory
  <2> SUFFICES ASSUME SoundLinks, NEW e \in EntriesOf(mem.entries)
               PROVE  e.parent \in {0} \cup Ids(mem.entries)
    BY DEF ParentsInMemory
  <2>1. Kept(mem, disk, Kinds) /\ mem.entries \in Seq(EntryType) /\ mem \in MemType
    BY SoundFacts DEF SoundLinks
  <2>2. mem.entries # <<>>
    BY DEF EntriesOf, ToSet
  <2>3. Ordered(mem.entries)
    BY <2>1, <2>2 DEF Kept, Sound, SoundLinks
  <2>4. Closed(EntriesOf(mem.entries))
    BY <2>1, <2>3, OrderedIsClosed
  <2> QED
    BY <2>4 DEF Closed, Ids
<1>4. ParentsOnDisk
  <2> SUFFICES ASSUME SoundLinks, NEW f \in DOMAIN disk, NEW e \in EntriesOf(Load(disk[f]))
               PROVE  e.parent \in {0} \cup Ids(Load(disk[f]))
    BY DEF ParentsOnDisk
  <2>1. /\ disk[f] \in Seq(EntryType) /\ Load(disk[f]) = disk[f]
        /\ Sound(disk[f], Kinds)
    BY FileFacts DEF SoundLinks
  <2>2. Ordered(disk[f])
    BY <2>1 DEF Sound, SoundLinks
  <2>3. Closed(EntriesOf(disk[f]))
    BY <2>1, <2>2, OrderedIsClosed
  <2> QED
    BY <2>1, <2>3 DEF Closed, Ids
<1> QED
  BY <1>1, <1>2, <1>3, <1>4 DEF TreeIsSound

LEMMA StepLosesNothing ==
    ASSUME TreeInv, FileInv, TreeInv', FileInv', [Next]_vars, SoundWrites,
           NEW f \in DOMAIN disk
    PROVE  f \in DOMAIN disk' /\ ToSet(Load(disk[f])) \subseteq ToSet(Load(disk'[f]))
<1>1. StepIsSound /\ scenario' = scenario
  BY StepsAreSound
<1>2. Grows /\ AllSound(disk', Kinds)
  BY <1>1 DEF StepIsSound
<1>3. f \in DOMAIN disk' /\ ToSet(disk[f]) \subseteq ToSet(disk'[f])
  BY <1>2 DEF Grows
<1>4. Load(disk[f]) = disk[f]
  BY FileFacts
<1>5. disk'[f] \in Seq(EntryType) /\ Whole(disk'[f])
  BY <1>2, <1>3 DEF AllSound, Sound, TreeInv, GoodDisk
<1>6. Load(disk'[f]) = disk'[f]
  BY <1>5, LoadWhole
<1> QED
  BY <1>3, <1>4, <1>6

-----------------------------------------------------------------------------
(***************************************************************************)
(* A file that repeats the first entries of the session before all of them *)
(* reads like the session.                                                 *)
(***************************************************************************)

LEMMA LabelsOfRepeated ==
    ASSUME NEW es \in Seq(EntryType), NEW p \in 0 .. Len(es)
    PROVE  LabelsOf(SubSeq(es, 1, p) \o es) = LabelsOf(es)
<1> DEFINE P == SubSeq(es, 1, p)
           L == P \o es
           N == Len(es)
           Counts(s, n) == /\ s[n].kind = "label"
                           /\ \A m \in n + 1 .. Len(s) :
                                 s[m].kind = "unlabel" => s[m].ref # s[n].ref
<1>1. P \in Seq(EntryType) /\ Len(P) = p /\ \A i \in 1 .. p : P[i] = es[i]
  BY PrefixElements
<1>2. N \in Nat /\ p \in Nat /\ p <= N
  OBVIOUS
<1> HIDE DEF P, N
<1>3. /\ L \in Seq(EntryType) /\ Len(L) = p + N
      /\ \A i \in 1 .. p : L[i] = es[i]
      /\ \A i \in 1 .. N : L[p + i] = es[i]
  <2>1. P \in Seq(EntryType) /\ es \in Seq(EntryType)
    BY <1>1
  <2>2. /\ L \in Seq(EntryType) /\ Len(L) = Len(P) + Len(es)
        /\ \A i \in 1 .. Len(P) : L[i] = P[i]
        /\ \A i \in 1 .. Len(es) : L[Len(P) + i] = es[i]
    BY ONLY <2>1, ConcatElements
  <2> QED
    BY <1>1, <2>2 DEF N
<1>4. DOMAIN L = 1 .. p + N /\ DOMAIN es = 1 .. N /\ Len(es) = N
  BY <1>2, <1>3 DEF N
<1> HIDE DEF L
<1>5. ASSUME NEW n \in 1 .. N PROVE Counts(es, n) <=> Counts(L, p + n)
  <2>1. L[p + n] = es[n]
    BY <1>3
  <2>2. ASSUME Counts(es, n), NEW m \in (p + n) + 1 .. Len(L)
        PROVE  L[m].kind = "unlabel" => L[m].ref # L[p + n].ref
    <3>1. m - p \in n + 1 .. N /\ m - p \in 1 .. N /\ p + (m - p) = m
      BY <1>2, <1>3
    <3>2. L[m] = es[m - p]
      BY <1>3, <3>1
    <3> QED
      BY <1>4, <2>1, <2>2, <3>1, <3>2
  <2>3. ASSUME Counts(L, p + n), NEW m \in n + 1 .. N
        PROVE  es[m].kind = "unlabel" => es[m].ref # es[n].ref
    <3>1. p + m \in (p + n) + 1 .. Len(L) /\ m \in 1 .. N
      BY <1>2, <1>3
    <3>2. L[p + m] = es[m]
      BY <1>3, <3>1
    <3> QED
      BY <2>1, <2>3, <3>1, <3>2
  <2> QED
    BY <1>4, <2>1, <2>2, <2>3
<1>6. ASSUME NEW n \in 1 .. p, Counts(L, n) PROVE Counts(es, n)
  <2>1. L[n] = es[n]
    BY <1>3
  <2>2. ASSUME NEW m \in n + 1 .. N
        PROVE  es[m].kind = "unlabel" => es[m].ref # es[n].ref
    <3>1. p + m \in n + 1 .. Len(L) /\ m \in 1 .. N
      BY <1>2, <1>3
    <3>2. L[p + m] = es[m]
      BY <1>3, <3>1
    <3> QED
      BY <1>6, <2>1, <3>1, <3>2
  <2> QED
    BY <1>4, <1>6, <2>1, <2>2
<1> DEFINE A == {n \in 1 .. p + N : Counts(L, n)}
           B == {n \in 1 .. N : Counts(es, n)}
<1>7. LabelsOf(L) = {L[n].ref : n \in A} /\ LabelsOf(es) = {es[n].ref : n \in B}
  BY <1>4 DEF LabelsOf
<1> HIDE DEF Counts
<1>8. ASSUME NEW n \in B PROVE \E k \in A : L[k].ref = es[n].ref
  <2>1. p + n \in 1 .. p + N
    BY <1>2
  <2>2. p + n \in A
    BY <1>5, <2>1
  <2> QED
    BY <1>3, <2>2
<1>9. ASSUME NEW k \in A PROVE \E n \in B : es[n].ref = L[k].ref
  <2>1. CASE k \in 1 .. p
    <3>1. k \in 1 .. N
      BY <1>2, <2>1
    <3> QED
      BY <1>3, <1>6, <2>1, <3>1
  <2>2. CASE k \notin 1 .. p
    <3>1. k - p \in 1 .. N /\ p + (k - p) = k
      BY <1>2, <2>2
    <3> QED
      BY <1>3, <1>5, <3>1
  <2> QED
    BY <2>1, <2>2
<1> HIDE DEF A, B
<1>10. {L[n].ref : n \in A} = {es[n].ref : n \in B}
  BY <1>8, <1>9
<1>11. LabelsOf(L) = LabelsOf(es)
  BY <1>7, <1>10
<1> QED
  BY <1>11 DEF L, P

LEMMA EntriesRepeated ==
    ASSUME NEW es \in Seq(EntryType), NEW p \in 0 .. Len(es)
    PROVE  EntriesOf(SubSeq(es, 1, p) \o es) = EntriesOf(es)
<1>1. SubSeq(es, 1, p) \in Seq(EntryType) /\ ToSet(SubSeq(es, 1, p)) \subseteq ToSet(es)
  BY PrefixElements
<1>2. EntriesOf(SubSeq(es, 1, p) \o es) = EntriesOf(SubSeq(es, 1, p)) \cup EntriesOf(es)
  BY <1>1, EntriesOfConcat
<1> QED
  BY <1>1, <1>2 DEF EntriesOf

LEMMA LastIdRepeated ==
    ASSUME NEW es \in Seq(EntryType), NEW p \in 0 .. Len(es)
    PROVE  LastId(SubSeq(es, 1, p) \o es) = LastId(es)
<1> DEFINE P == SubSeq(es, 1, p)
           L == P \o es
           own == EntriesOf(es)
           a == Filtered(P, own)
           b == Filtered(es, own)
<1>1. P \in Seq(EntryType) /\ ToSet(P) \subseteq ToSet(es)
  BY PrefixElements
<1>2. EntriesOf(L) = own
  BY EntriesRepeated
<1> HIDE DEF P, own
<1>3. Filtered(L, own) = a \o b
  BY <1>1, FilteredConcat
<1>4. /\ a \in Seq(EntryType \cap own) /\ ToSet(a) = ToSet(P) \cap own
      /\ b \in Seq(EntryType \cap own) /\ ToSet(b) = ToSet(es) \cap own
  BY <1>1, FilteredElements
<1> HIDE DEF L, a, b
<1>5. LastId(L) = IF a \o b = <<>> THEN 0 ELSE Last(a \o b).id
  BY <1>2, <1>3 DEF LastId
<1>6. LastId(es) = IF b = <<>> THEN 0 ELSE Last(b).id
  BY DEF LastId, own, b
<1>7. CASE b = <<>>
  <2>1. ToSet(a) = {}
    <3>1. ToSet(b) = {}
      BY <1>7 DEF ToSet
    <3> QED
      BY <1>1, <1>4, <3>1
  <2>2. a = <<>>
    <3>1. a # <<>> => 1 \in DOMAIN a
      BY <1>4
    <3> QED
      BY <2>1, <3>1 DEF ToSet
  <2>3. a \o b = <<>>
    BY <1>7, <2>2
  <2> QED
    BY <1>5, <1>6, <1>7, <2>3 DEF L, P
<1>8. CASE b # <<>>
  <2>1. /\ Len(a \o b) = Len(a) + Len(b) /\ Len(a) \in Nat /\ Len(b) \in Nat
        /\ \A i \in 1 .. Len(b) : (a \o b)[Len(a) + i] = b[i]
    <3>1. Len(a) \in Nat /\ Len(b) \in Nat
      BY <1>4
    <3> QED
      BY <1>4, <3>1, ConcatElements
  <2>2. Len(b) > 0
    BY <1>4, <1>8
  <2>3. a \o b # <<>> /\ Last(a \o b) = Last(b)
    <3>1. Len(b) \in 1 .. Len(b)
      BY <2>1, <2>2
    <3>2. (a \o b)[Len(a) + Len(b)] = b[Len(b)]
      BY <2>1, <3>1
    <3>3. Len(a \o b) # 0
      BY <2>1, <2>2
    <3>4. Len(<<>>) = 0
      OBVIOUS
    <3> QED
      BY <2>1, <3>2, <3>3, <3>4 DEF Last
  <2> QED
    BY <1>5, <1>6, <1>8, <2>3 DEF L, P
<1> QED
  BY <1>7, <1>8

LEMMA InvariantsGiveReopen == TreeInv /\ FileInv => ReopenIsSame
<1> SUFFICES ASSUME TreeInv, FileInv, SoundWrites, Up, HasAssistant(mem.entries)
             PROVE  /\ EntriesOf(Load(Lines(mem.file))) = EntriesOf(mem.entries)
                    /\ LabelsOf(Load(Lines(mem.file))) = mem.labels
                    /\ LastId(Load(Lines(mem.file))) = LastId(mem.entries)
                    /\ \A i \in Ids(Load(Lines(mem.file))) :
                          Context(Load(Lines(mem.file)), i) = Context(mem.entries, i)
  BY Zenon DEF ReopenIsSame
<1> DEFINE es == mem.entries
           file == Load(Lines(mem.file))
<1>1. es \in Seq(EntryType) /\ Kept(mem, disk, Kinds) /\ AllSound(disk, Kinds)
  BY SoundFacts
<1>2. mem.flushed /\ mem.labels = LabelsOf(es) /\ es # <<>>
  BY <1>1 DEF Kept, Up
<1>3. PICK p \in 0 .. Len(es) : OnFile(mem, LinesOf(disk, mem.file), p)
  BY <1>1 DEF Kept, Up
<1>4. Lines(mem.file) = SubSeq(es, 1, p) \o es
  BY <1>2, <1>3, LinesAreLinesOf DEF OnFile
<1>5. mem.file \in DOMAIN disk
  <2>1. Len(es) \in Nat /\ Len(es) # 0
    BY <1>1, <1>2
  <2>2. SubSeq(es, 1, p) \in Seq(EntryType)
    BY <1>1, PrefixElements
  <2>3. Len(SubSeq(es, 1, p) \o es) = Len(SubSeq(es, 1, p)) + Len(es)
        /\ Len(SubSeq(es, 1, p)) \in Nat
    <3> DEFINE P == SubSeq(es, 1, p)
    <3>1. P \in Seq(EntryType) /\ es \in Seq(EntryType)
      BY <1>1, <2>2
    <3> HIDE DEF P, es
    <3>2. Len(P \o es) = Len(P) + Len(es) /\ Len(P) \in Nat
      BY ONLY <3>1, ConcatElements
    <3> QED
      BY <3>2 DEF P
  <2> DEFINE lines == SubSeq(es, 1, p) \o es
             n == Len(SubSeq(es, 1, p))
             k == Len(es)
  <2>4. Len(lines) = n + k /\ n \in Nat /\ k \in Nat /\ k # 0
    BY <2>1, <2>3
  <2>5. Lines(mem.file) = lines
    BY <1>4
  <2> HIDE DEF lines, n, k
  <2>6. Len(lines) # 0 /\ Len(<<>>) = 0
    BY <2>4
  <2>7. Lines(mem.file) # <<>>
    BY <2>5, <2>6
  <2> QED
    BY <2>7 DEF Lines, Exists
<1>6. file = SubSeq(es, 1, p) \o es
  BY <1>4, <1>5, FileFacts DEF Lines, Exists
<1>7. /\ EntriesOf(file) = EntriesOf(es) /\ LabelsOf(file) = LabelsOf(es)
      /\ LastId(file) = LastId(es)
  BY <1>1, <1>6, EntriesRepeated, LabelsOfRepeated, LastIdRepeated
<1>8. \A i : Context(file, i) = Context(es, i)
  BY <1>7 DEF Context, Path
<1> QED
  BY <1>2, <1>7, <1>8

\* The leaf of a session is null or one of its entries, the links go back in
\* time and never into nothing, in memory and in every file: for any number of
\* files and entries, wherever the process dies.
THEOREM TreeIsSoundAlways == Spec => []TreeIsSound
  BY AlwaysFiles, InvariantsGiveTree, PTL

\* A step makes no entry unreadable that could be loaded before it.
THEOREM NothingLostAlways == Spec => NothingLost
<1> DEFINE Inv == TreeInv /\ FileInv
           Step == SoundWrites => \A f \in DOMAIN disk :
                      f \in DOMAIN disk' /\ ToSet(Load(disk[f])) \subseteq ToSet(Load(disk'[f]))
<1>1. Spec => []Inv
  BY AlwaysFiles
<1>2. Inv /\ Inv' /\ [Next]_vars => Step
  BY StepLosesNothing
<1> HIDE DEF Inv
<1> QED
  BY <1>1, <1>2, PTL DEF Spec, NothingLost

\* From the first assistant message on, a process that opens the file finds
\* the entries, the labels, the leaf and the contexts of this session, however
\* often a fork or a branched session had been written to the file before.
THEOREM ReopenIsSameAlways == Spec => []ReopenIsSame
  BY AlwaysFiles, InvariantsGiveReopen, PTL

(***************************************************************************)
(* Contexts of paths.                                                      *)
(***************************************************************************)
LEMMA LeastOne ==
    ASSUME NEW n \in Nat, NEW S \in SUBSET (1 .. n), S # {}
    PROVE  Min(S) \in S /\ \A y \in S : Min(S) <= y
<1> DEFINE P == {k \in 0 .. n : k \in S => \E x \in S : \A y \in S : x <= y}
<1>1. ASSUME NEW k \in 0 .. n, \A j \in 0 .. k - 1 : j \in P PROVE k \in P
  <2> SUFFICES ASSUME k \in S PROVE \E x \in S : \A y \in S : x <= y
    OBVIOUS
  <2>1. CASE \E j \in 0 .. k - 1 : j \in S
    BY <1>1, <2>1
  <2>2. CASE \A j \in 0 .. k - 1 : j \notin S
    <3>1. \A y \in S : y \in 1 .. n /\ ~(y < k)
      BY <2>2
    <3> QED
      BY <3>1
  <2> QED
    BY <2>1, <2>2
<1>2. \A k \in 0 .. n : k \in P
  <2> HIDE DEF P
  <2> QED
    BY <1>1, Upward
<1>3. PICK z \in S : TRUE
  OBVIOUS
<1>4. z \in 0 .. n
  OBVIOUS
<1>5. \E x \in S : \A y \in S : x <= y
  BY <1>2, <1>3, <1>4
<1> QED
  BY <1>5 DEF Min

\* The messages of a path: an entry more.
LEMMA MessagesOfAppend ==
    ASSUME NEW p \in Seq(EntryType), NEW e \in EntryType
    PROVE  /\ MessagesOf(p) \in Seq(Nat)
           /\ MessagesOf(Append(p, e)) =
                 MessagesOf(p) \o (IF e.kind \in MessageKinds THEN <<e.id>> ELSE <<>>)
<1> DEFINE K == {x \in EntryType : x.kind \in MessageKinds}
           mine(q) == {x \in ToSet(q) : x.kind \in MessageKinds}
           M(own) == [i \in DOMAIN own |-> own[i].id]
<1>1. ASSUME NEW q \in Seq(EntryType)
      PROVE  MessagesOf(q) = M(Filtered(q, K)) /\ Filtered(q, K) \in Seq(EntryType)
  <2>1. ToSet(q) \cap mine(q) = ToSet(q) \cap K
    BY DEF ToSet
  <2>2. Filtered(q, mine(q)) = Filtered(q, K)
    <3> DEFINE S == mine(q)
    <3>1. ToSet(q) \cap S = ToSet(q) \cap K
      BY <2>1
    <3> HIDE DEF S, K
    <3>2. Filtered(q, S) = Filtered(q, K)
      BY <3>1, FilteredSame
    <3> QED
      BY <3>2 DEF S
  <2>3. MessagesOf(q) = M(Filtered(q, mine(q)))
    BY DEF MessagesOf
  <2>4. Filtered(q, K) \in Seq(EntryType \cap K)
    <3> HIDE DEF K
    <3> QED
      BY FilteredElements
  <2>5. Filtered(q, K) \in Seq(EntryType)
    <3> DEFINE r == Filtered(q, K)
    <3>1. r \in Seq(EntryType \cap K)
      BY <2>4
    <3> HIDE DEF r, K
    <3>2. r \in Seq(EntryType)
      BY <3>1
    <3> QED
      BY <3>2 DEF r
  <2> QED
    BY <2>2, <2>3, <2>5
<1>2. p \in Seq(EntryType) /\ Append(p, e) \in Seq(EntryType)
  BY AppendElements
<1> DEFINE f == Filtered(p, K)
           g == Filtered(Append(p, e), K)
<1>3. MessagesOf(p) = M(f) /\ MessagesOf(Append(p, e)) = M(g) /\ f \in Seq(EntryType)
  BY <1>1, <1>2
<1>4. g = IF e \in K THEN Append(f, e) ELSE f
  <2> HIDE DEF K
  <2> QED
    BY FilteredAppend
<1>5. e \in K <=> e.kind \in MessageKinds
  OBVIOUS
<1>6. e.id \in Nat
  BY DEF EntryType
<1> HIDE DEF f, g, K
<1>7. M(f) \in Seq(Nat)
  <2>1. f \in Seq(EntryType)
    BY <1>3
  <2>2. DOMAIN f = 1 .. Len(f) /\ Len(f) \in Nat /\ \A i \in 1 .. Len(f) : f[i] \in EntryType
    BY ONLY <2>1
  <2>3. \A i \in DOMAIN f : f[i].id \in Nat
    BY <2>2 DEF EntryType
  <2> QED
    BY <2>2, <2>3
<1>8. M(Append(f, e)) = M(f) \o <<e.id>>
  <2> DEFINE a == Append(f, e)
             m == M(f)
             r == m \o <<e.id>>
  <2>1. a \in Seq(EntryType) /\ Len(a) = Len(f) + 1 /\ a[Len(f) + 1] = e
        /\ \A i \in 1 .. Len(f) : a[i] = f[i]
    BY <1>3, AppendElements
  <2>2. m \in Seq(Nat) /\ Len(m) = Len(f) /\ Len(f) \in Nat
        /\ \A i \in 1 .. Len(f) : m[i] = f[i].id
    BY <1>3, <1>7
  <2>3. <<e.id>> \in Seq(Nat) /\ Len(<<e.id>>) = 1 /\ <<e.id>>[1] = e.id
    BY <1>6
  <2> HIDE DEF a, m
  <2>4. /\ r \in Seq(Nat) /\ Len(r) = Len(f) + 1 /\ r[Len(f) + 1] = e.id
        /\ \A i \in 1 .. Len(f) : r[i] = m[i]
    <3> DEFINE o == <<e.id>>
    <3>1. m \in Seq(Nat) /\ o \in Seq(Nat)
      BY <2>2, <2>3
    <3>2. Len(m) = Len(f) /\ Len(o) = 1 /\ o[1] = e.id
      BY <2>2, <2>3
    <3> HIDE DEF o
    <3>3. /\ m \o o \in Seq(Nat) /\ Len(m \o o) = Len(m) + Len(o)
          /\ \A i \in 1 .. Len(m) : (m \o o)[i] = m[i]
          /\ \A i \in 1 .. Len(o) : (m \o o)[Len(m) + i] = o[i]
      BY ONLY <3>1, ConcatElements
    <3> QED
      BY <2>2, <3>2, <3>3 DEF o
  <2> HIDE DEF r
  <2>5. \A i \in 1 .. Len(f) + 1 : a[i].id = r[i]
    <3> SUFFICES ASSUME NEW i \in 1 .. Len(f) + 1 PROVE a[i].id = r[i]
      OBVIOUS
    <3>1. CASE i \in 1 .. Len(f)
      BY <2>1, <2>2, <2>4, <3>1
    <3>2. CASE i = Len(f) + 1
      BY <2>1, <2>4, <3>2
    <3> QED
      BY <2>2, <3>1, <3>2
  <2>6. DOMAIN a = 1 .. Len(f) + 1 /\ DOMAIN r = 1 .. Len(f) + 1
        /\ r = [i \in 1 .. Len(f) + 1 |-> r[i]]
    BY <2>1, <2>2, <2>4
  <2>7. M(a) = r
    BY <2>5, <2>6
  <2> QED
    BY <2>7 DEF a, r, m
<1>9. M(f) \o <<>> = M(f)
  <2> DEFINE m == M(f)
  <2>1. m \in Seq(Nat)
    BY <1>7
  <2> HIDE DEF m
  <2>2. m \o <<>> = m
    BY <2>1
  <2> QED
    BY <2>2 DEF m
<1>10. CASE e.kind \in MessageKinds
  <2>1. g = Append(f, e)
    BY <1>4, <1>5, <1>10
  <2> QED
    BY <1>3, <1>7, <1>8, <1>10, <2>1
<1>11. CASE e.kind \notin MessageKinds
  <2>1. g = f
    BY <1>4, <1>5, <1>11
  <2> QED
    BY <1>3, <1>7, <1>9, <1>11, <2>1
<1> QED
  BY <1>10, <1>11

\* A part of a sequence and an element more behind the sequence.
LEMMA PartOfAppend ==
    ASSUME NEW S, NEW s \in Seq(S), NEW e \in S, NEW a \in 1 .. Len(s) + 1
    PROVE  /\ \A b \in 0 .. Len(s) : SubSeq(Append(s, e), a, b) = SubSeq(s, a, b)
           /\ SubSeq(Append(s, e), a, Len(s) + 1) = Append(SubSeq(s, a, Len(s)), e)
           /\ SubSeq(s, a, Len(s)) \in Seq(S)
<1> DEFINE t == Append(s, e)
           N == Len(s)
<1>1. /\ t \in Seq(S) /\ Len(t) = N + 1 /\ N \in Nat
      /\ (\A i \in 1 .. N : t[i] = s[i]) /\ t[N + 1] = e
  BY AppendElements
<1>2. DOMAIN s = 1 .. N /\ \A i \in 1 .. N : s[i] \in S
  OBVIOUS
<1> HIDE DEF t
<1>3. ASSUME NEW b \in 0 .. N PROVE SubSeq(t, a, b) = SubSeq(s, a, b)
  <2> DEFINE u == SubSeq(t, a, b)
             v == SubSeq(s, a, b)
  <2>1. /\ u = [i \in 1 .. b - a + 1 |-> t[a + i - 1]]
        /\ v = [i \in 1 .. b - a + 1 |-> s[a + i - 1]]
    BY <1>1
  <2>2. \A i \in 1 .. b - a + 1 : t[a + i - 1] = s[a + i - 1]
    BY <1>1
  <2> HIDE DEF u, v
  <2>3. u = v
    BY <2>1, <2>2
  <2> QED
    BY <2>3 DEF u, v
<1>4. /\ SubSeq(s, a, N) \in Seq(S) /\ Len(SubSeq(s, a, N)) = N - a + 1
      /\ \A i \in 1 .. N - a + 1 : SubSeq(s, a, N)[i] = s[a + i - 1]
  <2> DEFINE v == SubSeq(s, a, N)
             k == N - a + 1
  <2>1. k \in Nat /\ v = [i \in 1 .. k |-> s[a + i - 1]]
    BY <1>1
  <2>2. \A i \in 1 .. k : s[a + i - 1] \in S
    BY <1>1, <1>2
  <2> HIDE DEF v, k
  <2>3. v \in Seq(S) /\ Len(v) = k /\ \A i \in 1 .. k : v[i] = s[a + i - 1]
    BY <2>1, <2>2
  <2> QED
    BY <2>3 DEF v, k
<1> DEFINE w == SubSeq(s, a, N)
           k == N - a + 1
           r == Append(w, e)
           u == SubSeq(t, a, N + 1)
<1>5. w \in Seq(S) /\ Len(w) = k /\ k \in Nat /\ \A i \in 1 .. k : w[i] = s[a + i - 1]
  BY <1>1, <1>4
<1>6. /\ r \in Seq(S) /\ Len(r) = k + 1 /\ r[k + 1] = e
      /\ \A i \in 1 .. k : r[i] = s[a + i - 1]
  <2> HIDE DEF w, k
  <2> QED
    BY <1>5, AppendElements
<1>7. u = [i \in 1 .. k + 1 |-> t[a + i - 1]]
  BY <1>1
<1>8. \A i \in 1 .. k + 1 : t[a + i - 1] = r[i]
  <2> SUFFICES ASSUME NEW i \in 1 .. k + 1 PROVE t[a + i - 1] = r[i]
    OBVIOUS
  <2> HIDE DEF r, u
  <2>1. CASE i = k + 1
    BY <1>1, <1>6, <2>1
  <2>2. CASE i \in 1 .. k
    BY <1>1, <1>6, <2>2
  <2> QED
    BY <1>1, <2>1, <2>2
<1> HIDE DEF r, u, w, k
<1>9. r = [i \in 1 .. k + 1 |-> r[i]]
  BY <1>5, <1>6
<1>10. u = r
  BY <1>7, <1>8, <1>9
<1> QED
  BY <1>3, <1>4, <1>10 DEF t, u, r, w

\* What stands before the messages that follow the compaction at c.
Opening(path, c) ==
    LET first == {i \in 1..c : path[i].id = path[c].ref}
        kept == IF first = {} THEN <<>>
                ELSE MessagesOf(SubSeq(path, Min(first), c - 1))
    IN  IF path[c].kind = "compaction" THEN <<path[c].id>> \o kept
                                       ELSE kept \o <<path[c].id>>

CompactionsOf(path) == {i \in DOMAIN path : path[i].kind \in CompactionKinds}

LEMMA ContextByOpening ==
    ASSUME NEW path
    PROVE  ContextOf(path) =
              IF CompactionsOf(path) = {} THEN MessagesOf(path)
              ELSE LET c == Max(CompactionsOf(path))
                   IN  Opening(path, c) \o MessagesOf(SubSeq(path, c + 1, Len(path)))
  BY Zenon DEF ContextOf, Opening, CompactionsOf

LEMMA MessagesType ==
    ASSUME NEW p \in Seq(EntryType)
    PROVE  MessagesOf(p) \in Seq(Nat)
  BY HeaderType, MessagesOfAppend

\* The last part of a path, its opening and what an entry behind it changes.
LEMMA OpeningOfAppend ==
    ASSUME NEW p \in Seq(EntryType), NEW e \in EntryType, NEW c \in 1 .. Len(p)
    PROVE  Opening(p, c) \in Seq(Nat) /\ Opening(Append(p, e), c) = Opening(p, c)
<1> DEFINE q == Append(p, e)
           first == {i \in 1..c : p[i].id = p[c].ref}
           m == Min(first)
           kept == IF first = {} THEN <<>> ELSE MessagesOf(SubSeq(p, m, c - 1))
           summary == <<p[c].id>>
<1>1. /\ q \in Seq(EntryType) /\ Len(p) \in Nat
      /\ \A i \in 1 .. Len(p) : q[i] = p[i] /\ p[i] \in EntryType
  BY AppendElements
<1>2. \A i \in 1 .. c : q[i] = p[i] /\ i \in 1 .. Len(p)
  BY <1>1
<1>3. c \in 1 .. c
  OBVIOUS
<1> HIDE DEF q
<1>4. {i \in 1..c : q[i].id = q[c].ref} = first
  BY <1>2, <1>3
<1>5. CASE first = {}
  <2>1. kept = <<>> /\ kept \in Seq(Nat)
    BY <1>5
  <2>2. Opening(p, c) = (IF p[c].kind = "compaction" THEN <<p[c].id>> \o <<>> ELSE <<>> \o <<p[c].id>>)
    BY <1>5 DEF Opening
  <2>3. Opening(q, c) = (IF q[c].kind = "compaction" THEN <<q[c].id>> \o <<>> ELSE <<>> \o <<q[c].id>>)
    BY <1>4, <1>5 DEF Opening
  <2>4. p[c].id \in Nat
    BY <1>1 DEF EntryType
  <2>5. \A x \in Nat : <<x>> \o <<>> \in Seq(Nat) /\ <<>> \o <<x>> \in Seq(Nat)
    OBVIOUS
  <2> QED
    BY <1>2, <1>3, <2>2, <2>3, <2>4, <2>5 DEF q
<1>6. CASE first # {}
  <2>1. m \in 1 .. c
    <3>1. first \in SUBSET (1 .. c) /\ c \in Nat
      OBVIOUS
    <3> HIDE DEF first
    <3> QED
      BY <1>6, <3>1, LeastOne
  <2> HIDE DEF m
  <2>2. /\ SubSeq(q, m, c - 1) = SubSeq(p, m, c - 1)
        /\ SubSeq(p, m, c - 1) \in Seq(EntryType)
    <3>1. m \in 1 .. Len(p) + 1 /\ c - 1 \in 0 .. Len(p) /\ m \in Nat \ {0}
          /\ c - 1 \in Nat /\ c - 1 <= Len(p)
      BY <1>1, <2>1
    <3>2. SubSeq(q, m, c - 1) = SubSeq(p, m, c - 1)
      BY <3>1, PartOfAppend DEF q
    <3> QED
      BY <3>1, <3>2, PartElements
  <2> DEFINE k == MessagesOf(SubSeq(p, m, c - 1))
  <2>3. k \in Seq(Nat)
    BY <2>2, MessagesType
  <2>4. Opening(p, c) = (IF p[c].kind = "compaction" THEN <<p[c].id>> \o k ELSE k \o <<p[c].id>>)
    BY <1>6 DEF Opening, m
  <2>5. Opening(q, c) = (IF q[c].kind = "compaction" THEN <<q[c].id>> \o k ELSE k \o <<q[c].id>>)
    BY <1>4, <1>6, <2>2 DEF Opening, m
  <2>6. p[c].id \in Nat
    BY <1>1 DEF EntryType
  <2> HIDE DEF k
  <2>7. <<p[c].id>> \in Seq(Nat)
    BY <2>6
  <2>8. <<p[c].id>> \o k \in Seq(Nat) /\ k \o <<p[c].id>> \in Seq(Nat)
    BY ONLY <2>3, <2>7, ConcatElements
  <2> QED
    BY <1>2, <1>3, <2>4, <2>5, <2>8 DEF q
<1> QED
  BY <1>5, <1>6

\* An entry that is not a compaction adds its message, if it has one.
LEMMA ContextOfAppend ==
    ASSUME NEW p \in Seq(EntryType), NEW e \in EntryType, e.kind \notin CompactionKinds
    PROVE  ContextOf(Append(p, e)) =
              ContextOf(p) \o (IF e.kind \in MessageKinds THEN <<e.id>> ELSE <<>>)
<1> DEFINE q == Append(p, e)
           N == Len(p)
           more == IF e.kind \in MessageKinds THEN <<e.id>> ELSE <<>>
           C == CompactionsOf(p)
<1>1. /\ q \in Seq(EntryType) /\ N \in Nat /\ Len(q) = N + 1 /\ q[N + 1] = e
      /\ \A i \in 1 .. N : q[i] = p[i]
  BY AppendElements
<1>2. DOMAIN q = 1 .. N + 1 /\ DOMAIN p = 1 .. N
  BY <1>1
<1>3. more \in Seq(Nat)
  BY DEF EntryType
<1> HIDE DEF q, more
<1>4. CompactionsOf(q) = C /\ C \in SUBSET (1 .. N)
  <2>1. \A i \in 1 .. N + 1 : i \in 1 .. N \/ i = N + 1
    BY <1>1
  <2>2. 1 .. N \subseteq 1 .. N + 1
    BY <1>1
  <2> QED
    BY <1>1, <1>2, <2>1, <2>2 DEF CompactionsOf
<1> HIDE DEF C
<1>5. CASE C = {}
  <2>1. ContextOf(q) = MessagesOf(q) /\ ContextOf(p) = MessagesOf(p)
    BY <1>4, <1>5, ContextByOpening DEF C
  <2> QED
    BY <2>1, MessagesOfAppend DEF q, more
<1>6. CASE C # {}
  <2> DEFINE c == Max(C)
             o == Opening(p, c)
             part == SubSeq(p, c + 1, N)
             rest == MessagesOf(part)
  <2>1. c \in 1 .. N
    BY <1>1, <1>4, <1>6, GreatestOne
  <2>2. /\ ContextOf(p) = o \o rest
        /\ ContextOf(q) = Opening(q, c) \o MessagesOf(SubSeq(q, c + 1, N + 1))
    BY <1>1, <1>4, <1>6, ContextByOpening DEF C
  <2> HIDE DEF c
  <2>3. Opening(q, c) = o /\ o \in Seq(Nat)
    BY <2>1, OpeningOfAppend DEF q
  <2>4. SubSeq(q, c + 1, N + 1) = Append(part, e) /\ part \in Seq(EntryType)
    <3>1. c + 1 \in 1 .. N + 1
      BY <1>1, <2>1
    <3> QED
      BY <3>1, PartOfAppend DEF q
  <2> HIDE DEF part, o
  <2>5. MessagesOf(Append(part, e)) = rest \o more /\ rest \in Seq(Nat)
    BY <2>4, MessagesOfAppend DEF more
  <2> HIDE DEF rest
  <2>6. (o \o rest) \o more = o \o (rest \o more)
    <3>1. o \in Seq(Nat) /\ rest \in Seq(Nat) /\ more \in Seq(Nat)
      BY <1>3, <2>3, <2>5
    <3> QED
      BY ONLY <3>1, ConcatAssociative
  <2>7. ContextOf(q) = ContextOf(p) \o more
    BY <2>2, <2>3, <2>4, <2>5, <2>6
  <2> QED
    BY <2>7 DEF q, more
<1> QED
  BY <1>5, <1>6

\* The entry that is new ends its own path; the others keep theirs.
LEMMA PathOfAppend ==
    ASSUME NEW own, own \subseteq EntryType, NEW n \in Nat, MaxId \in Nat,
           Given(own, n, MaxId), n \in 1 .. MaxId,
           NEW e \in EntryType, e.id = n, e.parent < n
    PROVE  PathIn(own \cup {e}, n) = Append(PathIn(own, e.parent), e)
           /\ e.parent \in 0 .. MaxId
<1> DEFINE all == own \cup {e}
           Same == {i \in 0 .. n - 1 : PathIn(all, i) = PathIn(own, i)}
<1>1. all \subseteq EntryType /\ n + 1 \in Nat /\ Given(all, n + 1, MaxId)
      /\ e.parent \in Nat
  <2>1. \A x \in EntryType : x.id \in Nat /\ x.parent \in Nat
    BY DEF EntryType
  <2>2. ASSUME NEW x \in all
        PROVE  x.id \in 1 .. MaxId /\ x.id < n + 1 /\ x.parent < x.id
    <3>1. CASE x \in own
      BY <2>1, <3>1 DEF Given
    <3>2. CASE x = e
      BY <3>2
    <3> QED
      BY <3>1, <3>2
  <2> QED
    BY <2>1, <2>2 DEF Given
<1>2. ASSUME NEW i \in 0 .. n - 1
      PROVE  /\ ById(all, i) = ById(own, i)
             /\ (\E x \in all : x.id = i) <=> (\E x \in own : x.id = i)
  <2>1. \A x : (x \in all /\ x.id = i) <=> (x \in own /\ x.id = i)
    OBVIOUS
  <2> HIDE DEF all
  <2> QED
    BY Zenon, <2>1 DEF ById
<1>3. ASSUME NEW i \in 0 .. n - 1, \A k \in 0 .. i - 1 : k \in Same PROVE i \in Same
  <2>1. i \in 0 .. MaxId
    OBVIOUS
  <2> HIDE DEF all
  <2>2. CASE \E x \in own : x.id = i
    <3> DEFINE up == ById(own, i).parent
    <3>1. /\ PathIn(own, i) = Append(PathIn(own, up), ById(own, i))
          /\ up \in 0 .. MaxId /\ up < i
      BY <2>1, <2>2, PathStep
    <3>2. PathIn(all, i) = Append(PathIn(all, up), ById(own, i))
      <4>1. \E x \in all : x.id = i
        BY <1>2, <2>2
      <4>2. PathIn(all, i) = Append(PathIn(all, ById(all, i).parent), ById(all, i))
        BY <1>1, <2>1, <4>1, PathStep
      <4> QED
        BY <1>2, <4>2
    <3> HIDE DEF up
    <3>3. PathIn(all, up) = PathIn(own, up)
      BY <1>3, <3>1
    <3> QED
      BY <3>1, <3>2, <3>3
  <2>3. CASE ~ \E x \in own : x.id = i
    <3>1. PathIn(own, i) = <<>>
      BY <2>1, <2>3, PathStep
    <3>2. PathIn(all, i) = <<>>
      BY <1>1, <1>2, <2>1, <2>3, PathStep
    <3> QED
      BY <3>1, <3>2
  <2> QED
    BY <2>2, <2>3
<1>4. \A i \in 0 .. n - 1 : i \in Same
  <2>1. n - 1 \in Nat
    OBVIOUS
  <2> HIDE DEF Same
  <2> QED
    BY <1>3, <2>1, Upward
<1>5. e.parent \in 0 .. n - 1 /\ e.parent \in 0 .. MaxId
  BY <1>1
<1>6. PathIn(all, e.parent) = PathIn(own, e.parent)
  BY <1>4, <1>5
<1>7. ById(all, n) = e /\ \E x \in all : x.id = n
  <2>1. \A x \in own : x.id # n
    BY DEF Given, EntryType
  <2> QED
    BY <2>1 DEF ById
<1>8. PathIn(all, n) = Append(PathIn(all, e.parent), e)
  <2> HIDE DEF all
  <2>1. PathIn(all, n) = Append(PathIn(all, ById(all, n).parent), ById(all, n))
    <3>1. n \in 0 .. MaxId
      OBVIOUS
    <3> QED
      BY <1>1, <1>7, <3>1, PathStep
  <2> QED
    BY <1>7, <2>1
<1> QED
  BY <1>5, <1>6, <1>8

-----------------------------------------------------------------------------
(***************************************************************************)
(* Appends.                                                                *)
(***************************************************************************)

\* However a method ends, the object is as it says or the process is gone.
LEMMA PerformEnds ==
    ASSUME NEW done, NEW thrown, NEW new, NEW truncate, Perform(done, thrown, new, truncate)
    PROVE  mem' = done \/ mem' = thrown \/ mem' = Down
  BY Zenon DEF Perform

\* What is seen to append is an append that did not end the process.
LEMMA AppendedBy ==
    ASSUME TreeInv, [Next]_vars, Appended
    PROVE  \E e : IsAppendOf(e) /\ mem'.entries = Append(mem.entries, e) /\ mem'.leaf = e.id
<1>1. /\ mem \in MemType /\ mem.file # NoFile /\ mem'.file = mem.file /\ nextId' # nextId
      /\ Down.file = NoFile
  BY DEF TreeInv, GoodMem, Appended, Up, Down
<1>2. Next
  <2>1. ~ UNCHANGED vars
    BY <1>1 DEF vars
  <2> QED
    BY <2>1
<1>3. ASSUME NEW e, IsAppendOf(e)
      PROVE  mem'.entries = Append(mem.entries, e) /\ mem'.leaf = e.id
  <2> DEFINE es == Append(mem.entries, e)
             labels == Relabel(mem.labels, e)
             has == HasAssistant(es)
             thrown == [mem EXCEPT !.entries = es, !.leaf = e.id]
             done == [thrown EXCEPT !.labels = Relabel(@, e), !.flushed = HasAssistant(es)]
             new == LinesToPersist(es, e)
  <2>1. Perform(done, thrown, new, FALSE)
    <3>1. AppendEntry(e)
      BY <1>3 DEF IsAppendOf
    <3> QED
      BY Zenon, <3>1 DEF AppendEntry
  <2>2. thrown.entries = es /\ thrown.leaf = e.id
    <3> HIDE DEF es
    <3> QED
      BY <1>1 DEF MemType
  <2>3. done.entries = es /\ done.leaf = e.id
    <3> HIDE DEF es
    <3> QED
      BY <1>1 DEF MemType
  <2> HIDE DEF done, thrown, new
  <2>4. mem' # Down
    BY <1>1
  <2>5. mem' = done \/ mem' = thrown
    BY Zenon, <2>1, <2>4, PerformEnds
  <2> QED
    BY <2>2, <2>3, <2>5
<1>4. ASSUME NEW l, NEW f, CreateBranchedSession(l, f) PROVE FALSE
  <2> DEFINE es == BranchedEntries(l)
             done == [Loaded(f, es) EXCEPT !.flushed = HasAssistant(es)]
             thrown == [done EXCEPT !.flushed = mem.flushed]
             new == IF HasAssistant(es) THEN es ELSE <<>>
  <2>1. Perform(done, thrown, new, TRUE) /\ Fresh(f)
    BY Zenon, <1>4 DEF CreateBranchedSession
  <2>2. done.file = f /\ thrown.file = f
    BY DEF Loaded
  <2> HIDE DEF done, thrown, new
  <2>3. mem' # Down
    BY <1>1
  <2>4. mem' = done \/ mem' = thrown
    BY Zenon, <2>1, <2>3, PerformEnds
  <2>5. f # mem.file
    BY <1>1, <2>1 DEF Fresh, NamesInUse
  <2> QED
    BY <1>1, <2>2, <2>4, <2>5
<1>5. ASSUME \/ \E i : Branch(i)
             \/ \E f \in Files : NewSession(f)
             \/ \E f \in Files : SetSessionFile(f)
             \/ \E f, g : ForkFrom(f, g)
             \/ Exit
      PROVE  nextId' = nextId
  <2>1. ASSUME NEW i, Branch(i) PROVE nextId' = nextId
    BY <2>1 DEF Branch
  <2>2. ASSUME NEW f, NewSession(f) PROVE nextId' = nextId
    BY <2>2 DEF NewSession
  <2>3. ASSUME NEW f, SetSessionFile(f) PROVE nextId' = nextId
    BY Zenon, <2>3 DEF SetSessionFile
  <2>4. ASSUME NEW f, NEW g, ForkFrom(f, g) PROVE nextId' = nextId
    BY Zenon, <2>4 DEF ForkFrom
  <2>5. Exit => nextId' = nextId
    BY DEF Exit
  <2> QED
    BY Zenon, <1>5, <2>1, <2>2, <2>3, <2>4, <2>5
<1>6. \E e : IsAppendOf(e)
  BY Zenon, <1>1, <1>2, <1>4, <1>5, StepKinds
<1> QED
  BY <1>3, <1>6

\* Appending to the context.
LEMMA AppendContexts ==
    ASSUME TreeInv, NEW e, IsAppendOf(e)
    PROVE  LET own == EntriesOf(mem.entries)
               p == PathIn(own, e.parent)
           IN  /\ Context(Append(mem.entries, e), e.id) = ContextOf(Append(p, e))
               /\ Context(mem.entries, e.parent) = ContextOf(p)
               /\ e \in EntryType /\ e.id = nextId /\ mem.entries \in Seq(EntryType)
               /\ own \subseteq EntryType /\ nextId \in Nat /\ MaxId \in Nat
               /\ Given(own, nextId, MaxId) /\ e.parent \in 0 .. MaxId
               /\ p \in Seq(own) /\ p \in Seq(EntryType)
<1> DEFINE own == EntriesOf(mem.entries)
           p == PathIn(own, e.parent)
<1>1. /\ e \in EntryType /\ IsEntry(e) /\ e.id = nextId
      /\ e.parent \in {0} \cup Ids(mem.entries) /\ nextId <= MaxId
  BY Zenon DEF IsAppendOf, AppendEntry
<1>2. /\ mem.entries \in Seq(EntryType) /\ MaxId \in Nat /\ nextId \in Nat \ {0}
      /\ own \subseteq EntryType /\ Given(own, nextId, MaxId)
  BY MaxIdType, EntriesOfType DEF TreeInv, GoodMem, MemType
<1>3. EntriesOf(Append(mem.entries, e)) = own \cup {e}
  BY <1>1, <1>2, EntriesOfAppend
<1>4. e.parent < nextId
  BY <1>1, <1>2, IdsInRange
<1> HIDE DEF own
<1>5. PathIn(own \cup {e}, nextId) = Append(p, e) /\ e.parent \in 0 .. MaxId
  <2>1. nextId \in Nat /\ nextId \in 1 .. MaxId
    BY <1>1, <1>2
  <2> QED
    BY <1>1, <1>2, <1>4, <2>1, PathOfAppend
<1>6. p \in Seq(own)
  BY <1>2, <1>5, PathStep
<1> HIDE DEF p
<1>7. p \in Seq(EntryType)
  BY <1>2, <1>6
<1>8. /\ Context(Append(mem.entries, e), e.id) = ContextOf(Append(p, e))
      /\ Context(mem.entries, e.parent) = ContextOf(p)
  <2>1. Context(Append(mem.entries, e), e.id) = ContextOf(PathIn(own \cup {e}, nextId))
    BY <1>1, <1>3 DEF Context, Path
  <2>2. Context(mem.entries, e.parent) = ContextOf(p)
    BY DEF Context, Path, p, own
  <2> QED
    BY <1>5, <2>1, <2>2
<1> QED
  BY <1>1, <1>2, <1>5, <1>6, <1>7, <1>8 DEF p, own

\* The entry that is seen to be new.
LEMMA NewEntryIs ==
    ASSUME NEW es \in Seq(EntryType), NEW e \in EntryType, mem'.entries = Append(es, e)
    PROVE  NewEntry = e
<1> DEFINE a == Append(es, e)
<1>1. Last(a) = e
  BY FrontOfAppend
<1>2. Len(a) = Len(es) + 1 /\ Len(es) \in Nat
  BY AppendElements
<1> HIDE DEF a
<1>3. a # <<>>
  BY <1>2
<1> QED
  BY <1>1, <1>3 DEF NewEntry, a

LEMMA StepKeepsContext ==
    ASSUME TreeInv, [Next]_vars, Appended, NewEntry.kind \notin CompactionKinds
    PROVE  Context(mem'.entries, mem'.leaf) =
              Context(mem.entries, NewEntry.parent)
              \o (IF NewEntry.kind \in MessageKinds THEN <<NewEntry.id>> ELSE <<>>)
<1> DEFINE p(e) == PathIn(EntriesOf(mem.entries), e.parent)
<1>1. PICK e : IsAppendOf(e) /\ mem'.entries = Append(mem.entries, e) /\ mem'.leaf = e.id
  BY AppendedBy
<1>2. /\ Context(Append(mem.entries, e), e.id) = ContextOf(Append(p(e), e))
      /\ Context(mem.entries, e.parent) = ContextOf(p(e))
      /\ e \in EntryType /\ mem.entries \in Seq(EntryType) /\ p(e) \in Seq(EntryType)
  BY <1>1, AppendContexts
<1>3. NewEntry = e
  BY <1>1, <1>2, NewEntryIs
<1> HIDE DEF p
<1>4. ContextOf(Append(p(e), e)) =
          ContextOf(p(e)) \o (IF e.kind \in MessageKinds THEN <<e.id>> ELSE <<>>)
  BY <1>2, <1>3, ContextOfAppend
<1> QED
  BY <1>1, <1>2, <1>3, <1>4

\* An entry adds its own message, if it has one, to the context of its parent
\* and changes nothing before it, even when the write of it throws.
THEOREM AppendKeepsContextAlways == Spec => AppendKeepsContext
<1> DEFINE e == NewEntry
           Step == Appended /\ e.kind \notin CompactionKinds
                   => Context(mem'.entries, mem'.leaf) =
                          Context(mem.entries, e.parent)
                          \o (IF e.kind \in MessageKinds THEN <<e.id>> ELSE <<>>)
<1>1. Spec => []TreeInv
  BY AlwaysTree
<1>2. TreeInv /\ [Next]_vars => Step
  BY StepKeepsContext
<1> QED
  BY <1>1, <1>2, PTL DEF Spec, AppendKeepsContext

-----------------------------------------------------------------------------
(***************************************************************************)
(* Branched sessions: their labels.                                        *)
(***************************************************************************)

LEMMA SequenceCoversSet ==
    ASSUME NEW S, IsFiniteSet(S)
    PROVE  ToSet(SetToSeq(S)) = S
<1> DEFINE n == Cardinality(S)
           f == SetToSeq(S)
<1>1. n \in Nat /\ ExistsBijection(1 .. n, S)
  BY FS_CardinalityType
<1>2. PICK g \in [1 .. n -> S] : IsInjective(g)
  BY <1>1 DEF ExistsBijection, Bijection, Injection
<1>3. f \in [1 .. n -> S] /\ IsInjective(f)
  BY <1>2 DEF SetToSeq
<1>4. f \in Injection(1 .. n, S)
  BY <1>3 DEF Injection
<1>5. Cardinality(1 .. n) = n
  BY <1>1, FS_Interval
<1> HIDE DEF f
<1>6. f \in Surjection(1 .. n, S)
  BY <1>4, <1>5, FS_Injection
<1>7. \A x \in S : \E i \in 1 .. n : f[i] = x
  BY <1>6 DEF Surjection
<1>8. ToSet(f) = {f[i] : i \in 1 .. n}
  BY <1>3 DEF ToSet
<1>9. ToSet(f) = S
  BY <1>3, <1>7, <1>8
<1> QED
  BY <1>9 DEF f

\* Where nothing is cleared the labels are those that were set.
LEMMA LabelsNotCleared ==
    ASSUME NEW es \in Seq(EntryType), \A e \in ToSet(es) : e.kind # "unlabel"
    PROVE  LabelsOf(es) = {e.ref : e \in {x \in ToSet(es) : x.kind = "label"}}
<1>1. ToSet(es) = {es[i] : i \in DOMAIN es} /\ DOMAIN es = 1 .. Len(es) /\ Len(es) \in Nat
  BY DEF ToSet
<1>2. \A n \in DOMAIN es : \A m \in n + 1 .. Len(es) : es[m].kind # "unlabel"
  BY <1>1
<1>3. LabelsOf(es) = {es[i].ref : i \in {n \in DOMAIN es : es[n].kind = "label"}}
  BY <1>2 DEF LabelsOf
<1> QED
  BY <1>1, <1>3

\* A branched session in its parts.
LEMMA BranchedParts ==
    ASSUME TreeInv, NEW l \in Ids(mem.entries)
    PROVE  LET path == PathWithoutLabels(l)
               parent == IF path = <<>> THEN 0 ELSE Last(path).id
               targets == SetToSeq(LabelledOnPath(l))
               chain == LabelChain(targets, parent)
           IN  /\ path \in Seq(EntryType) /\ ToSet(path) \subseteq EntriesOf(mem.entries)
               /\ targets \in Seq(Nat) /\ ToSet(targets) = LabelledOnPath(l)
               /\ parent \in Nat /\ parent < nextId /\ nextId \in Nat \ {0}
               /\ chain \in Seq(EntryType)
               /\ BranchedEntries(l) = <<Header>> \o (path \o chain)
               /\ <<Header>> \in Seq(EntryType) /\ ToSet(<<Header>>) = {Header}
<1> DEFINE own == EntriesOf(mem.entries)
           path == PathWithoutLabels(l)
           parent == IF path = <<>> THEN 0 ELSE Last(path).id
           S == LabelledOnPath(l)
           targets == SetToSeq(S)
           chain == LabelChain(targets, parent)
<1>1. /\ path \in Seq(own) /\ own \subseteq EntryType /\ IsFiniteSet(S) /\ S \subseteq Nat
  BY PathType
<1>2. nextId \in Nat \ {0} /\ Given(own, nextId, MaxId)
  BY DEF TreeInv, GoodMem
<1>3. BranchedEntries(l) = <<Header>> \o path \o chain
  BY DEF BranchedEntries
<1>4. targets \in Seq(S) /\ ToSet(targets) = S
  <2> HIDE DEF S
  <2> QED
    BY <1>1, SequenceOfSet, SequenceCoversSet
<1>5. parent \in Nat /\ parent < nextId
  <2> HIDE DEF own, path
  <2>1. CASE path # <<>>
    <3>1. Last(path) \in own
      BY <1>1, <2>1, FrontThenLast
    <3>2. Last(path).id \in Nat /\ Last(path).id < nextId
      BY <1>1, <1>2, <3>1 DEF Given, EntryType
    <3> QED
      BY <2>1, <3>2
  <2>2. CASE path = <<>>
    BY <1>2, <2>2
  <2> QED
    BY <2>1, <2>2
<1> HIDE DEF own, path, parent, S, targets
<1>6. targets \in Seq(Nat)
  <2>1. targets \in Seq(S) /\ S \subseteq Nat
    BY <1>1, <1>4
  <2>2. DOMAIN targets = 1 .. Len(targets) /\ Len(targets) \in Nat
        /\ \A i \in 1 .. Len(targets) : targets[i] \in S
    BY ONLY <2>1
  <2>3. \A i \in 1 .. Len(targets) : targets[i] \in Nat
    BY <2>1, <2>2
  <2>4. targets = [i \in 1 .. Len(targets) |-> targets[i]]
    BY ONLY <2>1
  <2> QED
    BY ONLY <2>2, <2>3, <2>4
<1>7. chain \in Seq(EntryType)
  BY <1>2, <1>5, <1>6, LabelChainType
<1> HIDE DEF chain
<1>8. path \in Seq(EntryType) /\ ToSet(path) \subseteq own
  BY <1>1 DEF ToSet
<1> DEFINE head == <<Header>>
<1>9. head \in Seq(EntryType) /\ ToSet(head) = {Header}
  BY HeaderType, FewElements
<1> HIDE DEF head
<1>10. (head \o path) \o chain = head \o (path \o chain)
  BY ONLY <1>7, <1>8, <1>9, ConcatAssociative
<1>11. BranchedEntries(l) = head \o (path \o chain)
  BY <1>3, <1>10 DEF head
<1> QED
  BY <1>2, <1>4, <1>5, <1>6, <1>7, <1>8, <1>9, <1>11
     DEF head, chain, targets, S, parent, path, own

\* No entry of the path is a label.
LEMMA PathHasNoLabels ==
    ASSUME TreeInv, NEW l \in Ids(mem.entries), NEW e \in ToSet(PathWithoutLabels(l))
    PROVE  e.kind \notin LabelKinds
<1> DEFINE path == Path(mem.entries, l)
           S == {x \in ToSet(path) : x.kind \notin LabelKinds}
<1>1. path \in Seq(EntryType)
  <2>1. path \in Seq(EntriesOf(mem.entries)) /\ EntriesOf(mem.entries) \subseteq EntryType
    BY PathType
  <2> HIDE DEF path
  <2> QED
    BY <2>1
<1>2. PathWithoutLabels(l) = Filtered(path, S)
  BY DEF PathWithoutLabels
<1>3. e \in S
  <2> HIDE DEF S, path
  <2>1. ToSet(Filtered(path, S)) = ToSet(path) \cap S
    BY ONLY <1>1, FilteredElements
  <2> QED
    BY <1>2, <2>1
<1> QED
  BY <1>3

LEMMA BranchedLabels ==
    ASSUME TreeInv, NEW l \in Ids(mem.entries)
    PROVE  LabelsOf(BranchedEntries(l)) = LabelledOnPath(l)
<1> DEFINE path == PathWithoutLabels(l)
           parent == IF path = <<>> THEN 0 ELSE Last(path).id
           targets == SetToSeq(LabelledOnPath(l))
           chain == LabelChain(targets, parent)
           head == <<Header>>
           es == BranchedEntries(l)
<1>1. /\ path \in Seq(EntryType)
      /\ targets \in Seq(Nat) /\ ToSet(targets) = LabelledOnPath(l)
      /\ parent \in Nat /\ parent < nextId /\ nextId \in Nat \ {0}
      /\ chain \in Seq(EntryType)
      /\ es = head \o (path \o chain)
      /\ head \in Seq(EntryType) /\ ToSet(head) = {Header}
  BY BranchedParts
<1>2. \A e \in ToSet(path) : e.kind \notin LabelKinds
  BY PathHasNoLabels
<1>3. /\ \A e \in ToSet(chain) : e.kind = "label"
      /\ {e.ref : e \in ToSet(chain)} = ToSet(targets)
  <2> HIDE DEF targets, parent
  <2>1. /\ DOMAIN chain = DOMAIN targets
        /\ \A i \in DOMAIN targets : chain[i].kind = "label" /\ chain[i].ref = targets[i]
    BY DEF LabelChain
  <2> HIDE DEF chain
  <2> QED
    BY <2>1 DEF ToSet
<1> HIDE DEF path, parent, targets, chain, head, es
<1>4. path \o chain \in Seq(EntryType) /\ ToSet(path \o chain) = ToSet(path) \cup ToSet(chain)
  BY <1>1, ConcatElements
<1> DEFINE all == path \o chain
<1>5. all \in Seq(EntryType)
  BY <1>4
<1>6. es = head \o all
  BY <1>1
<1> HIDE DEF all
<1>7. es \in Seq(EntryType) /\ ToSet(es) = {Header} \cup ToSet(all)
  BY <1>1, <1>5, <1>6, ConcatElements
<1>8. \A e \in ToSet(es) : e.kind # "unlabel" /\ (e.kind = "label" <=> e \in ToSet(chain))
  <2>1. Header.kind = "session"
    BY DEF Header
  <2> QED
    BY <1>2, <1>3, <1>4, <1>7, <2>1 DEF LabelKinds, all
<1>9. LabelsOf(es) = {e.ref : e \in {x \in ToSet(es) : x.kind = "label"}}
  BY <1>7, <1>8, LabelsNotCleared
<1>10. {x \in ToSet(es) : x.kind = "label"} = ToSet(chain)
  BY <1>4, <1>7, <1>8 DEF all
<1> QED
  BY <1>1, <1>3, <1>9, <1>10 DEF es

-----------------------------------------------------------------------------
(***************************************************************************)
(* Branched sessions: their contexts.                                      *)
(***************************************************************************)

\* A sequence of entries each of which is the parent of the next.
Chained(q, max) ==
    \A i \in 1 .. Len(q) :
        /\ q[i].id \in 1 .. max /\ q[i].parent < q[i].id
        /\ i > 1 => q[i].parent = q[i - 1].id

LEMMA ChainedAppend ==
    ASSUME NEW q \in Seq(EntryType), NEW e \in EntryType, NEW max
    PROVE  Chained(Append(q, e), max) <=>
              /\ Chained(q, max) /\ e.id \in 1 .. max /\ e.parent < e.id
              /\ q # <<>> => e.parent = Last(q).id
<1> DEFINE a == Append(q, e)
           N == Len(q)
<1>1. /\ a \in Seq(EntryType) /\ Len(a) = N + 1 /\ N \in Nat
      /\ (\A i \in 1 .. N : a[i] = q[i]) /\ a[N + 1] = e
  BY AppendElements
<1>2. /\ q # <<>> <=> N > 0
      /\ N > 0 => Last(q) = q[N]
  BY DEF Last
<1> HIDE DEF a
<1>3. ASSUME Chained(a, max)
      PROVE  /\ Chained(q, max) /\ e.id \in 1 .. max /\ e.parent < e.id
             /\ q # <<>> => e.parent = Last(q).id
  <2>1. N + 1 \in 1 .. Len(a)
    BY <1>1
  <2>2. /\ a[N + 1].id \in 1 .. max /\ a[N + 1].parent < a[N + 1].id
        /\ N + 1 > 1 => a[N + 1].parent = a[N + 1 - 1].id
    BY <1>3, <2>1 DEF Chained
  <2>3. e.id \in 1 .. max /\ e.parent < e.id
    BY <1>1, <2>2
  <2>4. q # <<>> => e.parent = Last(q).id
    BY <1>1, <1>2, <2>2
  <2>5. ASSUME NEW i \in 1 .. N
        PROVE  /\ q[i].id \in 1 .. max /\ q[i].parent < q[i].id
               /\ i > 1 => q[i].parent = q[i - 1].id
    <3>1. i \in 1 .. Len(a) /\ a[i] = q[i] /\ (i > 1 => a[i - 1] = q[i - 1])
      BY <1>1
    <3> QED
      BY <1>3, <3>1 DEF Chained
  <2>6. Chained(q, max)
    BY <2>5 DEF Chained
  <2> QED
    BY <2>3, <2>4, <2>6
<1>4. ASSUME Chained(q, max), e.id \in 1 .. max, e.parent < e.id,
             q # <<>> => e.parent = Last(q).id
      PROVE  Chained(a, max)
  <2> SUFFICES ASSUME NEW i \in 1 .. N + 1
               PROVE  /\ a[i].id \in 1 .. max /\ a[i].parent < a[i].id
                      /\ i > 1 => a[i].parent = a[i - 1].id
    BY <1>1 DEF Chained
  <2>1. CASE i = N + 1
    <3>1. a[i] = e
      BY <1>1, <2>1
    <3>2. ASSUME i > 1 PROVE a[i].parent = a[i - 1].id
      <4>1. N > 0 /\ i - 1 = N /\ N \in 1 .. N
        BY <1>1, <2>1, <3>2
      <4>2. a[i - 1] = q[N]
        BY <1>1, <4>1
      <4> QED
        BY <1>2, <1>4, <3>1, <4>1, <4>2
    <3> QED
      BY <1>4, <3>1, <3>2
  <2>2. CASE i \in 1 .. N
    <3>1. a[i] = q[i] /\ (i > 1 => a[i - 1] = q[i - 1])
      BY <1>1, <2>2
    <3> QED
      BY <1>4, <2>2, <3>1 DEF Chained
  <2> QED
    BY <1>1, <2>1, <2>2
<1> QED
  BY <1>3, <1>4 DEF a

\* The path to the last entry of such a sequence is the sequence.
LEMMA PathOfChained ==
    ASSUME MaxId \in Nat
    PROVE  \A q \in Seq(EntryType) : Chained(q, MaxId) /\ q # <<>> =>
              PathIn(ToSet(q), Last(q).id) = q
<1> DEFINE Goes(q) == Chained(q, MaxId) =>
              /\ q # <<>> => PathIn(ToSet(q), Last(q).id) = q
              /\ q # <<>> => Last(q).id \in 1 .. MaxId
              /\ \A x \in ToSet(q) : /\ x.id \in 1 .. MaxId /\ x.parent < x.id
                                     /\ q # <<>> /\ x.id <= Last(q).id
           P == {q \in Seq(EntryType) : Goes(q)}
<1>1. <<>> \in P
  BY DEF ToSet
<1>2. ASSUME NEW q \in Seq(EntryType), NEW e \in EntryType, q \in P
      PROVE  Append(q, e) \in P
  <2> DEFINE a == Append(q, e)
  <2>1. /\ a \in Seq(EntryType) /\ ToSet(a) = ToSet(q) \cup {e}
    BY AppendElements
  <2>2. Last(a) = e
    BY FrontOfAppend
  <2> SUFFICES ASSUME Chained(a, MaxId)
               PROVE  /\ PathIn(ToSet(a), Last(a).id) = a
                      /\ Last(a).id \in 1 .. MaxId
                      /\ \A x \in ToSet(a) : /\ x.id \in 1 .. MaxId /\ x.parent < x.id
                                             /\ a # <<>> /\ x.id <= Last(a).id
    BY <2>1
  <2>3. /\ Chained(q, MaxId) /\ e.id \in 1 .. MaxId /\ e.parent < e.id
        /\ q # <<>> => e.parent = Last(q).id
    BY ChainedAppend
  <2>4. /\ q # <<>> => PathIn(ToSet(q), Last(q).id) = q
        /\ q # <<>> => Last(q).id \in 1 .. MaxId
        /\ \A x \in ToSet(q) : /\ x.id \in 1 .. MaxId /\ x.parent < x.id
                               /\ q # <<>> /\ x.id <= Last(q).id
    BY <1>2, <2>3
  <2>5. e.id \in Nat /\ e.parent \in Nat /\ ToSet(q) \subseteq EntryType
        /\ \A x \in ToSet(q) : x.id \in Nat
    <3>1. ToSet(q) \subseteq EntryType
      BY DEF ToSet
    <3>2. \A x \in EntryType : x.id \in Nat /\ x.parent \in Nat
      BY DEF EntryType
    <3> QED
      BY <3>1, <3>2
  <2>6. \A x \in ToSet(q) : x.id < e.id
    BY <2>3, <2>4, <2>5
  <2>7. Given(ToSet(q), e.id, MaxId)
    BY <2>4, <2>6 DEF Given
  <2>8. /\ PathIn(ToSet(q) \cup {e}, e.id) = Append(PathIn(ToSet(q), e.parent), e)
        /\ e.parent \in 0 .. MaxId
    <3> DEFINE own == ToSet(q)
               n == e.id
    <3>1. /\ own \subseteq EntryType /\ n \in Nat /\ Given(own, n, MaxId)
          /\ n \in 1 .. MaxId /\ e.id = n /\ e.parent < n
      BY <2>3, <2>5, <2>7
    <3> HIDE DEF own, n
    <3>2. /\ PathIn(own \cup {e}, n) = Append(PathIn(own, e.parent), e)
          /\ e.parent \in 0 .. MaxId
      BY <3>1, PathOfAppend
    <3> QED
      BY <3>2 DEF own, n
  <2>9. PathIn(ToSet(q), e.parent) = q
    <3>1. CASE q = <<>>
      <4>1. ToSet(q) = {}
        BY <3>1 DEF ToSet
      <4>2. ~ \E x \in ToSet(q) : x.id = e.parent
        BY <4>1
      <4> DEFINE own == ToSet(q)
                 n == e.id
      <4>3. own \subseteq EntryType /\ n \in Nat /\ Given(own, n, MaxId)
        BY <2>5, <2>7
      <4> HIDE DEF own, n
      <4>4. PathIn(own, e.parent) = <<>>
        BY <2>8, <4>2, <4>3, PathStep DEF own
      <4> QED
        BY <3>1, <4>4 DEF own
    <3>2. CASE q # <<>>
      BY <2>3, <2>4, <3>2
    <3> QED
      BY <3>1, <3>2
  <2>10. a # <<>>
    <3>1. Len(a) = Len(q) + 1 /\ Len(q) \in Nat
      BY AppendElements
    <3> HIDE DEF a
    <3> QED
      BY <3>1
  <2>11. PathIn(ToSet(a), Last(a).id) = a
    BY <2>1, <2>2, <2>8, <2>9
  <2>12. \A x \in ToSet(a) : x.id \in 1 .. MaxId /\ x.parent < x.id /\ x.id <= e.id
    BY <2>1, <2>3, <2>4, <2>5, <2>6
  <2> HIDE DEF a
  <2> QED
    BY <2>2, <2>3, <2>10, <2>11, <2>12
<1>3. \A q \in Seq(EntryType) : q \in P
  <2> HIDE DEF P
  <2> QED
    BY <1>1, <1>2, SequenceInduction
<1> QED
  BY <1>3

\* A path is such a sequence, and ends where it was asked to.
LEMMA PathIsChained ==
    ASSUME NEW own, own \subseteq EntryType, NEW n \in Nat, MaxId \in Nat,
           Given(own, n, MaxId)
    PROVE  \A l \in 0 .. MaxId :
              /\ Chained(PathIn(own, l), MaxId)
              /\ PathIn(own, l) # <<>> => Last(PathIn(own, l)).id = l
<1> DEFINE P == {l \in 0 .. MaxId :
                    /\ Chained(PathIn(own, l), MaxId)
                    /\ PathIn(own, l) # <<>> => Last(PathIn(own, l)).id = l}
<1>1. ASSUME NEW l \in 0 .. MaxId, \A k \in 0 .. l - 1 : k \in P PROVE l \in P
  <2>1. CASE \E e \in own : e.id = l
    <3> DEFINE e == ById(own, l)
               q == PathIn(own, e.parent)
    <3>1. /\ e \in own /\ e.id = l /\ e.parent \in 0 .. MaxId /\ e.parent < l
          /\ PathIn(own, l) = Append(q, e)
      BY <2>1, PathStep
    <3> HIDE DEF e
    <3>2. q \in Seq(own)
      BY <3>1, PathStep
    <3>3. e.parent \in 0 .. l - 1
      BY <3>1
    <3>4. Chained(q, MaxId) /\ (q # <<>> => Last(q).id = e.parent)
      BY <1>1, <3>3
    <3> HIDE DEF q
    <3>5. q \in Seq(EntryType) /\ e \in EntryType /\ e.id \in 1 .. MaxId
      BY <3>1, <3>2 DEF Given
    <3>6. Chained(Append(q, e), MaxId)
      BY <3>1, <3>4, <3>5, ChainedAppend
    <3>7. Last(Append(q, e)) = e
      BY <3>5, FrontOfAppend
    <3> QED
      BY <3>1, <3>6, <3>7
  <2>2. CASE ~ \E e \in own : e.id = l
    <3>1. PathIn(own, l) = <<>>
      BY <2>2, PathStep
    <3>2. Chained(<<>>, MaxId)
      BY DEF Chained
    <3> QED
      BY <3>1, <3>2
  <2> QED
    BY <2>1, <2>2
<1>2. \A l \in 0 .. MaxId : l \in P
  <2> HIDE DEF P
  <2> QED
    BY <1>1, Upward
<1> QED
  BY <1>2

LEMMA ContextType ==
    ASSUME NEW p \in Seq(EntryType)
    PROVE  ContextOf(p) \in Seq(Nat)
<1> DEFINE C == CompactionsOf(p)
           N == Len(p)
<1>1. N \in Nat /\ C \in SUBSET (1 .. N)
  BY DEF CompactionsOf
<1> HIDE DEF C
<1>2. CASE C = {}
  <2>1. ContextOf(p) = MessagesOf(p)
    BY <1>2, ContextByOpening DEF C
  <2> QED
    BY <2>1, MessagesType
<1>3. CASE C # {}
  <2> DEFINE c == Max(C)
             o == Opening(p, c)
             part == SubSeq(p, c + 1, N)
             rest == MessagesOf(part)
  <2>1. c \in 1 .. N
    BY <1>1, <1>3, GreatestOne
  <2>2. ContextOf(p) = o \o rest
    BY <1>3, ContextByOpening DEF C
  <2> HIDE DEF c
  <2>3. o \in Seq(Nat)
    BY <2>1, HeaderType, OpeningOfAppend
  <2>4. part \in Seq(EntryType)
    <3>1. c + 1 \in Nat \ {0} /\ N \in Nat /\ N <= Len(p)
      BY <1>1, <2>1
    <3> QED
      BY <3>1, PartElements
  <2> HIDE DEF part, o
  <2>5. rest \in Seq(Nat)
    BY <2>4, MessagesType
  <2> HIDE DEF rest
  <2>6. o \o rest \in Seq(Nat)
    BY ONLY <2>3, <2>5, ConcatElements
  <2> QED
    BY <2>2, <2>6
<1> QED
  BY <1>2, <1>3

\* Labels at the end of a path add nothing to its context.
LEMMA LabelsKeepContext ==
    ASSUME NEW p \in Seq(EntryType), NEW t \in Seq(EntryType),
           \A e \in ToSet(t) : e.kind = "label"
    PROVE  ContextOf(p \o t) = ContextOf(p)
<1> DEFINE P == {u \in Seq(EntryType) :
                    (\A e \in ToSet(u) : e.kind = "label") => ContextOf(p \o u) = ContextOf(p)}
<1>1. <<>> \in P
  <2>1. p \o <<>> = p
    BY ConcatEmptySeq
  <2> QED
    BY <2>1
<1>2. ASSUME NEW u \in Seq(EntryType), NEW e \in EntryType, u \in P
      PROVE  Append(u, e) \in P
  <2>1. Append(u, e) \in Seq(EntryType) /\ ToSet(Append(u, e)) = ToSet(u) \cup {e}
    BY AppendElements
  <2> SUFFICES ASSUME \A x \in ToSet(u) \cup {e} : x.kind = "label"
               PROVE  ContextOf(p \o Append(u, e)) = ContextOf(p)
    BY <2>1
  <2>2. ContextOf(p \o u) = ContextOf(p) /\ e.kind = "label"
    BY <1>2
  <2>3. p \o u \in Seq(EntryType) /\ p \o Append(u, e) = Append(p \o u, e)
    OBVIOUS
  <2>4. e.kind \notin CompactionKinds /\ e.kind \notin MessageKinds
    BY <2>2 DEF CompactionKinds, MessageKinds
  <2> DEFINE q == p \o u
             c == ContextOf(q)
  <2>5. q \in Seq(EntryType)
    BY <2>3
  <2> HIDE DEF q
  <2>6. ContextOf(Append(q, e)) = c \o <<>>
    BY <2>4, <2>5, ContextOfAppend
  <2>7. c \in Seq(Nat)
    BY <2>5, ContextType
  <2> HIDE DEF c
  <2>8. c \o <<>> = c
    BY ONLY <2>7, ConcatEmptySeq
  <2> QED
    BY <2>2, <2>3, <2>6, <2>8 DEF q, c
<1>3. \A u \in Seq(EntryType) : u \in P
  <2> HIDE DEF P
  <2> QED
    BY <1>1, <1>2, SequenceInduction
<1> QED
  BY <1>3

\* A chain of labels behind a path.
LEMMA ChainIsChained ==
    ASSUME NEW p \in Seq(EntryType), p # <<>>, MaxId \in Nat, nextId \in Nat \ {0},
           Chained(p, MaxId), Last(p).id < nextId,
           NEW targets \in Seq(Nat),
           LabelChain(targets, Last(p).id) \in Seq(EntryType),
           \A e \in ToSet(LabelChain(targets, Last(p).id)) : e.id <= MaxId
    PROVE  Chained(p \o LabelChain(targets, Last(p).id), MaxId)
<1> DEFINE parent == Last(p).id
           chain == LabelChain(targets, parent)
           q == p \o chain
           M == Len(p)
           N == Len(targets)
<1>1. /\ M \in Nat \ {0} /\ N \in Nat /\ DOMAIN targets = 1 .. N /\ Last(p) = p[M]
      /\ p[M] \in EntryType
  BY DEF Last
<1>2. parent \in Nat /\ parent < nextId /\ parent = p[M].id
  BY <1>1 DEF EntryType
<1> HIDE DEF parent
<1>3. Len(chain) = N
      /\ \A i \in 1 .. N : /\ chain[i].id = nextId + i - 1
                           /\ chain[i].parent = IF i = 1 THEN parent ELSE nextId + i - 2
                           /\ chain[i] \in ToSet(chain)
  <2>1. chain = [i \in 1 .. N |-> [id |-> nextId + i - 1, kind |-> "label", ref |-> targets[i],
                                  parent |-> IF i = 1 THEN parent ELSE nextId + i - 2]]
    BY <1>1 DEF LabelChain
  <2>2. DOMAIN chain = 1 .. N /\ Len(chain) = N
    BY <1>1, <2>1
  <2>3. \A i \in 1 .. N : /\ chain[i].id = nextId + i - 1
                          /\ chain[i].parent = IF i = 1 THEN parent ELSE nextId + i - 2
    BY <2>1
  <2> HIDE DEF chain
  <2>4. \A i \in 1 .. N : chain[i] \in ToSet(chain)
    BY <2>2 DEF ToSet
  <2> QED
    BY <2>2, <2>3, <2>4
<1>4. chain \in Seq(EntryType) /\ \A e \in ToSet(chain) : e.id <= MaxId
  BY DEF parent
<1> HIDE DEF chain
<1>5. /\ q \in Seq(EntryType) /\ Len(q) = M + N
      /\ \A i \in 1 .. M : q[i] = p[i]
      /\ \A i \in 1 .. N : q[M + i] = chain[i]
  <2>1. chain \in Seq(EntryType)
    BY <1>4
  <2>2. /\ p \o chain \in Seq(EntryType) /\ Len(p \o chain) = Len(p) + Len(chain)
        /\ \A i \in 1 .. Len(p) : (p \o chain)[i] = p[i]
        /\ \A i \in 1 .. Len(chain) : (p \o chain)[Len(p) + i] = chain[i]
    BY ONLY <2>1, p \in Seq(EntryType), ConcatElements
  <2> QED
    BY <1>3, <2>2
<1> HIDE DEF q
<1> SUFFICES ASSUME NEW i \in 1 .. M + N
             PROVE  /\ q[i].id \in 1 .. MaxId /\ q[i].parent < q[i].id
                    /\ i > 1 => q[i].parent = q[i - 1].id
  BY <1>5 DEF Chained, q, chain, parent
<1>6. CASE i \in 1 .. M
  <2>1. q[i] = p[i] /\ (i > 1 => q[i - 1] = p[i - 1])
    BY <1>1, <1>5, <1>6
  <2> QED
    BY <1>6, <2>1 DEF Chained
<1>7. CASE i \notin 1 .. M
  <2> DEFINE j == i - M
  <2>1. j \in 1 .. N /\ i = M + j /\ j \in Nat
    BY <1>1, <1>7
  <2>2. /\ q[i] = chain[j] /\ chain[j].id = nextId + j - 1 /\ chain[j].id <= MaxId
        /\ chain[j].parent = IF j = 1 THEN parent ELSE nextId + j - 2
    BY <1>3, <1>4, <1>5, <2>1
  <2>3. q[i].id \in 1 .. MaxId /\ q[i].parent < q[i].id
    <3>1. nextId + j - 1 \in 1 .. MaxId
      BY <2>1, <2>2
    <3>2. CASE j = 1
      BY <1>2, <2>2, <3>1, <3>2
    <3>3. CASE j # 1
      BY <2>1, <2>2, <3>1, <3>3
    <3> QED
      BY <3>2, <3>3
  <2>4. q[i].parent = q[i - 1].id
    <3>1. CASE j = 1
      <4>1. i - 1 = M /\ M \in 1 .. M
        BY <1>1, <2>1, <3>1
      <4>2. q[i - 1] = p[M]
        BY <1>5, <4>1
      <4> QED
        BY <1>2, <2>2, <3>1, <4>2
    <3>2. CASE j # 1
      <4>1. i - 1 = M + (j - 1) /\ j - 1 \in 1 .. N
        BY <1>1, <2>1, <3>2
      <4>2. q[i - 1] = chain[j - 1]
        BY <1>5, <4>1
      <4>3. chain[j - 1].id = nextId + (j - 1) - 1
        BY <1>3, <4>1
      <4> QED
        BY <2>1, <2>2, <3>2, <4>2, <4>3
    <3> QED
      BY <3>1, <3>2
  <2> QED
    BY <2>3, <2>4
<1> QED
  BY <1>6, <1>7

\* The path a branched session has taken over, when no label is on it.
LEMMA WholePath ==
    ASSUME TreeInv, NEW l \in Ids(mem.entries),
           \A e \in ToSet(Path(mem.entries, l)) : e.kind \notin LabelKinds
    PROVE  LET path == PathWithoutLabels(l)
           IN  /\ path = Path(mem.entries, l) /\ path \in Seq(EntryType) /\ path # <<>>
               /\ Chained(path, MaxId) /\ Last(path).id = l /\ l < nextId
               /\ MaxId \in Nat
<1> DEFINE own == EntriesOf(mem.entries)
           path == Path(mem.entries, l)
           S == {e \in ToSet(path) : e.kind \notin LabelKinds}
<1>1. /\ MaxId \in Nat /\ nextId \in Nat /\ own \subseteq EntryType
      /\ Given(own, nextId, MaxId)
  BY MaxIdType, EntriesOfType DEF TreeInv, GoodMem, MemType
<1>2. l \in 0 .. MaxId /\ l < nextId
  BY IdsInRange
<1>3. \E e \in own : e.id = l
  BY DEF Ids
<1>4. path = PathIn(own, l)
  BY DEF Path
<1>5. PathWithoutLabels(l) = Filtered(path, S)
  BY DEF PathWithoutLabels
<1>6. ToSet(path) \subseteq S
  OBVIOUS
<1> HIDE DEF own, path, S
<1>7. path \in Seq(own)
  BY <1>1, <1>2, <1>4, PathStep
<1>8. path \in Seq(EntryType)
  BY <1>1, <1>7
<1>9. PathWithoutLabels(l) = path
  BY <1>5, <1>6, <1>8, FilteredWhole
<1>10. path # <<>>
  <2> DEFINE e == ById(own, l)
             q == PathIn(own, e.parent)
  <2>1. path = Append(q, e) /\ e \in own /\ e.parent \in 0 .. MaxId
    BY <1>1, <1>2, <1>3, <1>4, PathStep
  <2> HIDE DEF e
  <2>2. q \in Seq(own)
    BY <1>1, <2>1, PathStep
  <2> HIDE DEF q
  <2>3. Len(Append(q, e)) = Len(q) + 1 /\ Len(q) \in Nat
    BY <2>1, <2>2, AppendElements
  <2>4. Len(path) # 0
    BY <2>1, <2>3
  <2> QED
    BY <2>4
<1>11. Chained(path, MaxId) /\ Last(path).id = l
  BY <1>1, <1>2, <1>4, <1>10, PathIsChained
<1> QED
  BY <1>1, <1>2, <1>8, <1>9, <1>10, <1>11 DEF path

LEMMA BranchedContext ==
    ASSUME TreeInv, NEW l \in Ids(mem.entries),
           \A e \in ToSet(Path(mem.entries, l)) : e.kind \notin LabelKinds,
           \A e \in ToSet(BranchedEntries(l)) : e.id <= MaxId
    PROVE  LET es == BranchedEntries(l)
           IN  Context(es, LastId(es)) = Context(mem.entries, l)
<1> DEFINE p == PathWithoutLabels(l)
           parent == IF p = <<>> THEN 0 ELSE Last(p).id
           targets == SetToSeq(LabelledOnPath(l))
           chain == LabelChain(targets, Last(p).id)
           head == <<Header>>
           es == BranchedEntries(l)
           q == p \o chain
<1>1. /\ p = Path(mem.entries, l) /\ p \in Seq(EntryType) /\ p # <<>>
      /\ Chained(p, MaxId) /\ Last(p).id = l /\ l < nextId /\ MaxId \in Nat
  BY WholePath
<1>2. parent = Last(p).id
  BY <1>1
<1>3. /\ ToSet(p) \subseteq EntriesOf(mem.entries)
      /\ targets \in Seq(Nat) /\ nextId \in Nat \ {0} /\ Last(p).id \in Nat
      /\ LabelChain(targets, parent) \in Seq(EntryType)
      /\ es = head \o (p \o LabelChain(targets, parent))
      /\ head \in Seq(EntryType) /\ ToSet(head) = {Header}
  <2>1. parent \in Nat
    BY BranchedParts
  <2> QED
    BY <1>2, <2>1, BranchedParts
<1> HIDE DEF parent, p, targets, head, es
<1>4. \A e \in ToSet(chain) : e.kind = "label"
  <2>1. /\ DOMAIN chain = DOMAIN targets
        /\ \A i \in DOMAIN targets : chain[i].kind = "label"
    BY DEF LabelChain
  <2> HIDE DEF chain
  <2> QED
    BY <2>1 DEF ToSet
<1>5. chain \in Seq(EntryType) /\ es = head \o (p \o chain)
  BY <1>2, <1>3
<1> HIDE DEF chain
<1>6. q \in Seq(EntryType) /\ ToSet(q) = ToSet(p) \cup ToSet(chain) /\ Len(q) = Len(p) + Len(chain)
  BY <1>1, <1>5, ConcatElements
<1>7. ContextOf(q) = ContextOf(p)
  BY <1>1, <1>4, <1>5, LabelsKeepContext
<1> HIDE DEF q
<1>8. es \in Seq(EntryType) /\ ToSet(es) = {Header} \cup ToSet(q) /\ es = head \o q
  <2>1. es = head \o q
    BY <1>5 DEF q
  <2> QED
    BY <1>3, <1>6, <2>1, ConcatElements
<1>9. EntriesOf(es) = ToSet(q)
  <2>1. \A e \in ToSet(p) : IsEntry(e)
    BY <1>3 DEF EntriesOf
  <2>2. \A e \in ToSet(chain) : IsEntry(e)
    BY <1>4 DEF IsEntry, AllKinds, LabelKinds
  <2> QED
    BY <1>6, <1>8, <2>1, <2>2, HeaderType DEF EntriesOf
<1>10. Chained(q, MaxId)
  <2>1. \A e \in ToSet(chain) : e.id <= MaxId
    BY <1>6, <1>8 DEF es
  <2> QED
    BY <1>1, <1>3, <1>5, <2>1, ChainIsChained DEF q, chain
<1>11. q # <<>>
  <2>1. Len(p) \in Nat \ {0} /\ Len(chain) \in Nat
    BY <1>1, <1>5
  <2> QED
    BY <1>6, <2>1
<1>12. PathIn(ToSet(q), Last(q).id) = q
  BY <1>1, <1>6, <1>10, <1>11, PathOfChained
<1>13. Filtered(es, EntriesOf(es)) = q
  <2> DEFINE E == EntriesOf(es)
             none == Filtered(head, E)
  <2>1. Filtered(es, E) = none \o Filtered(q, E)
    BY <1>3, <1>6, <1>8, FilteredConcat
  <2>2. Filtered(q, E) = q
    BY <1>6, <1>9, FilteredWhole
  <2>3. none \in Seq(EntryType \cap E) /\ ToSet(none) = {Header} \cap E
    <3> HIDE DEF E
    <3>1. head \in Seq(EntryType) /\ ToSet(head) = {Header}
      BY <1>3
    <3> HIDE DEF head
    <3>2. Filtered(head, E) \in Seq(EntryType \cap E)
          /\ ToSet(Filtered(head, E)) = ToSet(head) \cap E
      BY ONLY <3>1, FilteredElements
    <3> QED
      BY <3>1, <3>2
  <2>4. Header \notin E
    BY HeaderType DEF EntriesOf
  <2> HIDE DEF E, none
  <2>5. ToSet(none) = {}
    BY <2>3, <2>4
  <2>6. none = <<>>
    <3>1. DOMAIN none = 1 .. Len(none) /\ Len(none) \in Nat
      BY ONLY <2>3
    <3>2. DOMAIN none = {}
      BY <2>5 DEF ToSet
    <3>3. Len(none) = 0
      BY <3>1, <3>2
    <3> QED
      BY <2>3, <3>3
  <2>7. <<>> \o q = q
    BY <1>6, ConcatEmptySeq
  <2>8. Filtered(es, E) = q
    BY <2>1, <2>2, <2>6, <2>7
  <2> QED
    BY <2>8 DEF E
<1>14. LastId(es) = Last(q).id
  BY <1>11, <1>13 DEF LastId
<1>15. Context(es, LastId(es)) = ContextOf(q)
  BY <1>9, <1>12, <1>14 DEF Context, Path
<1>16. Context(mem.entries, l) = ContextOf(p)
  BY <1>1 DEF Context
<1> QED
  BY <1>7, <1>15, <1>16 DEF es

\* What a branched session that has been made holds.
LEMMA BranchedResult ==
    ASSUME TreeInv, NEW l, Branched(l)
    PROVE  /\ mem'.entries = BranchedEntries(l)
           /\ mem'.leaf = LastId(BranchedEntries(l))
           /\ mem'.labels = LabelsOf(BranchedEntries(l))
           /\ l \in Ids(mem.entries)
           /\ \A e \in ToSet(BranchedEntries(l)) : e.id <= MaxId
<1>1. PICK f \in Files : CreateBranchedSession(l, f) /\ mem'.file = f
  BY DEF Branched
<1> DEFINE es == BranchedEntries(l)
           loaded == Loaded(f, es)
           has == HasAssistant(es)
           done == [loaded EXCEPT !.flushed = has]
           thrown == [done EXCEPT !.flushed = mem.flushed]
           new == IF has THEN es ELSE <<>>
<1>2. /\ l \in Ids(mem.entries) /\ \A e \in ToSet(es) : e.id <= MaxId
      /\ Perform(done, thrown, new, TRUE)
  BY Zenon, <1>1 DEF CreateBranchedSession
<1>3. /\ loaded.entries = es /\ loaded.leaf = LastId(es) /\ loaded.labels = LabelsOf(es)
      /\ DOMAIN loaded = {"file", "entries", "leaf", "labels", "flushed"}
  BY DEF Loaded
<1> HIDE DEF loaded, has, es
<1>4. /\ done.entries = es /\ done.leaf = LastId(es) /\ done.labels = LabelsOf(es)
      /\ thrown.entries = es /\ thrown.leaf = LastId(es) /\ thrown.labels = LabelsOf(es)
  BY <1>3
<1> HIDE DEF done, thrown, new
<1>5. mem' # Down
  BY <1>1, FilesAssumption DEF Down
<1>6. mem' = done \/ mem' = thrown
  BY Zenon, <1>2, <1>5, PerformEnds
<1> QED
  BY <1>2, <1>4, <1>6 DEF es

LEMMA StepBranchesWhole ==
    ASSUME TreeInv, NEW l \in Ids(mem.entries), Branched(l)
    PROVE  /\ mem'.labels = LabelledOnPath(l)
           /\ (\A e \in ToSet(Path(mem.entries, l)) : e.kind \notin LabelKinds) =>
                 Context(mem'.entries, mem'.leaf) = Context(mem.entries, l)
<1>1. /\ mem'.entries = BranchedEntries(l)
      /\ mem'.leaf = LastId(BranchedEntries(l))
      /\ mem'.labels = LabelsOf(BranchedEntries(l))
      /\ \A e \in ToSet(BranchedEntries(l)) : e.id <= MaxId
  BY BranchedResult
<1>2. mem'.labels = LabelledOnPath(l)
  BY <1>1, BranchedLabels
<1>3. ASSUME \A e \in ToSet(Path(mem.entries, l)) : e.kind \notin LabelKinds
      PROVE  Context(mem'.entries, mem'.leaf) = Context(mem.entries, l)
  BY <1>1, <1>3, BranchedContext
<1> QED
  BY <1>2, <1>3

\* createBranchedSession copies the whole path, as long as no label was set on
\* it, and the labels of what it copies, even when the write of it throws.
THEOREM BranchIsWholeAlways == Spec => BranchIsWhole
<1> DEFINE Labels == \A l \in Ids(mem.entries) : Branched(l) => mem'.labels = LabelledOnPath(l)
           Contexts == \A l \in Ids(mem.entries) :
               Branched(l) /\ (\A e \in ToSet(Path(mem.entries, l)) : e.kind \notin LabelKinds) =>
                   Context(mem'.entries, mem'.leaf) = Context(mem.entries, l)
<1>1. Spec => []TreeInv
  BY AlwaysTree
<1>2. TreeInv => Labels /\ Contexts
  BY StepBranchesWhole
<1> QED
  BY <1>1, <1>2, PTL DEF Spec, BranchIsWhole, BranchKeepsLabels, UnlabelledBranchKeepsContext
-----------------------------------------------------------------------------
(***************************************************************************)
(* Compactions.                                                            *)
(***************************************************************************)

\* The messages of a path from one entry to another.
Part(p, a, b) == MessagesOf(SubSeq(p, a, b))

LEMMA MessagesOfFew ==
    /\ MessagesOf(<<>>) = <<>>
    /\ \A e \in EntryType :
          MessagesOf(<<e>>) = IF e.kind \in MessageKinds THEN <<e.id>> ELSE <<>>
<1>1. MessagesOf(<<>>) = <<>>
  <2> DEFINE own == Filtered(<<>>, {e \in ToSet(<<>>) : e.kind \in MessageKinds})
  <2>1. MessagesOf(<<>>) = [i \in DOMAIN own |-> own[i].id]
    BY DEF MessagesOf
  <2>2. own = <<>>
    BY FilteredEmpty
  <2> HIDE DEF own
  <2> QED
    BY <2>1, <2>2
<1>2. ASSUME NEW e \in EntryType
      PROVE  MessagesOf(<<e>>) = IF e.kind \in MessageKinds THEN <<e.id>> ELSE <<>>
  <2> DEFINE more == IF e.kind \in MessageKinds THEN <<e.id>> ELSE <<>>
  <2>1. <<>> \in Seq(EntryType) /\ Append(<<>>, e) = <<e>>
    OBVIOUS
  <2>2. MessagesOf(Append(<<>>, e)) = MessagesOf(<<>>) \o more
    BY <2>1, MessagesOfAppend
  <2>3. more \in Seq(Nat)
    BY DEF EntryType
  <2> HIDE DEF more
  <2>4. <<>> \o more = more
    BY <2>3, ConcatEmptySeq
  <2> QED
    BY <1>1, <2>1, <2>2, <2>4 DEF more
<1> QED
  BY <1>1, <1>2

Associates(a, b, c) == (a \o b) \o c = a \o (b \o c)

LEMMA NumbersAssociate == \A a, b, c \in Seq(Nat) : Associates(a, b, c)
  BY ConcatAssociative DEF Associates

LEMMA MessagesOfConcat ==
    ASSUME NEW p \in Seq(EntryType), NEW q \in Seq(EntryType)
    PROVE  MessagesOf(p \o q) = MessagesOf(p) \o MessagesOf(q)
<1> DEFINE P == {u \in Seq(EntryType) : MessagesOf(p \o u) = MessagesOf(p) \o MessagesOf(u)}
           m == MessagesOf(p)
<1>0. m \in Seq(Nat)
  BY MessagesType
<1>1. <<>> \in P
  <2>1. p \o <<>> = p /\ MessagesOf(<<>>) = <<>> /\ <<>> \in Seq(EntryType)
    BY ConcatEmptySeq, MessagesOfFew
  <2> HIDE DEF m
  <2>2. m \o <<>> = m
    BY <1>0, ConcatEmptySeq
  <2>3. MessagesOf(p \o <<>>) = m \o MessagesOf(<<>>)
    BY <2>1, <2>2 DEF m
  <2> QED
    BY <2>1, <2>3 DEF m
<1>2. ASSUME NEW u \in Seq(EntryType), NEW e \in EntryType, u \in P
      PROVE  Append(u, e) \in P
  <2> DEFINE more == IF e.kind \in MessageKinds THEN <<e.id>> ELSE <<>>
             k == MessagesOf(u)
             c == p \o u
  <2>1. c \in Seq(EntryType) /\ p \o Append(u, e) = Append(c, e) /\ Append(u, e) \in Seq(EntryType)
    OBVIOUS
  <2> HIDE DEF c
  <2>2. MessagesOf(Append(c, e)) = MessagesOf(c) \o more
    BY <2>1, MessagesOfAppend
  <2>3. MessagesOf(Append(u, e)) = k \o more /\ k \in Seq(Nat)
    BY MessagesOfAppend
  <2>4. MessagesOf(c) = m \o k
    BY <1>2 DEF c
  <2>5. more \in Seq(Nat)
    BY DEF EntryType
  <2> HIDE DEF more, k, m
  <2>6. (m \o k) \o more = m \o (k \o more)
    <3>1. m \in Seq(Nat) /\ k \in Seq(Nat) /\ more \in Seq(Nat)
      BY <1>0, <2>3, <2>5
    <3> QED
      BY Zenon, <3>1, NumbersAssociate DEF Associates
  <2>7. MessagesOf(p \o Append(u, e)) = m \o MessagesOf(Append(u, e))
    BY <2>1, <2>2, <2>3, <2>4, <2>6
  <2> QED
    BY <2>1, <2>7 DEF m
<1>3. \A u \in Seq(EntryType) : u \in P
  <2> HIDE DEF P
  <2> QED
    BY <1>1, <1>2, SequenceInduction
<1> QED
  BY <1>3

LEMMA MessagesElements ==
    ASSUME NEW p \in Seq(EntryType)
    PROVE  ToSet(MessagesOf(p)) = {e.id : e \in {x \in ToSet(p) : x.kind \in MessageKinds}}
<1> DEFINE S == {x \in ToSet(p) : x.kind \in MessageKinds}
           own == Filtered(p, S)
<1>1. ToSet(own) = ToSet(p) \cap S
  <2> HIDE DEF S
  <2> QED
    BY FilteredElements
<1>2. MessagesOf(p) = [i \in DOMAIN own |-> own[i].id]
  BY DEF MessagesOf
<1> HIDE DEF own
<1>3. ToSet(MessagesOf(p)) = {x.id : x \in ToSet(own)}
  BY <1>2 DEF ToSet
<1> QED
  BY <1>1, <1>3

\* A part of a sequence in two parts.
LEMMA PartInTwo ==
    ASSUME NEW S, NEW s \in Seq(S), NEW a \in Nat \ {0}, NEW b \in Nat, NEW d \in Nat,
           a <= b + 1, b <= d, d <= Len(s)
    PROVE  SubSeq(s, a, d) = SubSeq(s, a, b) \o SubSeq(s, b + 1, d)
<1> DEFINE u == SubSeq(s, a, b)
           v == SubSeq(s, b + 1, d)
           w == SubSeq(s, a, d)
           j == b - a + 1
           k == d - b
<1>1. u \in Seq(S) /\ v \in Seq(S)
  <2>1. b <= Len(s) /\ b + 1 \in Nat \ {0} /\ Len(s) \in Nat
    OBVIOUS
  <2> QED
    BY <2>1, PartElements
<1>2. j \in Nat /\ k \in Nat
  OBVIOUS
<1>3. /\ u = [i \in 1 .. j |-> s[a + i - 1]]
      /\ v = [i \in 1 .. k |-> s[b + 1 + i - 1]]
      /\ w = [i \in 1 .. j + k |-> s[a + i - 1]]
  <2>1. d - (b + 1) + 1 = k /\ d - a + 1 = j + k
    OBVIOUS
  <2> QED
    BY <2>1
<1> HIDE DEF u, v, w
<1>4. Len(u) = j /\ Len(v) = k
  BY <1>2, <1>3
<1> DEFINE c == u \o v
<1>5. /\ c \in Seq(S) /\ Len(c) = j + k
      /\ \A i \in 1 .. j : c[i] = u[i]
      /\ \A i \in 1 .. k : c[j + i] = v[i]
  <2>1. /\ u \o v \in Seq(S) /\ Len(u \o v) = Len(u) + Len(v)
        /\ \A i \in 1 .. Len(u) : (u \o v)[i] = u[i]
        /\ \A i \in 1 .. Len(v) : (u \o v)[Len(u) + i] = v[i]
    BY ONLY <1>1, ConcatElements
  <2> QED
    BY <1>4, <2>1
<1> HIDE DEF c
<1>6. \A i \in 1 .. j + k : c[i] = s[a + i - 1]
  <2> SUFFICES ASSUME NEW i \in 1 .. j + k PROVE c[i] = s[a + i - 1]
    OBVIOUS
  <2>1. CASE i \in 1 .. j
    BY <1>3, <1>5, <2>1
  <2>2. CASE i \notin 1 .. j
    <3>1. i - j \in 1 .. k /\ i = j + (i - j)
      BY <1>2, <2>2
    <3>2. c[i] = v[i - j]
      BY <1>5, <3>1
    <3>3. v[i - j] = s[b + 1 + (i - j) - 1]
      BY <1>3, <3>1
    <3>4. b + 1 + (i - j) - 1 = a + i - 1
      OBVIOUS
    <3> QED
      BY <3>2, <3>3, <3>4
  <2> QED
    BY <2>1, <2>2
<1>7. c = [i \in 1 .. j + k |-> c[i]]
  BY <1>2, <1>5
<1>8. w = c
  BY <1>3, <1>6, <1>7
<1> QED
  BY <1>8 DEF c, u, v, w

LEMMA PartFacts ==
    ASSUME NEW p \in Seq(EntryType), NEW a \in Nat \ {0}, NEW b \in Nat, b <= Len(p)
    PROVE  /\ Part(p, a, b) \in Seq(Nat)
           /\ ToSet(Part(p, a, b)) = {p[i].id : i \in {k \in a .. b : p[k].kind \in MessageKinds}}
           /\ a = b + 1 => Part(p, a, b) = <<>>
<1> DEFINE s == SubSeq(p, a, b)
<1>1. s \in Seq(EntryType) /\ ToSet(s) = {p[i] : i \in a .. b}
  BY PartElements
<1>2. a = b + 1 => s = <<>>
  OBVIOUS
<1> HIDE DEF s
<1>3. /\ MessagesOf(s) \in Seq(Nat)
      /\ ToSet(MessagesOf(s)) = {e.id : e \in {x \in ToSet(s) : x.kind \in MessageKinds}}
  BY <1>1, MessagesType, MessagesElements
<1>4. {e.id : e \in {x \in ToSet(s) : x.kind \in MessageKinds}}
         = {p[i].id : i \in {k \in a .. b : p[k].kind \in MessageKinds}}
  BY <1>1
<1>5. s = <<>> => MessagesOf(s) = <<>>
  BY MessagesOfFew
<1> QED
  BY <1>2, <1>3, <1>4, <1>5 DEF Part, s

LEMMA PartSplit ==
    ASSUME NEW p \in Seq(EntryType), NEW a \in Nat \ {0}, NEW b \in Nat, NEW d \in Nat,
           a <= b + 1, b <= d, d <= Len(p)
    PROVE  Part(p, a, d) = Part(p, a, b) \o Part(p, b + 1, d)
<1> DEFINE u == SubSeq(p, a, b)
           v == SubSeq(p, b + 1, d)
<1>1. u \in Seq(EntryType) /\ v \in Seq(EntryType)
  <2>1. b <= Len(p) /\ b + 1 \in Nat \ {0}
    OBVIOUS
  <2> QED
    BY <2>1, PartElements
<1>2. SubSeq(p, a, d) = u \o v
  BY PartInTwo
<1> HIDE DEF u, v
<1>3. MessagesOf(u \o v) = MessagesOf(u) \o MessagesOf(v)
  BY <1>1, MessagesOfConcat
<1> QED
  BY <1>2, <1>3 DEF Part, u, v

LEMMA PartOne ==
    ASSUME NEW p \in Seq(EntryType), NEW i \in 1 .. Len(p)
    PROVE  Part(p, i, i) = IF p[i].kind \in MessageKinds THEN <<p[i].id>> ELSE <<>>
<1>1. p[i] \in EntryType
  OBVIOUS
<1>2. SubSeq(p, i, i) = <<p[i]>>
  <2>1. SubSeq(p, i, i) = [j \in 1 .. 1 |-> p[i + j - 1]]
    OBVIOUS
  <2>2. \A j \in 1 .. 1 : p[i + j - 1] = p[i]
    OBVIOUS
  <2>3. <<p[i]>> = [j \in 1 .. 1 |-> p[i]]
    OBVIOUS
  <2> QED
    BY <2>1, <2>2, <2>3
<1> QED
  BY <1>1, <1>2, MessagesOfFew DEF Part

\* The first of two places of an element that occurs once.
LEMMA OnceInTwo ==
    ASSUME NEW X \in Seq(Nat), NEW Y \in Seq(Nat), Y # <<>>, NEW r, Head(Y) = r,
           r \notin ToSet(X), r \notin ToSet(Tail(Y))
    PROVE  LET s == X \o Y
               from == CHOOSE i \in DOMAIN s : s[i] = r
           IN  SubSeq(s, from, Len(s)) = Y
<1> DEFINE s == X \o Y
           M == Len(X)
           N == Len(Y)
           from == CHOOSE i \in DOMAIN s : s[i] = r
           t == Tail(Y)
<1>1. /\ s \in Seq(Nat) /\ Len(s) = M + N /\ M \in Nat /\ N \in Nat
      /\ \A i \in 1 .. M : s[i] = X[i]
      /\ \A i \in 1 .. N : s[M + i] = Y[i]
  BY ConcatElements
<1>2. /\ Y[1] = r /\ N = Len(t) + 1 /\ Len(t) \in Nat /\ t \in Seq(Nat)
      /\ \A i \in 1 .. Len(t) : t[i] = Y[i + 1]
  BY HeadAndTail
<1>3. DOMAIN s = 1 .. M + N
  BY <1>1
<1> HIDE DEF s, t
<1>4. ASSUME NEW i \in 1 .. M + N, s[i] = r PROVE i = M + 1
  <2>1. i \notin 1 .. M
    <3>1. \A k \in 1 .. M : X[k] \in ToSet(X)
      BY DEF ToSet
    <3> QED
      BY <1>1, <1>4, <3>1
  <2>2. CASE i # M + 1
    <3> DEFINE k == i - M - 1
    <3>1. k \in 1 .. Len(t) /\ i = M + (k + 1) /\ k + 1 \in 1 .. N
      BY <1>1, <1>2, <2>1, <2>2
    <3>2. s[i] = Y[k + 1] /\ t[k] = Y[k + 1]
      BY <1>1, <1>2, <3>1
    <3>3. t[k] \in ToSet(t)
      BY <1>2, <3>1 DEF ToSet
    <3> QED
      BY <1>4, <3>2, <3>3 DEF t
  <2> QED
    BY <2>2
<1>5. M + 1 \in 1 .. M + N /\ s[M + 1] = r
  BY <1>1, <1>2
<1>6. from = M + 1
  BY <1>3, <1>4, <1>5
<1> HIDE DEF from
<1>7. SubSeq(s, M + 1, M + N) = Y
  <2> DEFINE u == SubSeq(s, M + 1, M + N)
  <2>1. u = [i \in 1 .. N |-> s[M + 1 + i - 1]]
    <3>1. M + N - (M + 1) + 1 = N
      BY <1>1
    <3> QED
      BY <1>1, <3>1
  <2>2. \A i \in 1 .. N : s[M + 1 + i - 1] = Y[i]
    <3> SUFFICES ASSUME NEW i \in 1 .. N PROVE s[M + 1 + i - 1] = Y[i]
      OBVIOUS
    <3>1. M + 1 + i - 1 = M + i
      BY <1>1
    <3> QED
      BY <1>1, <3>1
  <2>3. Y = [i \in 1 .. N |-> Y[i]]
    BY <1>1
  <2> HIDE DEF u
  <2>4. u = Y
    BY <2>1, <2>2, <2>3
  <2> QED
    BY <2>4 DEF u
<1> QED
  BY <1>1, <1>6, <1>7 DEF s, from

LEMMA LastPartOfPath ==
    ASSUME NEW p \in Seq(EntryType)
    PROVE  MessagesOf(p) = Part(p, 1, Len(p))
  BY PrefixWhole DEF Part

\* No two entries of a path have one id.
OnceEach(p) == \A i, j \in DOMAIN p : p[i].id = p[j].id => i = j

LEMMA ChainedOnce ==
    ASSUME NEW p \in Seq(EntryType), NEW max, Chained(p, max)
    PROVE  OnceEach(p)
<1> DEFINE N == Len(p)
           S == {j \in 0 .. N : \A i \in 1 .. j - 1 : p[i].id < p[j].id}
<1>1. N \in Nat /\ DOMAIN p = 1 .. N /\ \A i \in 1 .. N : p[i].id \in Nat
  <2>1. \A i \in 1 .. N : p[i] \in EntryType
    OBVIOUS
  <2> QED
    BY <2>1 DEF EntryType
<1>2. ASSUME NEW j \in 0 .. N, \A k \in 0 .. j - 1 : k \in S PROVE j \in S
  <2> SUFFICES ASSUME NEW i \in 1 .. j - 1 PROVE p[i].id < p[j].id
    OBVIOUS
  <2>1. j \in 1 .. N /\ j > 1 /\ j - 1 \in 1 .. N /\ i \in 1 .. N
    BY <1>1
  <2>2. p[j - 1].id < p[j].id
    BY <2>1 DEF Chained
  <2>3. CASE i = j - 1
    BY <2>2, <2>3
  <2>4. CASE i # j - 1
    <3>1. j - 1 \in 0 .. j - 1 /\ i \in 1 .. (j - 1) - 1
      BY <2>1, <2>4
    <3>2. j - 1 \in S
      BY <1>2, <3>1
    <3>3. p[i].id < p[j - 1].id
      BY <3>1, <3>2
    <3> QED
      BY <1>1, <2>1, <2>2, <3>3
  <2> QED
    BY <2>3, <2>4
<1>3. \A j \in 0 .. N : j \in S
  <2> HIDE DEF S
  <2> QED
    BY <1>1, <1>2, Upward
<1>4. ASSUME NEW i \in 1 .. N, NEW j \in 1 .. N, p[i].id = p[j].id PROVE i = j
  <2>1. i \in S /\ j \in S
    BY <1>1, <1>3
  <2>2. CASE i < j
    <3>1. i \in 1 .. j - 1
      BY <2>2
    <3> QED
      BY <1>1, <1>4, <2>1, <3>1
  <2>3. CASE j < i
    <3>1. j \in 1 .. i - 1
      BY <2>3
    <3> QED
      BY <1>1, <1>4, <2>1, <3>1
  <2> QED
    BY <2>2, <2>3
<1> QED
  BY <1>1, <1>4 DEF OnceEach

\* The entries of a path are those the ids stand for.
LEMMA PathById ==
    ASSUME NEW own, own \subseteq EntryType, NEW n \in Nat, MaxId \in Nat,
           Given(own, n, MaxId)
    PROVE  \A l \in 0 .. MaxId : \A x \in ToSet(PathIn(own, l)) :
              x \in own /\ ById(own, x.id) = x
<1> DEFINE P == {l \in 0 .. MaxId : \A x \in ToSet(PathIn(own, l)) :
                    x \in own /\ ById(own, x.id) = x}
<1>1. ASSUME NEW l \in 0 .. MaxId, \A k \in 0 .. l - 1 : k \in P PROVE l \in P
  <2>1. CASE \E e \in own : e.id = l
    <3> DEFINE e == ById(own, l)
               q == PathIn(own, e.parent)
    <3>1. /\ e \in own /\ e.id = l /\ e.parent \in 0 .. MaxId /\ e.parent < l
          /\ PathIn(own, l) = Append(q, e)
      BY <2>1, PathStep
    <3>2. ById(own, e.id) = e
      BY <3>1
    <3> HIDE DEF e
    <3>3. q \in Seq(own)
      BY <3>1, PathStep
    <3>4. e.parent \in 0 .. l - 1
      BY <3>1
    <3>5. \A x \in ToSet(q) : x \in own /\ ById(own, x.id) = x
      BY <1>1, <3>4
    <3> HIDE DEF q
    <3>6. ToSet(Append(q, e)) = ToSet(q) \cup {e}
      BY <3>1, <3>3, AppendElements
    <3> QED
      BY <3>1, <3>2, <3>5, <3>6
  <2>2. CASE ~ \E e \in own : e.id = l
    <3>1. PathIn(own, l) = <<>>
      BY <2>2, PathStep
    <3>2. ToSet(<<>>) = {}
      BY DEF ToSet
    <3> QED
      BY <3>1, <3>2
  <2> QED
    BY <2>1, <2>2
<1>2. \A l \in 0 .. MaxId : l \in P
  <2> HIDE DEF P
  <2> QED
    BY <1>1, Upward
<1> QED
  BY <1>2

\* What the opening of a context is made of: the summary, and a part of the path.
LEMMA OpeningParts ==
    ASSUME NEW p \in Seq(EntryType), NEW c \in 1 .. Len(p)
    PROVE  \E k \in 1 .. c : Opening(p, c) \in {<<p[c].id>> \o Part(p, k, c - 1),
                                                Part(p, k, c - 1) \o <<p[c].id>>}
<1> DEFINE first == {i \in 1..c : p[i].id = p[c].ref}
           m == Min(first)
<1>1. c \in 1 .. c /\ c - 1 \in Nat /\ c \in Nat \ {0} /\ c - 1 <= Len(p) /\ c = (c - 1) + 1
  OBVIOUS
<1>2. CASE first = {}
  <2>1. Part(p, c, c - 1) = <<>>
    BY <1>1, PartFacts
  <2>2. Opening(p, c) \in {<<p[c].id>> \o <<>>, <<>> \o <<p[c].id>>}
    BY <1>2 DEF Opening
  <2> QED
    BY <1>1, <2>1, <2>2
<1>3. CASE first # {}
  <2>1. m \in 1 .. c
    <3>1. first \in SUBSET (1 .. c) /\ c \in Nat
      OBVIOUS
    <3> HIDE DEF first
    <3> QED
      BY <1>3, <3>1, LeastOne
  <2>2. Opening(p, c) \in {<<p[c].id>> \o Part(p, m, c - 1), Part(p, m, c - 1) \o <<p[c].id>>}
    BY <1>3 DEF Opening, Part
  <2> HIDE DEF m
  <2> QED
    BY <2>1, <2>2
<1> QED
  BY <1>2, <1>3

LEMMA NumbersTogether ==
    \A a, b \in Seq(Nat) : a \o b \in Seq(Nat) /\ ToSet(a \o b) = ToSet(a) \cup ToSet(b)
  BY ConcatElements

\* A context in three: what precedes the compaction, it, and what follows.
LEMMA ContextParts ==
    ASSUME NEW p \in Seq(EntryType), CompactionsOf(p) # {}
    PROVE  \E c \in 1 .. Len(p), k \in 1 .. Len(p), S1, S2 \in Seq(Nat) :
              /\ p[c].kind \in CompactionKinds /\ k <= c
              /\ ToSet(S1) \cup ToSet(S2) = {p[c].id}
              /\ ContextOf(p) = (S1 \o Part(p, k, c - 1)) \o (S2 \o Part(p, c + 1, Len(p)))
<1> DEFINE C == CompactionsOf(p)
           N == Len(p)
           c == Max(C)
           x == p[c].id
           o == Opening(p, c)
           rest == Part(p, c + 1, N)
<1>1. N \in Nat /\ C \in SUBSET (1 .. N) /\ C # {}
  BY DEF CompactionsOf
<1>2. c \in 1 .. N /\ c \in C
  <2> HIDE DEF C
  <2> QED
    BY <1>1, GreatestOne
<1>3. ContextOf(p) = o \o rest
  BY ContextByOpening DEF Part
<1>4. p[c].kind \in CompactionKinds
  <2> HIDE DEF c
  <2> QED
    BY <1>2 DEF CompactionsOf
<1> HIDE DEF c, C
<1>5. p[c] \in EntryType /\ x \in Nat
  <2>1. p[c] \in EntryType
    BY <1>2
  <2> QED
    BY <2>1 DEF EntryType
<1>6. rest \in Seq(Nat)
  <2>1. c + 1 \in Nat \ {0} /\ N \in Nat /\ N <= Len(p)
    BY <1>1, <1>2
  <2> QED
    BY <2>1, PartFacts
<1>7. PICK k \in 1 .. c : o \in {<<x>> \o Part(p, k, c - 1), Part(p, k, c - 1) \o <<x>>}
  BY <1>2, OpeningParts
<1> DEFINE kept == Part(p, k, c - 1)
<1>8. kept \in Seq(Nat)
  <2>1. k \in Nat \ {0} /\ c - 1 \in Nat /\ c - 1 <= Len(p)
    BY <1>1, <1>2
  <2> QED
    BY <2>1, PartFacts
<1>9. k \in 1 .. N /\ k <= c
  BY <1>1, <1>2
<1> HIDE DEF kept, rest, x, o
<1>10. <<x>> \in Seq(Nat) /\ ToSet(<<x>>) = {x} /\ <<>> \in Seq(Nat) /\ ToSet(<<>>) = {}
  BY <1>5, FewElements
<1>11. <<>> \o rest = rest /\ <<>> \o kept = kept
  BY <1>6, <1>8, ConcatEmptySeq
<1>12. CASE o = <<x>> \o kept
  <2>1. ContextOf(p) = (<<x>> \o kept) \o (<<>> \o rest)
    BY <1>3, <1>11, <1>12
  <2>2. ToSet(<<x>>) \cup ToSet(<<>>) = {x}
    BY <1>10
  <2> QED
    BY <1>2, <1>4, <1>9, <1>10, <2>1, <2>2 DEF kept, rest, x
<1>13. CASE o = kept \o <<x>>
  <2>1. ContextOf(p) = (<<>> \o kept) \o (<<x>> \o rest)
    <3>1. (kept \o <<x>>) \o rest = kept \o (<<x>> \o rest)
      BY Zenon, <1>6, <1>8, <1>10, NumbersAssociate DEF Associates
    <3> QED
      BY <1>3, <1>11, <1>13, <3>1
  <2>2. ToSet(<<>>) \cup ToSet(<<x>>) = {x}
    BY <1>10
  <2> QED
    BY <1>2, <1>4, <1>9, <1>10, <2>1, <2>2 DEF kept, rest, x
<1> QED
  BY <1>7, <1>12, <1>13 DEF kept

LEMMA HeadOfConcat ==
    \A x \in Nat, t \in Seq(Nat) :
        <<x>> \o t # <<>> /\ Head(<<x>> \o t) = x /\ Tail(<<x>> \o t) = t
<1> SUFFICES ASSUME NEW x \in Nat, NEW t \in Seq(Nat)
             PROVE  <<x>> \o t # <<>> /\ Head(<<x>> \o t) = x /\ Tail(<<x>> \o t) = t
  OBVIOUS
<1> DEFINE h == <<x>>
           s == h \o t
           N == Len(t)
<1>1. h \in Seq(Nat) /\ Len(h) = 1 /\ h[1] = x
  BY FewElements
<1> HIDE DEF h
<1>2. /\ s \in Seq(Nat) /\ Len(s) = 1 + N /\ N \in Nat
      /\ s[1] = x /\ \A i \in 1 .. N : s[1 + i] = t[i]
  BY <1>1, ConcatElements
<1> HIDE DEF s
<1>3. s # <<>>
  BY <1>2
<1> DEFINE u == Tail(s)
<1>4. Head(s) = x /\ u \in Seq(Nat) /\ Len(u) = N /\ \A i \in 1 .. N : u[i] = s[i + 1]
  BY <1>2, <1>3, HeadAndTail
<1> HIDE DEF u
<1>5. \A i \in 1 .. N : u[i] = t[i]
  <2> SUFFICES ASSUME NEW i \in 1 .. N PROVE u[i] = t[i]
    OBVIOUS
  <2>1. i + 1 = 1 + i
    BY <1>2
  <2> QED
    BY <1>2, <1>4, <2>1
<1>6. u = [i \in 1 .. N |-> u[i]] /\ t = [i \in 1 .. N |-> t[i]]
  BY <1>4
<1>7. u = t
  BY <1>5, <1>6
<1> QED
  BY <1>3, <1>4, <1>7 DEF s, u, h

\* r stands once in s, at the beginning of Y.
Splits(s, X, Y, r) ==
    /\ X \in Seq(Nat) /\ Y \in Seq(Nat) /\ s = X \o Y
    /\ Y # <<>> /\ Head(Y) = r
    /\ r \notin ToSet(X) /\ r \notin ToSet(Tail(Y))

\* A part of the path from a message on, with something behind it.
LEMMA PartFromMessage ==
    ASSUME NEW p \in Seq(EntryType), OnceEach(p), NEW m \in 1 .. Len(p),
           p[m].kind \in MessageKinds, NEW b \in Nat, m <= b, b <= Len(p),
           NEW W \in Seq(Nat), p[m].id \notin ToSet(W),
           NEW X \in Seq(Nat), p[m].id \notin ToSet(X)
    PROVE  Splits(X \o (Part(p, m, b) \o W), X, Part(p, m, b) \o W, p[m].id)
<1> DEFINE r == p[m].id
           f == Part(p, m + 1, b)
           t == f \o W
           Y == Part(p, m, b) \o W
<1>1. m \in Nat \ {0} /\ m + 1 \in Nat \ {0} /\ m \in Nat /\ m <= m + 1 /\ Len(p) \in Nat
  OBVIOUS
<1>2. r \in Nat
  <2>1. p[m] \in EntryType
    OBVIOUS
  <2> QED
    BY <2>1 DEF EntryType
<1>3. Part(p, m, b) = <<r>> \o f
  <2>1. Part(p, m, b) = Part(p, m, m) \o Part(p, m + 1, b)
    <3>1. /\ p \in Seq(EntryType) /\ m \in Nat \ {0} /\ m \in Nat /\ b \in Nat
          /\ m <= m + 1 /\ m <= b /\ b <= Len(p)
      BY <1>1
    <3> QED
      BY ONLY <3>1, PartSplit
  <2>2. Part(p, m, m) = <<r>>
    BY PartOne
  <2> QED
    BY <2>1, <2>2
<1>4. f \in Seq(Nat) /\ r \notin ToSet(f)
  <2>1. /\ f \in Seq(Nat)
        /\ ToSet(f) = {p[i].id : i \in {k \in m + 1 .. b : p[k].kind \in MessageKinds}}
    BY <1>1, PartFacts
  <2>2. \A i \in m + 1 .. b : i \in DOMAIN p /\ m \in DOMAIN p /\ i # m
    BY <1>1
  <2>3. \A i \in m + 1 .. b : p[i].id # r
    BY <2>2 DEF OnceEach
  <2> QED
    BY <2>1, <2>3
<1> HIDE DEF f, r
<1>5. <<r>> \in Seq(Nat)
  BY <1>2
<1>6. t \in Seq(Nat) /\ ToSet(t) = ToSet(f) \cup ToSet(W)
  BY Zenon, <1>4, NumbersTogether
<1>7. Y = <<r>> \o t
  <2>1. (<<r>> \o f) \o W = <<r>> \o (f \o W)
    BY Zenon, <1>4, <1>5, NumbersAssociate DEF Associates
  <2> QED
    BY <1>3, <2>1
<1>8. r \notin ToSet(t)
  BY <1>4, <1>6 DEF r
<1> HIDE DEF t
<1>9. Y \in Seq(Nat)
  BY Zenon, <1>5, <1>6, <1>7, NumbersTogether
<1> HIDE DEF Y
<1>10. Y # <<>> /\ Head(Y) = r /\ Tail(Y) = t
  BY Zenon, <1>2, <1>6, <1>7, HeadOfConcat
<1>11. X \o Y = X \o Y /\ r \notin ToSet(X)
  BY DEF r
<1>12. Splits(X \o Y, X, Y, r)
  BY <1>8, <1>9, <1>10, <1>11 DEF Splits
<1> QED
  BY <1>12 DEF Y, r

\* The messages of a set that marks them in the path.
Marks(G, p) == \A i \in 1 .. Len(p) : p[i].id \in G <=> p[i].kind \in MessageKinds

Distributes(a, b, G) == Filtered(a \o b, G) = Filtered(a, G) \o Filtered(b, G)

LEMMA NumbersFiltered == \A a, b \in Seq(Nat) : \A G : Distributes(a, b, G)
  BY FilteredConcat DEF Distributes

LEMMA PartMarked ==
    ASSUME NEW p \in Seq(EntryType), NEW a \in Nat \ {0}, NEW b \in Nat, b <= Len(p),
           NEW G, Marks(G, p)
    PROVE  Filtered(Part(p, a, b), G) = Part(p, a, b)
<1> DEFINE f == Part(p, a, b)
<1>1. f \in Seq(Nat)
      /\ ToSet(f) = {p[i].id : i \in {k \in a .. b : p[k].kind \in MessageKinds}}
  BY PartFacts
<1>2. \A i \in a .. b : i \in 1 .. Len(p)
  OBVIOUS
<1> HIDE DEF f
<1>3. ToSet(f) \subseteq G
  BY <1>1, <1>2 DEF Marks
<1>4. Filtered(f, G) = f
  BY <1>1, <1>3, FilteredWhole
<1> QED
  BY <1>4 DEF f

\* Nothing of what is not in G is kept.
LEMMA FilteredNone ==
    ASSUME NEW s \in Seq(Nat), NEW G, ToSet(s) \cap G = {}
    PROVE  Filtered(s, G) = <<>>
<1> DEFINE f == Filtered(s, G)
<1>1. f \in Seq(Nat \cap G) /\ ToSet(f) = ToSet(s) \cap G
  BY FilteredElements
<1> HIDE DEF f
<1>2. DOMAIN f = 1 .. Len(f) /\ Len(f) \in Nat
  BY ONLY <1>1
<1>3. DOMAIN f = {}
  BY <1>1 DEF ToSet
<1>4. Len(f) = 0
  BY <1>2, <1>3
<1>5. f = <<>>
  BY <1>1, <1>4
<1> QED
  BY <1>5 DEF f

\* From a message of the context on, the context holds the messages that the
\* path holds from there on, and perhaps the summary of a compaction.
LEMMA TailOfContext ==
    ASSUME NEW p \in Seq(EntryType), OnceEach(p), NEW m \in 1 .. Len(p),
           p[m].kind \in MessageKinds, p[m].id \in ToSet(ContextOf(p)),
           NEW G, Marks(G, p)
    PROVE  \E X, Y : /\ Splits(ContextOf(p), X, Y, p[m].id)
                     /\ Filtered(Y, G) = Part(p, m, Len(p))
<1> DEFINE N == Len(p)
           r == p[m].id
           old == ContextOf(p)
<1>1. /\ N \in Nat /\ m \in Nat \ {0} /\ m \in Nat /\ m - 1 \in Nat
      /\ \A i, j \in 1 .. N : p[i].id = p[j].id => i = j
  BY DEF OnceEach
<1>2. ASSUME NEW a \in Nat \ {0}, NEW b \in Nat, b <= N
      PROVE  /\ Part(p, a, b) \in Seq(Nat) /\ Filtered(Part(p, a, b), G) = Part(p, a, b)
             /\ m \notin a .. b => r \notin ToSet(Part(p, a, b))
             /\ r \in ToSet(Part(p, a, b)) => m \in a .. b
  <2>1. /\ Part(p, a, b) \in Seq(Nat)
        /\ ToSet(Part(p, a, b)) = {p[i].id : i \in {k \in a .. b : p[k].kind \in MessageKinds}}
    BY <1>2, PartFacts
  <2>2. Filtered(Part(p, a, b), G) = Part(p, a, b)
    BY <1>2, PartMarked
  <2>3. \A i \in a .. b : i \in 1 .. N /\ (p[i].id = r => i = m)
    BY <1>1, <1>2
  <2> QED
    BY <2>1, <2>2, <2>3
<1>3. <<>> \in Seq(Nat) /\ ToSet(<<>>) = {} /\ Filtered(<<>>, G) = <<>>
  BY FilteredEmpty, FewElements
<1> DEFINE tail == Part(p, m, N)
<1>4. tail \in Seq(Nat) /\ Filtered(tail, G) = tail /\ tail \o <<>> = tail
  <2>1. tail \in Seq(Nat) /\ Filtered(tail, G) = tail
    BY <1>1, <1>2
  <2> HIDE DEF tail
  <2> QED
    BY <2>1, ConcatEmptySeq
<1> HIDE DEF old
\* Everything that precedes the message, and then the path to its end.
<1>5. ASSUME NEW X \in Seq(Nat), r \notin ToSet(X), old = X \o tail
      PROVE  \E Y : Splits(old, X, Y, r) /\ Filtered(Y, G) = tail
  <2>1. m <= N /\ N <= Len(p)
    BY <1>1
  <2>2. Splits(X \o (tail \o <<>>), X, tail \o <<>>, r)
    BY <1>1, <1>3, <1>5, <2>1, PartFromMessage
  <2> QED
    BY <1>4, <1>5, <2>2
<1>6. CASE CompactionsOf(p) = {}
  <2> DEFINE X == Part(p, 1, m - 1)
  <2>1. old = Part(p, 1, N)
    BY <1>6, ContextByOpening, LastPartOfPath DEF old
  <2>2. Part(p, 1, N) = X \o tail
    <3>1. /\ 1 \in Nat \ {0} /\ m - 1 \in Nat /\ N \in Nat /\ 1 <= (m - 1) + 1
          /\ m - 1 <= N /\ N <= Len(p) /\ p \in Seq(EntryType)
      BY <1>1
    <3>2. Part(p, 1, N) = Part(p, 1, m - 1) \o Part(p, (m - 1) + 1, N)
      BY ONLY <3>1, PartSplit
    <3>3. (m - 1) + 1 = m
      BY <1>1
    <3> QED
      BY <3>2, <3>3
  <2>3. X \in Seq(Nat) /\ r \notin ToSet(X)
    <3>1. m - 1 \in Nat /\ m - 1 <= N /\ m \notin 1 .. m - 1 /\ 1 \in Nat \ {0}
      BY <1>1
    <3> QED
      BY <1>2, <3>1
  <2> HIDE DEF X, tail
  <2> QED
    BY <1>5, <2>1, <2>2, <2>3 DEF tail, old
<1>7. CASE CompactionsOf(p) # {}
  <2>1. PICK c \in 1 .. N, k \in 1 .. N, S1 \in Seq(Nat), S2 \in Seq(Nat) :
              /\ p[c].kind \in CompactionKinds /\ k <= c
              /\ ToSet(S1) \cup ToSet(S2) = {p[c].id}
              /\ old = (S1 \o Part(p, k, c - 1)) \o (S2 \o Part(p, c + 1, N))
    BY <1>7, ContextParts DEF old
  <2> DEFINE before == Part(p, k, c - 1)
             after == Part(p, c + 1, N)
  <2>2. /\ c \in Nat /\ c - 1 \in Nat /\ c - 1 <= N /\ k \in Nat \ {0}
        /\ c + 1 \in Nat \ {0} /\ c + 1 \in Nat
    BY <1>1, <2>1
  <2>3. before \in Seq(Nat) /\ after \in Seq(Nat) /\ Filtered(after, G) = after
    <3>1. N <= N
      BY <1>1
    <3>2. before \in Seq(Nat)
      BY <1>2, <2>2
    <3>3. after \in Seq(Nat) /\ Filtered(after, G) = after
      BY <1>1, <1>2, <2>2, <3>1
    <3> QED
      BY <3>2, <3>3
  <2>4. c # m /\ p[c].id # r /\ p[c].kind \notin MessageKinds
    <3>1. p[c].kind \notin MessageKinds
      BY <2>1 DEF CompactionKinds, MessageKinds
    <3>2. c # m
      BY <3>1
    <3> QED
      BY <1>1, <3>1, <3>2
  <2>5. r \notin ToSet(S1) /\ r \notin ToSet(S2) /\ p[c].id \notin G
    BY <2>1, <2>4 DEF Marks
  <2>6. CASE m > c
    <3> DEFINE between == Part(p, c + 1, m - 1)
               X == (S1 \o before) \o (S2 \o between)
    <3>1. between \in Seq(Nat) /\ r \notin ToSet(between) /\ r \notin ToSet(before)
      <4>1. m - 1 <= N /\ m \notin c + 1 .. m - 1 /\ m \notin k .. c - 1
        BY <1>1, <2>2, <2>6
      <4> QED
        BY <1>1, <1>2, <2>2, <4>1
    <3>2. after = between \o tail
      <4>1. /\ c + 1 \in Nat \ {0} /\ m - 1 \in Nat /\ N \in Nat /\ c + 1 <= (m - 1) + 1
            /\ m - 1 <= N /\ N <= Len(p) /\ p \in Seq(EntryType)
        BY <1>1, <2>2, <2>6
      <4>2. Part(p, c + 1, N) = Part(p, c + 1, m - 1) \o Part(p, (m - 1) + 1, N)
        BY ONLY <4>1, PartSplit
      <4>3. (m - 1) + 1 = m
        BY <1>1
      <4> QED
        BY <4>2, <4>3
    <3> HIDE DEF between, before, after, tail
    <3>3. /\ S1 \o before \in Seq(Nat) /\ ToSet(S1 \o before) = ToSet(S1) \cup ToSet(before)
          /\ S2 \o between \in Seq(Nat) /\ ToSet(S2 \o between) = ToSet(S2) \cup ToSet(between)
      BY Zenon, <2>1, <2>3, <3>1, NumbersTogether
    <3>4. X \in Seq(Nat) /\ ToSet(X) = ToSet(S1 \o before) \cup ToSet(S2 \o between)
      BY Zenon, <3>3, NumbersTogether
    <3>5. r \notin ToSet(X)
      BY <2>5, <3>1, <3>3, <3>4
    <3>6. old = X \o tail
      <4>1. S2 \o (between \o tail) = (S2 \o between) \o tail
        BY Zenon, <1>4, <2>1, <3>1, NumbersAssociate DEF Associates
      <4>2. (S1 \o before) \o ((S2 \o between) \o tail) = X \o tail
        <5> DEFINE A == S1 \o before
                   B == S2 \o between
        <5>1. A \in Seq(Nat) /\ B \in Seq(Nat) /\ tail \in Seq(Nat)
          BY <1>4, <3>3
        <5> HIDE DEF A, B
        <5>2. Associates(A, B, tail)
          BY ONLY <5>1, NumbersAssociate
        <5> QED
          BY Zenon, <5>2 DEF A, B, Associates
      <4>3. old = (S1 \o before) \o (S2 \o (between \o tail))
        BY <2>1, <3>2 DEF before, after
      <4> QED
        BY <4>1, <4>2, <4>3
    <3> HIDE DEF X
    <3>7. \E Y : Splits(old, X, Y, r) /\ Filtered(Y, G) = tail
      BY <1>5, <3>4, <3>5, <3>6
    <3> QED
      BY <3>7 DEF tail, old
  <2>7. CASE m < c
    <3> DEFINE first == Part(p, k, m - 1)
               kept == Part(p, m, c - 1)
               W == S2 \o after
               X == S1 \o first
               Y == kept \o W
    <3>1. r \notin ToSet(after)
      <4>1. m \notin c + 1 .. N /\ N <= N
        BY <1>1, <2>2, <2>7
      <4> QED
        BY <1>1, <1>2, <2>2, <4>1
    <3>2. W \in Seq(Nat) /\ r \notin ToSet(W)
      <4> HIDE DEF after
      <4>1. W \in Seq(Nat) /\ ToSet(W) = ToSet(S2) \cup ToSet(after)
        BY Zenon, <2>1, <2>3, NumbersTogether
      <4> QED
        BY <2>5, <3>1, <4>1
    <3>3. k <= m
      <4> HIDE DEF before, after, W
      <4>1. S1 \o before \in Seq(Nat) /\ ToSet(S1 \o before) = ToSet(S1) \cup ToSet(before)
        BY Zenon, <2>1, <2>3, NumbersTogether
      <4>2. ToSet(old) = ToSet(S1 \o before) \cup ToSet(W)
        <5>1. old = (S1 \o before) \o W
          BY <2>1 DEF before, after, W
        <5> QED
          BY Zenon, <3>2, <4>1, <5>1, NumbersTogether
      <4>3. r \in ToSet(before)
        BY <2>5, <3>2, <4>1, <4>2 DEF old
      <4>4. m \in k .. c - 1
        BY <1>2, <2>2, <4>3 DEF before
      <4> QED
        BY <2>2, <4>4
    <3>4. /\ first \in Seq(Nat) /\ r \notin ToSet(first)
          /\ kept \in Seq(Nat) /\ Filtered(kept, G) = kept
      <4>1. m - 1 <= N /\ m \notin k .. m - 1
        BY <1>1
      <4> QED
        BY <1>1, <1>2, <2>2, <4>1
    <3>5. before = first \o kept
      <4>1. /\ k \in Nat \ {0} /\ m - 1 \in Nat /\ c - 1 \in Nat /\ k <= (m - 1) + 1
            /\ m - 1 <= c - 1 /\ c - 1 <= Len(p) /\ p \in Seq(EntryType)
        BY <1>1, <2>2, <2>7, <3>3
      <4>2. Part(p, k, c - 1) = Part(p, k, m - 1) \o Part(p, (m - 1) + 1, c - 1)
        BY ONLY <4>1, PartSplit
      <4>3. (m - 1) + 1 = m
        BY <1>1
      <4> QED
        BY <4>2, <4>3
    <3>6. tail = kept \o after
      <4>1. /\ m \in Nat \ {0} /\ c - 1 \in Nat /\ c \in Nat /\ N \in Nat /\ m <= (c - 1) + 1
            /\ c - 1 <= N /\ N <= Len(p) /\ p \in Seq(EntryType) /\ c \in Nat \ {0}
            /\ c <= c + 1 /\ c <= N
        BY <1>1, <2>1, <2>2, <2>7
      <4>2. /\ Part(p, m, N) = Part(p, m, c - 1) \o Part(p, (c - 1) + 1, N)
            /\ Part(p, c, N) = Part(p, c, c) \o Part(p, c + 1, N)
        BY ONLY <4>1, PartSplit
      <4>3. (c - 1) + 1 = c
        BY <2>2
      <4>4. Part(p, c, c) = <<>>
        BY <2>1, <2>4, PartOne
      <4>5. <<>> \o after = after
        <5> HIDE DEF after
        <5> QED
          BY <2>3, ConcatEmptySeq
      <4>6. Part(p, c, N) = after
        BY <4>2, <4>4, <4>5
      <4> QED
        BY <4>2, <4>3, <4>6
    <3>7. X \in Seq(Nat) /\ r \notin ToSet(X)
      <4> HIDE DEF first
      <4>1. X \in Seq(Nat) /\ ToSet(X) = ToSet(S1) \cup ToSet(first)
        BY Zenon, <2>1, <3>4, NumbersTogether
      <4> QED
        BY <2>5, <3>4, <4>1
    <3>8. Splits(X \o Y, X, Y, r)
      <4>1. m <= c - 1 /\ c - 1 <= Len(p) /\ c - 1 \in Nat
        BY <1>1, <2>2, <2>7
      <4> HIDE DEF X, W
      <4> QED
        BY <3>2, <3>7, <4>1, PartFromMessage
    <3> HIDE DEF first, kept, after, before, tail
    <3>9. old = X \o Y
      <4>1. S1 \o (first \o kept) = (S1 \o first) \o kept
        BY Zenon, <2>1, <3>4, NumbersAssociate DEF Associates
      <4>2. (X \o kept) \o W = X \o (kept \o W)
        <5>1. X \in Seq(Nat) /\ kept \in Seq(Nat) /\ W \in Seq(Nat)
          BY <3>2, <3>4, <3>7
        <5> HIDE DEF X, W
        <5>2. Associates(X, kept, W)
          BY ONLY <5>1, NumbersAssociate
        <5> QED
          BY Zenon, <5>2 DEF Associates
      <4>3. old = (S1 \o (first \o kept)) \o W
        BY <2>1, <3>5 DEF before, after
      <4> QED
        BY <4>1, <4>2, <4>3
    <3>10. Filtered(Y, G) = tail
      <4>1. Filtered(kept \o W, G) = kept \o Filtered(W, G)
        <5>1. kept \in Seq(Nat) /\ W \in Seq(Nat)
          BY <3>2, <3>4
        <5> HIDE DEF W
        <5>2. Distributes(kept, W, G)
          BY ONLY <5>1, NumbersFiltered
        <5> QED
          BY <3>4, <5>2 DEF Distributes
      <4>2. Filtered(W, G) = Filtered(S2, G) \o after
        <5>1. S2 \in Seq(Nat) /\ after \in Seq(Nat)
          BY <2>1, <2>3
        <5>2. Distributes(S2, after, G)
          BY ONLY <5>1, NumbersFiltered
        <5> QED
          BY <2>3, <5>2 DEF Distributes
      <4>3. Filtered(S2, G) = <<>>
        BY <2>1, <2>5, FilteredNone
      <4>4. <<>> \o after = after
        BY <2>3, ConcatEmptySeq
      <4> QED
        BY <3>6, <4>1, <4>2, <4>3, <4>4
    <3> HIDE DEF X, Y
    <3> QED
      BY <3>8, <3>9, <3>10 DEF tail, old
  <2> QED
    BY <1>1, <2>2, <2>4, <2>6, <2>7
<1> QED
  BY <1>6, <1>7

\* What the context of a path can hold: ids of its entries.
LEMMA ContextElements ==
    ASSUME NEW p \in Seq(EntryType)
    PROVE  ToSet(ContextOf(p)) \subseteq {p[i].id : i \in 1 .. Len(p)}
<1> DEFINE N == Len(p)
           I == {p[i].id : i \in 1 .. N}
<1>1. ASSUME NEW a \in Nat \ {0}, NEW b \in Nat, b <= N
      PROVE  Part(p, a, b) \in Seq(Nat) /\ ToSet(Part(p, a, b)) \subseteq I
  <2>1. /\ Part(p, a, b) \in Seq(Nat)
        /\ ToSet(Part(p, a, b)) = {p[i].id : i \in {k \in a .. b : p[k].kind \in MessageKinds}}
    BY <1>1, PartFacts
  <2>2. \A i \in a .. b : i \in 1 .. N
    BY <1>1
  <2> QED
    BY <2>1, <2>2
<1>2. N \in Nat /\ N <= N
  OBVIOUS
<1>3. CASE CompactionsOf(p) = {}
  <2>1. ContextOf(p) = Part(p, 1, N)
    BY <1>3, ContextByOpening, LastPartOfPath
  <2>2. 1 \in Nat \ {0}
    OBVIOUS
  <2> HIDE DEF I, N
  <2>3. ToSet(Part(p, 1, N)) \subseteq I
    BY <1>1, <1>2, <2>2
  <2> QED
    BY <2>1, <2>3 DEF I, N
<1>4. CASE CompactionsOf(p) # {}
  <2>1. PICK c \in 1 .. N, k \in 1 .. N, S1 \in Seq(Nat), S2 \in Seq(Nat) :
              /\ p[c].kind \in CompactionKinds /\ k <= c
              /\ ToSet(S1) \cup ToSet(S2) = {p[c].id}
              /\ ContextOf(p) = (S1 \o Part(p, k, c - 1)) \o (S2 \o Part(p, c + 1, N))
    BY <1>4, ContextParts
  <2> DEFINE before == Part(p, k, c - 1)
             after == Part(p, c + 1, N)
  <2>2. before \in Seq(Nat) /\ ToSet(before) \subseteq I
    <3>1. k \in Nat \ {0} /\ c - 1 \in Nat /\ c - 1 <= N
      BY <1>2
    <3> HIDE DEF I
    <3> QED
      BY <1>1, <3>1
  <2>3. after \in Seq(Nat) /\ ToSet(after) \subseteq I
    <3>1. c + 1 \in Nat \ {0}
      OBVIOUS
    <3> HIDE DEF I
    <3> QED
      BY <1>1, <1>2, <3>1
  <2>4. ToSet(S1) \subseteq I /\ ToSet(S2) \subseteq I
    <3>1. p[c].id \in I
      OBVIOUS
    <3> HIDE DEF I
    <3> QED
      BY <2>1, <3>1
  <2> HIDE DEF before, after, I
  <2>5. /\ S1 \o before \in Seq(Nat) /\ ToSet(S1 \o before) = ToSet(S1) \cup ToSet(before)
        /\ S2 \o after \in Seq(Nat) /\ ToSet(S2 \o after) = ToSet(S2) \cup ToSet(after)
    BY Zenon, <2>1, <2>2, <2>3, NumbersTogether
  <2>6. ToSet((S1 \o before) \o (S2 \o after)) = ToSet(S1 \o before) \cup ToSet(S2 \o after)
    BY Zenon, <2>5, NumbersTogether
  <2>7. ToSet(ContextOf(p)) = ToSet(S1 \o before) \cup ToSet(S2 \o after)
    BY <2>1, <2>6 DEF before, after
  <2>8. ToSet(ContextOf(p)) \subseteq I
    BY <2>2, <2>3, <2>4, <2>5, <2>7
  <2> QED
    BY <2>8 DEF I
<1> QED
  BY <1>3, <1>4

\* The context at a compaction that keeps the entry at m.
LEMMA ContextOfCompaction ==
    ASSUME NEW p \in Seq(EntryType), NEW e \in EntryType, e.kind \in CompactionKinds,
           OnceEach(p), NEW m \in 1 .. Len(p), p[m].id = e.ref, e.id # e.ref
    PROVE  LET k == Part(p, m, Len(p))
           IN  ContextOf(Append(p, e)) \in {<<e.id>> \o k, k \o <<e.id>>}
<1> DEFINE q == Append(p, e)
           N == Len(p)
           c == N + 1
           C == CompactionsOf(q)
           k == Part(p, m, N)
<1>1. /\ q \in Seq(EntryType) /\ N \in Nat /\ Len(q) = c /\ q[c] = e
      /\ \A i \in 1 .. N : q[i] = p[i]
  BY AppendElements
<1>2. DOMAIN q = 1 .. c /\ DOMAIN p = 1 .. N /\ c \in 1 .. c /\ c \in Nat
  BY <1>1
<1>3. e.id \in Nat
  BY DEF EntryType
<1> HIDE DEF q
<1>4. C \in SUBSET (1 .. c) /\ c \in C
  BY <1>1, <1>2 DEF CompactionsOf
<1>5. Max(C) = c
  <2> HIDE DEF C
  <2>1. Max(C) \in C /\ \A y \in C : Max(C) >= y
    BY <1>2, <1>4, GreatestOne
  <2>2. Max(C) \in 1 .. c /\ Max(C) >= c
    BY <1>4, <2>1
  <2> QED
    BY <1>2, <2>2
<1>6. Opening(q, c) \in {<<e.id>> \o k, k \o <<e.id>>}
  <2> DEFINE first == {i \in 1 .. c : q[i].id = q[c].ref}
  <2>1. first = {m}
    <3>1. ASSUME NEW i \in 1 .. c PROVE q[i].id = e.ref <=> i = m
      <4>1. CASE i = c
        <5>1. i # m
          BY <1>1, <4>1
        <5> QED
          BY <1>1, <4>1, <5>1
      <4>2. CASE i # c
        <5>1. i \in 1 .. N
          BY <1>1, <4>2
        <5>2. q[i] = p[i]
          BY <1>1, <5>1
        <5> QED
          BY <1>2, <5>1, <5>2 DEF OnceEach
      <4> QED
        BY <4>1, <4>2
    <3>2. m \in 1 .. c
      BY <1>1
    <3> QED
      BY <1>1, <3>1, <3>2
  <2>2. Min(first) = m
    <3>1. {m} \in SUBSET (1 .. c) /\ {m} # {}
      BY <1>1
    <3>2. Min({m}) \in {m}
      BY <1>2, <3>1, LeastOne
    <3> QED
      BY <2>1, <3>2
  <2>3. SubSeq(q, m, c - 1) = SubSeq(p, m, N)
    <3>1. c - 1 = N /\ N \in 0 .. N /\ m \in 1 .. N + 1
      BY <1>1
    <3> QED
      BY <3>1, PartOfAppend DEF q
  <2>4. Opening(q, c) = IF q[c].kind = "compaction"
                        THEN <<q[c].id>> \o MessagesOf(SubSeq(q, m, c - 1))
                        ELSE MessagesOf(SubSeq(q, m, c - 1)) \o <<q[c].id>>
    <3>1. first # {}
      BY <2>1
    <3> QED
      BY <2>2, <3>1 DEF Opening
  <2> QED
    BY <1>1, <2>3, <2>4 DEF Part
<1>7. MessagesOf(SubSeq(q, c + 1, Len(q))) = <<>>
  <2>1. SubSeq(q, c + 1, c) = <<>>
    BY <1>1, <1>2
  <2> QED
    BY <1>1, <2>1, MessagesOfFew
<1> DEFINE o == Opening(q, c)
<1>8. ContextOf(q) = o \o <<>>
  BY <1>4, <1>5, <1>7, ContextByOpening
<1>9. o \in Seq(Nat)
  <2>1. k \in Seq(Nat)
    BY <1>1, PartFacts
  <2>2. <<e.id>> \in Seq(Nat)
    BY <1>3
  <2> HIDE DEF k, o
  <2>3. <<e.id>> \o k \in Seq(Nat) /\ k \o <<e.id>> \in Seq(Nat)
    BY Zenon, <2>1, <2>2, NumbersTogether
  <2> QED
    BY <1>6, <2>3 DEF o
<1> HIDE DEF o
<1>10. o \o <<>> = o
  BY <1>9, ConcatEmptySeq
<1> QED
  BY <1>6, <1>8, <1>10 DEF o, q

\* The summary is told apart by its id.
LEMMA SummaryApart ==
    ASSUME NEW k \in Seq(Nat), NEW x \in Nat, x \notin ToSet(k),
           NEW new \in {<<x>> \o k, k \o <<x>>}
    PROVE  LET kept == Filtered(new, ToSet(new) \ {x})
           IN  kept = k /\ Len(kept) + 1 = Len(new)
<1> DEFINE h == <<x>>
           S == ToSet(new) \ {x}
<1>1. h \in Seq(Nat) /\ ToSet(h) = {x} /\ Len(h) = 1
  BY FewElements
<1>2. new \in {h \o k, k \o h}
  OBVIOUS
<1> HIDE DEF h
<1>3. /\ h \o k \in Seq(Nat) /\ ToSet(h \o k) = ToSet(h) \cup ToSet(k)
      /\ k \o h \in Seq(Nat) /\ ToSet(k \o h) = ToSet(k) \cup ToSet(h)
  BY Zenon, <1>1, NumbersTogether
<1>4. Len(h \o k) = Len(k) + 1 /\ Len(k \o h) = Len(k) + 1
  <2>1. h \in Seq(Nat) /\ k \in Seq(Nat)
    BY <1>1
  <2>2. Len(h \o k) = Len(h) + Len(k) /\ Len(k \o h) = Len(k) + Len(h)
    BY ONLY <2>1, ConcatElements
  <2>3. Len(h) = 1 /\ Len(k) \in Nat
    BY <1>1
  <2> QED
    BY <2>2, <2>3
<1>5. ToSet(k) \subseteq S /\ ToSet(h) \cap S = {}
  BY <1>1, <1>2, <1>3
<1> HIDE DEF S
<1>6. Filtered(h, S) = <<>> /\ Filtered(k, S) = k
  BY <1>1, <1>5, FilteredNone, FilteredWhole
<1>7. Distributes(h, k, S) /\ Distributes(k, h, S)
  BY <1>1, NumbersFiltered
<1>8. <<>> \o k = k /\ k \o <<>> = k
  BY ConcatEmptySeq
<1>9. Filtered(h \o k, S) = k /\ Filtered(k \o h, S) = k
  BY <1>6, <1>7, <1>8 DEF Distributes
<1>10. Filtered(new, S) = k /\ Len(new) = Len(k) + 1
  BY <1>2, <1>4, <1>9
<1> QED
  BY <1>10 DEF S

\* A compaction behind a path: the summary and what was there from the
\* message on that it keeps.
LEMMA CompactionOfPath ==
    ASSUME NEW p \in Seq(EntryType), OnceEach(p),
           NEW e \in EntryType, e.kind \in CompactionKinds,
           \A i \in 1 .. Len(p) : p[i].id # e.id,
           NEW m \in 1 .. Len(p), p[m].id = e.ref, p[m].kind \in MessageKinds,
           e.ref \in ToSet(ContextOf(p)),
           NEW G, Marks(G, p)
    PROVE  LET old == ContextOf(p)
               from == CHOOSE i \in DOMAIN old : old[i] = e.ref
               new == ContextOf(Append(p, e))
               kept == Filtered(new, ToSet(new) \ {e.id})
           IN  /\ kept = Filtered(SubSeq(old, from, Len(old)), G)
               /\ Len(kept) + 1 = Len(new)
<1> DEFINE old == ContextOf(p)
           from == CHOOSE i \in DOMAIN old : old[i] = e.ref
           new == ContextOf(Append(p, e))
           k == Part(p, m, Len(p))
<1>1. PICK X, Y : Splits(old, X, Y, e.ref) /\ Filtered(Y, G) = k
  BY TailOfContext
<1>2. SubSeq(old, from, Len(old)) = Y
  <2> HIDE DEF old
  <2>1. /\ X \in Seq(Nat) /\ Y \in Seq(Nat) /\ old = X \o Y /\ Y # <<>> /\ Head(Y) = e.ref
        /\ e.ref \notin ToSet(X) /\ e.ref \notin ToSet(Tail(Y))
    BY <1>1 DEF Splits
  <2> DEFINE r == e.ref
  <2> HIDE DEF r
  <2>2. /\ X \in Seq(Nat) /\ Y \in Seq(Nat) /\ old = X \o Y /\ Y # <<>> /\ Head(Y) = r
        /\ r \notin ToSet(X) /\ r \notin ToSet(Tail(Y))
    BY <2>1 DEF r
  <2>3. SubSeq(old, CHOOSE i \in DOMAIN old : old[i] = r, Len(old)) = Y
    BY ONLY <2>2, OnceInTwo
  <2> QED
    BY <2>3 DEF r
<1>3. new \in {<<e.id>> \o k, k \o <<e.id>>}
  <2>1. e.id # e.ref
    OBVIOUS
  <2> QED
    BY <2>1, ContextOfCompaction
<1>4. k \in Seq(Nat) /\ e.id \notin ToSet(k) /\ e.id \in Nat
  <2>1. m \in Nat \ {0} /\ Len(p) \in Nat /\ Len(p) <= Len(p)
    OBVIOUS
  <2>2. /\ k \in Seq(Nat)
        /\ ToSet(k) = {p[i].id : i \in {j \in m .. Len(p) : p[j].kind \in MessageKinds}}
    BY <2>1, PartFacts
  <2>3. \A i \in m .. Len(p) : p[i].id # e.id
    OBVIOUS
  <2> HIDE DEF k
  <2>4. e.id \notin ToSet(k)
    BY <2>2, <2>3
  <2> QED
    BY <2>2, <2>4 DEF EntryType
<1> DEFINE kept == Filtered(new, ToSet(new) \ {e.id})
<1> HIDE DEF new, k, old, from
<1>5. kept = k /\ Len(kept) + 1 = Len(new)
  <2> DEFINE x == e.id
  <2>1. /\ k \in Seq(Nat) /\ x \in Nat /\ x \notin ToSet(k)
        /\ new \in {<<x>> \o k, k \o <<x>>}
    BY <1>3, <1>4
  <2> HIDE DEF x
  <2>2. LET all == Filtered(new, ToSet(new) \ {x})
        IN  all = k /\ Len(all) + 1 = Len(new)
    BY ONLY <2>1, SummaryApart
  <2> QED
    BY <2>2 DEF x
<1>6. kept = Filtered(SubSeq(old, from, Len(old)), G) /\ Len(kept) + 1 = Len(new)
  BY <1>1, <1>2, <1>5
<1> QED
  BY <1>6 DEF new, old, from

\* The step that appends a compaction.
LEMMA StepKeepsTail ==
    ASSUME TreeInv, [Next]_vars, Appended, NewEntry.kind \in CompactionKinds,
           NewEntry.ref \in ToSet(Context(mem.entries, NewEntry.parent)),
           ById(EntriesOf(mem.entries), NewEntry.ref).kind \in MessageKinds
    PROVE  LET e == NewEntry
               old == Context(mem.entries, e.parent)
               own == EntriesOf(mem.entries)
               messages == {i \in Ids(mem.entries) : ById(own, i).kind \in MessageKinds}
               from == CHOOSE i \in DOMAIN old : old[i] = e.ref
               new == Context(mem'.entries, mem'.leaf)
               kept == Filtered(new, ToSet(new) \ {e.id})
           IN  /\ kept = Filtered(SubSeq(old, from, Len(old)), messages)
               /\ Len(kept) + 1 = Len(new)
<1> DEFINE own == EntriesOf(mem.entries)
           messages == {i \in Ids(mem.entries) : ById(own, i).kind \in MessageKinds}
           q(e) == PathIn(own, e.parent)
<1>1. PICK e : IsAppendOf(e) /\ mem'.entries = Append(mem.entries, e) /\ mem'.leaf = e.id
  BY AppendedBy
<1> DEFINE p == q(e)
<1>2. /\ Context(Append(mem.entries, e), e.id) = ContextOf(Append(p, e))
      /\ Context(mem.entries, e.parent) = ContextOf(p)
      /\ e \in EntryType /\ e.id = nextId /\ mem.entries \in Seq(EntryType)
      /\ own \subseteq EntryType /\ nextId \in Nat /\ MaxId \in Nat
      /\ Given(own, nextId, MaxId) /\ e.parent \in 0 .. MaxId
      /\ p \in Seq(own) /\ p \in Seq(EntryType)
  BY <1>1, AppendContexts
<1>3. NewEntry = e
  BY <1>1, <1>2, NewEntryIs
<1>4. /\ Chained(p, MaxId)
      /\ \A x \in ToSet(p) : x \in own /\ ById(own, x.id) = x
  <2> HIDE DEF own
  <2>1. p = PathIn(own, e.parent)
    OBVIOUS
  <2> HIDE DEF p
  <2> QED
    BY <1>2, <2>1, PathIsChained, PathById
<1>5. \A x \in own : x.id < nextId /\ x.id \in Ids(mem.entries)
  <2>1. \A x \in own : x.id < nextId
    BY <1>2 DEF Given
  <2> QED
    BY <2>1 DEF Ids
<1> HIDE DEF p, own, messages
<1>6. OnceEach(p)
  BY <1>2, <1>4, ChainedOnce
<1>7. \A i \in 1 .. Len(p) : p[i] \in ToSet(p) /\ p[i] \in EntryType
  <2>1. \A i \in 1 .. Len(p) : p[i] \in EntryType
    BY <1>2
  <2> QED
    BY <1>2, <2>1 DEF ToSet
<1>8. \A i \in 1 .. Len(p) : p[i].id # e.id
  <2> SUFFICES ASSUME NEW i \in 1 .. Len(p) PROVE p[i].id # e.id
    OBVIOUS
  <2>1. p[i].id < nextId
    BY <1>4, <1>5, <1>7
  <2>2. p[i].id \in Nat
    BY <1>7 DEF EntryType
  <2> QED
    BY <1>2, <2>1, <2>2
<1>9. Marks(messages, p)
  BY <1>4, <1>5, <1>7 DEF Marks, messages
<1>10. e.ref \in ToSet(ContextOf(p)) /\ ById(own, e.ref).kind \in MessageKinds
  BY <1>2, <1>3 DEF own
<1>11. PICK m \in 1 .. Len(p) : p[m].id = e.ref
  BY <1>2, <1>10, ContextElements
<1>12. p[m].kind \in MessageKinds
  BY <1>4, <1>7, <1>10, <1>11
<1>13. e.kind \in CompactionKinds
  BY <1>3
<1> DEFINE old == ContextOf(p)
           from == CHOOSE i \in DOMAIN old : old[i] = e.ref
           new == ContextOf(Append(p, e))
           kept == Filtered(new, ToSet(new) \ {e.id})
<1>14. kept = Filtered(SubSeq(old, from, Len(old)), messages) /\ Len(kept) + 1 = Len(new)
  BY ONLY <1>2, <1>6, <1>8, <1>9, <1>10, <1>11, <1>12, <1>13, CompactionOfPath
<1>15. old = Context(mem.entries, NewEntry.parent) /\ new = Context(mem'.entries, mem'.leaf)
  BY <1>1, <1>2, <1>3
<1> HIDE DEF old, new
<1> QED
  BY <1>3, <1>14, <1>15 DEF own, messages

\* A compaction that keeps a message of the context keeps all that follow it,
\* in order, and nothing else but its own summary, also when the path has been
\* compacted before and when the write throws.
THEOREM CompactionKeepsTailAlways == Spec => CompactionKeepsTail
<1> DEFINE Step ==
      LET e == NewEntry
          old == Context(mem.entries, e.parent)
          own == EntriesOf(mem.entries)
          messages == {i \in Ids(mem.entries) : ById(own, i).kind \in MessageKinds}
      IN  Appended /\ e.kind \in CompactionKinds /\ e.ref \in ToSet(old) \cap messages
          => LET from == CHOOSE i \in DOMAIN old : old[i] = e.ref
                 new == Context(mem'.entries, mem'.leaf)
                 kept == Filtered(new, ToSet(new) \ {e.id})
             IN  /\ kept = Filtered(SubSeq(old, from, Len(old)), messages)
                 /\ Len(kept) + 1 = Len(new)
<1>1. Spec => []TreeInv
  BY AlwaysTree
<1>2. TreeInv /\ [Next]_vars => Step
  <2> SUFFICES ASSUME TreeInv, [Next]_vars, Appended, NewEntry.kind \in CompactionKinds,
                      NewEntry.ref \in ToSet(Context(mem.entries, NewEntry.parent)),
                      ById(EntriesOf(mem.entries), NewEntry.ref).kind \in MessageKinds
               PROVE  Step
    OBVIOUS
  <2> QED
    BY Zenon, StepKeepsTail
<1> QED
  BY <1>1, <1>2, PTL DEF Spec, CompactionKeepsTail
=============================================================================
