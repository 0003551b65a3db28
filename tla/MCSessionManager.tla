-------------------------- MODULE MCSessionManager --------------------------
(***************************************************************************)
(* Scenarios of SessionManager for TLC.  File names are interchangeable.   *)
(***************************************************************************)
EXTENDS SessionManager, TLC

Scenario(kinds, maxId, files, faults) ==
    [kinds |-> kinds, maxId |-> maxId, files |-> files, faults |-> faults]

Messages == {"user", "assistant"}

\* Two branches with two compactions on one path, of either kind; sessions
\* forked from forks; labels that are set, cleared and carried over; and
\* writes that go wrong.
Tree == Scenario(Messages \cup {"compaction"}, 4, 1, {})
Compactions == Scenario({"assistant"} \cup CompactionKinds, 4, 1, {})
Forks == Scenario(Messages \cup {"branch_summary"}, 3, 2, {})
Labels == Scenario({"assistant", "label"}, 4, 2, {})
Unlabels == Scenario({"assistant", "label", "unlabel"}, 3, 2, {})
Faulty == Scenario(Messages, 3, 1, {"throws", "torn"})
FaultyFork == Scenario({"assistant"}, 2, 2, {"throws", "torn"})
All == {Tree, Compactions, Forks, Labels, Unlabels, Faulty, FaultyFork}

Labelled == {Scenario(Messages \cup {"label"}, 4, 2, {})}
Alone == {Scenario(Messages, 3, 1, {})}

FileNames == Permutations(Files)
=============================================================================
