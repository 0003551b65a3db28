----------------------- MODULE MCFileMutationQueue -----------------------
(***************************************************************************)
(* Instances of FileMutationQueue: two writes and an edit, over a file     *)
(* reached by its own path and through a link.                             *)
(***************************************************************************)
EXTENDS FileMutationQueue

CONSTANTS w1, w2, e1, file, link

MCOps == {w1, w2, e1}
MCEditOps == {e1}
MCPaths == {file, link}
MCRealPath == [p \in MCPaths |-> IF p = link THEN file ELSE p]

\* The link leads to a file that exists.
ThroughLink == [o \in MCOps |-> IF o = w1 THEN link ELSE file]
LinkTarget == {file}

\* Everyone uses the link, and the file it leads to is missing.
AllThroughLink == [o \in MCOps |-> link]
NoFiles == {}
=============================================================================
