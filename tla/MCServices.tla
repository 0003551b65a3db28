----------------------------- MODULE MCServices -----------------------------
(***************************************************************************)
(* Small instances of the services for TLC.                                *)
(***************************************************************************)
EXTENDS Services

CONSTANTS p1, p2

Two == {p1, p2}

\* One process sets the same setting twice and the other another one, in the file the first uses too.
AsksOfTwo == [p \in Two |-> IF p = p1 THEN {<<"global", "theme", "a">>, <<"global", "theme", "b">>, <<"project", "theme", "a">>}
                            ELSE {<<"global", "retry", "a">>}]

\* Enough bytes to trim the kept tail and to drop chunks; chunks that cut a character.
CutChunks == {<<"a">>, <<"a", "a", "a">>, <<"n">>, <<"n", "a">>, <<"L">>, <<"T">>, <<"a", "a", "L">>, <<"T", "n">>}
=============================================================================
