--------------------------- MODULE SequenceFilter ---------------------------
(***************************************************************************)
(* The filter of sequences (Array.prototype.filter), with the elements to  *)
(* keep as a set: unlike the operator parameter of SelectSeq, a set can be *)
(* reasoned about.                                                         *)
(***************************************************************************)
EXTENDS Naturals, Sequences

\* The elements of s that are in S, in their order.
Filtered(s, S) ==
    LET upTo[n \in 0..Len(s)] ==
            IF n = 0 THEN <<>>
            ELSE IF s[n] \in S THEN Append(upTo[n - 1], s[n])
            ELSE upTo[n - 1]
    IN  upTo[Len(s)]
=============================================================================
