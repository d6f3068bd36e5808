------------------------------- MODULE Lines --------------------------------
(***************************************************************************)
(* Files that the handlers edit line by line.  The filter is a recursive   *)
(* function of its own, as are the loops of the modules that use it, so    *)
(* that what they compute can be proved by induction over the lines.       *)
(***************************************************************************)
EXTENDS Naturals, Sequences

\* The lines that are in S, in their order.
Kept(lines, S) ==
    LET kept[n \in 0..Len(lines)] ==
            IF n = 0 THEN <<>>
            ELSE IF lines[n] \in S THEN Append(kept[n - 1], lines[n]) ELSE kept[n - 1]
    IN  kept[Len(lines)]

\* What a write that is cut may leave of the lines.  A line that is cut itself is taken for a
\* missing one.
Cuts(lines) == {SubSeq(lines, 1, n) : n \in 0..Len(lines)}
=============================================================================
