----------------------------- MODULE Subsequence -----------------------------
(***************************************************************************)
(* Picking elements out of a sequence, as a recursive function over its    *)
(* places.                                                                 *)
(***************************************************************************)
EXTENDS Integers, Sequences

\* The elements of s that are in S, in order.
Among(s, S) ==
    LET found[k \in 0 .. Len(s)] ==
            IF k = 0 THEN <<>>
            ELSE IF s[k] \in S THEN Append(found[k - 1], s[k]) ELSE found[k - 1]
    IN  found[Len(s)]
=============================================================================
