---------------------------- MODULE SequenceFilter ----------------------------
(***************************************************************************)
(* Filtering a sequence.  It is written with a recursive function, so that *)
(* theorems can be proved about the modules that use it.                   *)
(***************************************************************************)
EXTENDS Integers, Sequences

\* The items of a sequence that are in S, in their order.
Only(seq, S) ==
    LET kept[k \in 0 .. Len(seq)] ==
            IF k = 0 THEN <<>>
            ELSE IF seq[k] \in S THEN Append(kept[k - 1], seq[k]) ELSE kept[k - 1]
    IN  kept[Len(seq)]
=============================================================================
