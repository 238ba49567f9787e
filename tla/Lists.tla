------------------------------- MODULE Lists -------------------------------
(***************************************************************************)
(* Selecting from a list, as a function on the list's length: SelectSeq    *)
(* of the Sequences module, in a form that proofs by induction can unfold. *)
(***************************************************************************)
EXTENDS Integers, Sequences

\* The elements of q that are in S, in their order.
Keep(q, S) ==
    LET kept[n \in 0 .. Len(q)] ==
            IF n = 0 THEN <<>>
            ELSE IF q[n] \in S THEN Append(kept[n - 1], q[n]) ELSE kept[n - 1]
    IN kept[Len(q)]
=============================================================================
