------------------------------- MODULE Queues -------------------------------
(***************************************************************************)
(* Queues that lose some of their entries and keep the others in order.    *)
(* SelectSeq of Sequences says the same, but tlapm cannot unfold it.       *)
(***************************************************************************)
EXTENDS Integers, SequencesExt

(* The entries of q that are in S, in their order. *)
Keep(q, S) ==
    LET kept[i \in 0..Len(q)] ==
            IF i = 0 THEN <<>>
            ELSE IF q[i] \in S THEN Append(kept[i - 1], q[i]) ELSE kept[i - 1]
    IN kept[Len(q)]
=============================================================================
