------------------------------- MODULE Filter -------------------------------
(* What of a sequence is in a set.                                         *)
EXTENDS Naturals, Sequences

(* The elements of q that are in T, in their order: SelectSeq with a set in *)
(* place of a test, so that one can reason about it.                       *)
Only(q, T) ==
    LET upTo[n \in Nat] ==
          IF n = 0 THEN << >>
          ELSE IF q[n] \in T THEN Append(upTo[n - 1], q[n]) ELSE upTo[n - 1]
    IN upTo[Len(q)]
=============================================================================
