---------------------------- MODULE Subsequences ----------------------------
(* What the sync modules filter lists with. *)
EXTENDS Naturals, Sequences

\* The elements of q at the places in S, in their order.
Picked(q, S) ==
  LET F[n \in 0 .. Len(q)] ==
        IF n = 0 THEN <<>>
        ELSE IF n \in S THEN Append(F[n - 1], q[n]) ELSE F[n - 1]
  IN F[Len(q)]

=============================================================================
