------------------------------- MODULE Lists -------------------------------
(* A list with some of its entries left out, the others in their order:    *)
(* Python's [x for x in seq if x not in out].                              *)
EXTENDS Integers, Sequences

Without(seq, out) ==
  LET kept[n \in 0..Len(seq)] ==
        IF n = 0 THEN <<>>
        ELSE IF seq[n] \in out THEN kept[n - 1] ELSE Append(kept[n - 1], seq[n])
  IN kept[Len(seq)]
=============================================================================
