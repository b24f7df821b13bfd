-------------------------------- MODULE Lists --------------------------------
(* The loop that appends what it keeps, which the code writes out wherever it  *)
(* filters a slice; written here as a recursive function.                      *)
EXTENDS Naturals, SequencesExt

Keep(s, kept) ==
    LET f[i \in 0..Len(s)] ==
            IF i = 0 THEN <<>> ELSE IF s[i] \in kept THEN Append(f[i - 1], s[i]) ELSE f[i - 1]
    IN  f[Len(s)]
Without(s, left) == Keep(s, ToSet(s) \ left)
=============================================================================
