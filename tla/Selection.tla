------------------------------ MODULE Selection ------------------------------
(***************************************************************************)
(* The loops of the daemon that keep some elements of a slice, in order:   *)
(*   for _, x := range s { if keep(x) { kept = append(kept, x) } }         *)
(* They are SelectSeq with a set for the test, as a function of how far    *)
(* the loop has come, so that they can be proved about.                    *)
(***************************************************************************)
EXTENDS Naturals, Sequences

Selected(s, keep) ==
  LET kept[i \in 0..Len(s)] ==
        IF i = 0 THEN <<>> ELSE IF s[i] \in keep THEN Append(kept[i - 1], s[i]) ELSE kept[i - 1]
  IN kept[Len(s)]
=============================================================================
