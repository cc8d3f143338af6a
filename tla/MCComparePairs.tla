--------------------------- MODULE MCComparePairs ---------------------------
(* Instance of ComparePairs: a pair with a name, which two workers may     *)
(* compare at the same time, a pair without one, and a directory that is   *)
(* empty or holds what earlier runs left: the two files of a comparison,   *)
(* and one whose write failed.                                             *)
EXTENDS ComparePairs

MCOneUnnamed == [i \in 1..2 |-> IF i = 1 THEN "p" ELSE ""]

Left(side, k, by) == [name |-> "p", side |-> side, suffix |-> k, by |-> by]
OldRun == [item |-> 9, run |-> 9]
MCFiles == {{}, {Left("expected", 0, OldRun), Left("actual", 0, OldRun),
                 Left("expected", 1, Incomplete)}}
=============================================================================
