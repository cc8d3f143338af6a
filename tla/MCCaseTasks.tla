----------------------------- MODULE MCCaseTasks -----------------------------
EXTENDS CaseTasks

Case(i, n, c) == [id |-> i, named |-> n, complete |-> c]
MCSources == {<<>>, <<Case(1, FALSE, TRUE)>>, <<Case(1, TRUE, FALSE)>>}
MCFiles ==
  {[defect |-> d, cases |-> <<>>] : d \in {"open", "decode", "documents", "empty"}}
  \union {[defect |-> "", cases |-> s] :
            s \in {<<Case(2, TRUE, TRUE), Case(3, TRUE, TRUE)>>,
                   <<Case(2, TRUE, TRUE), Case(3, FALSE, TRUE)>>,
                   <<Case(2, TRUE, TRUE), Case(3, TRUE, FALSE)>>}}
=============================================================================
