-------------------------- MODULE MCDataGenerators --------------------------
EXTENDS DataGenerators

Program(g, n, b, t) == [gen |-> g, crew |-> 0..(n - 1), batch |-> b, tables |-> t]

\* Binary and case-sensitive strings, case-insensitive ones in two and three columns;
\* t8 alone is what main.go is set to.
MCPrograms == {Program("tables", Len(t), 2, t) : t \in {<<"t8">>, <<"t1">>, <<"t2", "t12">>}}
              \union {Program("distinct", 5, 2, <<>>), Program("window", 2, 1, <<>>),
                      Program("parallel", 2, 2, <<>>)}
=============================================================================
