------------------------------ MODULE MCKVServer ------------------------------
EXTENDS KVServer

\* A complete request, one with too few tokens, one with too many after another.
Put    == << <<"put", "k", "v">> >>
Delete == << <<"delete">> >>
Get    == << <<"get", "k">>, <<"a", "b", "c", "d">> >>
MCScripts == {Put, Delete, Get}

\* Which of the two clients sends what does not matter.
OneClient == CHOOSE c \in Conns : TRUE
Pair(s, t) == [c \in Conns |-> IF c = OneClient THEN s ELSE t]
MCLoads == {Pair(Put, Get), Pair(Put, Delete)}
MCStopLoads == {Pair(Put, Put)}
=============================================================================
