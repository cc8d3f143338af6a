---------------------------- MODULE MCSessionPool ----------------------------
EXTENDS SessionPool

MCSQLs == {"s1", "s2"}
MCSetups == [s \in MCSQLs |-> IF s = "s1" THEN <<"set a", "", "set b">> ELSE <<>>]

\* With and without idle connections; with and without one for every worker.
MCPools == [open : 1..2, idle : 0..1]
=============================================================================
