----------------------------- MODULE MCServices -----------------------------
\* Two connections that call once each, on lists in an order that is not that of
\* the queue; a request that sets one name twice and one it may not set; two
\* directories with a file of one name; and two pages, with lists of their own.
EXTENDS Services

CONSTANTS c1, c2, t1, t2, t3

MCInitial == <<t1, t2, t3>>
MCRoleOf == (c1 :> "full") @@ (c2 :> "remote")
MCList == {<<t3, t2>>, <<t1, t1>>}

Set(n, v) == [name |-> n, val |-> v]
MCRequest == {<<Set("rate", 1), Set("rate", 0)>>, <<Set("save_path", 1), Set("proxy", 1), Set("rate", 1)>>}
MCGroupOf == [u \in User |-> IF u = "main" THEN "full" ELSE "remote"]

MCStatsOf == [p \in Page |-> IF p = "p1" THEN Metric ELSE {"x"}]
=============================================================================
