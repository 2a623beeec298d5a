---------------------------- MODULE MCClientPool ----------------------------
EXTENDS ClientPool

CONSTANTS c1, c2, k1, k2

TwoCalls == {c1, c2}
TwoConns == {k1, k2}

\* The two calls are alike, so one of each pair is enough.
Mix(a, b) == [c \in TwoCalls |-> IF c = c1 THEN a ELSE b]
SomeMixes ==
    {Mix("write", "write"), Mix("read", "write"), Mix("read", "read"),
     Mix("stat", "write"), Mix("stat", "read")}
=============================================================================
