------------------------- MODULE MCSocketProtocol -------------------------
EXTENDS SocketProtocol

CONSTANTS r1, r2, q1, q2

Both == {{r1, r2}}

Shape(kind, oversized) == [kind |-> kind, oversized |-> oversized]

\* Every kind of request, and one that is too large.
EveryShape == {Shape(kind, FALSE) : kind \in Kinds} \cup {Shape("inbound", TRUE)}

Inbound == {Shape("inbound", FALSE)}

\* The requests come from different chains, which count independently.
SameNumber == [q \in Requests |-> 7]
=============================================================================
