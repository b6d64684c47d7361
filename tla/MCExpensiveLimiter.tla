------------------------- MODULE MCExpensiveLimiter -------------------------
EXTENDS ExpensiveLimiter

CONSTANT c1

\* All requests come from one client.
MCClientOf == [r \in Requests |-> c1]

=============================================================================
