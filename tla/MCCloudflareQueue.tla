------------------------- MODULE MCCloudflareQueue -------------------------
EXTENDS CloudflareQueue, TLC

CONSTANTS m1, m2, r1, r2

\* One payload of two messages, and one without any (a status update); or the
\* same message twice, as when Meta repeats a request.
SplitOrRepeated ==
    {[r \in Requests |-> IF r = r1 THEN <<m1, m2>> ELSE <<>>],
     [r \in Requests |-> <<m1>>]}
=============================================================================
