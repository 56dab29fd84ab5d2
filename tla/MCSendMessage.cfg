\* Two concurrent callers over two nodes, one of them with addresses in the
\* graph, and up to two peer lookups after connecting (zero included).
CONSTANTS
    a = a
    b = b
    c1 = c1
    c2 = c2
    Nil = Nil
    Nodes <- MCNodes
    Callers <- MCCallers
    Requests <- MCRequests
    Addressed = {a}
    MaxAttempts = 2

SPECIFICATION Spec

\* Once every call has returned and no handshake is pending, nothing is left
\* to happen: the end of the calls is not a deadlock.
CHECK_DEADLOCK FALSE

INVARIANT TypeOK
PROPERTY SendReturns
