\* Paths of up to 4 of 5 nodes, a payment path 3 hops wide (so length-4
\* paths overflow it) and one key whose TLV encoding fails.
CONSTANTS
    n1 = n1
    n2 = n2
    n3 = n3
    n4 = n4
    n5 = n5
    none = none
    NoNode <- none
    Nodes <- MCNodes
    NumMaxHops = 3
    MaxPathLen = 4
    FailingKeys = {n5}

SPECIFICATION Spec

INVARIANT TypeOK
INVARIANT OnionReachesDestination
