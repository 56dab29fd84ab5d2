\* The model of MCOnionDispatch.cfg, checked against the order of the
\* MoreHops checks that spec 4.6 lists.
CONSTANTS
    Types = {101, 103}
    Msgs <- MCMsgs
    MaxMsgs = 2
    OnionMessageType = 513

SPECIFICATION Spec
CHECK_DEADLOCK FALSE

INVARIANT NoNextPacketIsNoForwardingOnion
