\* Three subscriptions, two of them competing for type 101: the safety
\* invariants, and the refinement of the abstract delivery order.
CONSTANTS
    s1 = s1
    s2 = s2
    s3 = s3
    nosub = nosub
    Subs = {s1, s2, s3}
    NoSub <- nosub
    SubType <- MCSubType
    Inbound <- MCInbound

SPECIFICATION Spec

\* Once every message is consumed and every subscription has returned the
\* daemon idles, waiting for input: that is not a deadlock.
CHECK_DEADLOCK FALSE

INVARIANT TypeOK
INVARIANT RegistryHeldByLiveSubscription
PROPERTY FifoDelivery
