\* Two subscriptions to different types and a message carrying a payload
\* for each: the first subscription's client cancels during its call.
CONSTANTS
    s1 = s1
    s2 = s2
    s3 = s3
    nosub = nosub
    Subs = {s1, s2}
    NoSub <- nosub
    SubType <- MCSubType
    Inbound <- MCInbound

SPECIFICATION Spec

\* Once every message is consumed and every subscription has returned the
\* daemon idles, waiting for input: that is not a deadlock.
CHECK_DEADLOCK FALSE

PROPERTY LivePayloadsNotDropped
