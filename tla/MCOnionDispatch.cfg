\* Handlers for 101 and 103 come and go between messages; lnd delivers two
\* of the messages of MCMsgs and may fail in each of its three ways.  Once
\* the loop has exited, or lnd has nothing more to send, the messenger
\* waits: that is not a deadlock.
CONSTANTS
    Types = {101, 103}
    Msgs <- MCMsgs
    MaxMsgs = 2
    OnionMessageType = 513

SPECIFICATION Spec
CHECK_DEADLOCK FALSE

INVARIANT TypeOK
INVARIANT ShutdownOnlyForLnd
 
PROPERTY LndFailureReported
