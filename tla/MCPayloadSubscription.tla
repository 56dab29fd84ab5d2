------------------------ MODULE MCPayloadSubscription ------------------------
EXTENDS PayloadSubscription, TLC

CONSTANTS s1, s2, s3, nosub

\* s1 and s3 compete for type 101, s2 subscribes to 105.
MCSubType == [s \in Subs |-> IF s = s2 THEN 105 ELSE 101]

\* A message with both subscribed payloads, then one with 101 only.
MCInbound == << <<101, 105>>, <<101>> >>
=============================================================================
