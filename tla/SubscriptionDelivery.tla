------------------------ MODULE SubscriptionDelivery ------------------------
(***************************************************************************)
(* What a payload subscription promises its client (spec 5): the payloads *)
(* its handler accepted, taken from lnd's messages in the order lnd        *)
(* delivered them, reach the client stream in that order, none skipped    *)
(* and none twice.  The stream may end at any point.                       *)
(***************************************************************************)
EXTENDS Naturals, Sequences, SequencesExt

CONSTANTS Subs, SubType, Inbound

VARIABLES
    pending,   \* [Subs -> Seq(payload)]: accepted, not yet on the client stream
    delivered  \* [Subs -> Seq(payload)]: on the client stream, in order

Payload(m, j) == [msg |-> m, type |-> Inbound[m][j]]

\* The subscription's handler takes a payload of its type from a message
\* later than every message it took one from before.
Accept(s) ==
    \E m \in DOMAIN Inbound : \E j \in DOMAIN Inbound[m] :
        /\ Inbound[m][j] = SubType[s]
        /\ LET taken == delivered[s] \o pending[s]
           IN  taken # <<>> => Last(taken).msg < m
        /\ pending' = [pending EXCEPT ![s] = Append(@, Payload(m, j))]
        /\ UNCHANGED delivered

\* The client receives the first accepted payload it has not received.
Deliver(s) ==
    /\ pending[s] # <<>>
    /\ delivered' = [delivered EXCEPT ![s] = Append(@, Head(pending[s]))]
    /\ pending' = [pending EXCEPT ![s] = Tail(@)]

Init ==
    /\ pending = [s \in Subs |-> <<>>]
    /\ delivered = [s \in Subs |-> <<>>]

Next == \E s \in Subs : Accept(s) \/ Deliver(s)

Spec == Init /\ [][Next]_<<pending, delivered>>

=============================================================================
