----------------------------- MODULE PathToBlind -----------------------------
(***************************************************************************)
(* The outbound path builder of the onion messenger (src/unnamed/part_000):*)
(* createPathToBlind turns a cleartext node path N(0)..N(k) into the hops  *)
(* handed to the Sphinx blinding routine, and blindedToSphinx turns the    *)
(* blinded path back into the fixed-width payment path that is wrapped in  *)
(* an onion.  The Sphinx library itself is an external capability; it is   *)
(* modelled by what it does to identities and payloads (spec 4.3).         *)
(*                                                                         *)
(* The two functions are pure.  The state machine below only enumerates    *)
(* their inputs: it grows a path one node at a time and recomputes the     *)
(* onion route for every path up to MaxPathLen nodes.                      *)
(***************************************************************************)
EXTENDS Naturals, Sequences, SequencesExt

CONSTANTS
    Nodes,        \* public keys of nodes (model values)
    NumMaxHops,   \* width of sphinx.PaymentPath (27 in lightning-onion)
    MaxPathLen,   \* bound on the length of the enumerated paths
    FailingKeys,  \* keys whose next_node_id TLV the encoder fails to write
    NoNode        \* the zero public key of an unused slot (a model value)

ASSUME NumMaxHops \in Nat \ {0} /\ MaxPathLen \in Nat /\ FailingKeys \subseteq Nodes
ASSUME NoNode \notin Nodes

VARIABLES path, route
vars == <<path, route>>

\* TLV type 4 of the blinded route data stream: next_node_id.
NextNodeIDType == 4

\* A nil payload, as left in the last hop by createPathToBlind.
NoPayload == <<>>

\* Errors: a returned error and a Go runtime panic.
NoError     == "nil"
EncodeError == "intermediate node encoding failed"
Panic       == "index out of range"

\* A Go (value, error) pair.
Return(v, e) == [val |-> v, err |-> e]

-----------------------------------------------------------------------------
(* encodeBlindedPayload: the TLV stream holding a single next_node_id      *)
(* record; writing it fails for a key in FailingKeys.                      *)
\* Mutant: the record is written under the wrong tlv type.
EncodeBlindedPayloadWrongType(n) ==
    IF n \in FailingKeys THEN Return(NoPayload, EncodeError)
    ELSE Return(<< <<NextNodeIDType - 2, n>> >>, NoError)

EncodeBlindedPayload(n) ==
    IF n \in FailingKeys THEN Return(NoPayload, EncodeError)
    ELSE Return(<< <<NextNodeIDType, n>> >>, NoError)

(* createPathToBlind: hop i carries path[i] and, for every hop but the     *)
(* last, the encoding of the next node's cleartext id.  The first failed   *)
(* encoding aborts with an error; an empty path indexes hopsToBlind[0].    *)
createPathToBlind(p) ==
    LET k == Len(p)
        failed == {i \in 2..k : EncodeBlindedPayload(p[i]).err # NoError}
    IN  IF k = 0 THEN Return(<<>>, Panic)
        ELSE IF failed # {} THEN Return(<<>>, EncodeError)
        ELSE Return([i \in 1..k |->
                       [NodePub |-> p[i],
                        Payload |-> IF i < k THEN EncodeBlindedPayload(p[i+1]).val
                                             ELSE NoPayload]], NoError)

(* Sphinx BuildBlindedPath (external): the introduction point is the first *)
(* hop's cleartext key, every hop (the first included) gets a blinded id,  *)
(* and every payload is encrypted to the key of its hop.                   *)
Blind(n) == <<"blinded", n>>
Encrypt(n, payload) == [to |-> n, data |-> payload]

\* The empty sphinx.OnionHop of an unused PaymentPath slot.
EmptyHop == [NodePub |-> NoNode, Payload |-> Encrypt(NoNode, NoPayload)]

BuildBlindedPath(hops) ==
    [IntroductionPoint |-> hops[1].NodePub,
     BlindedHops       |-> [i \in DOMAIN hops |-> Blind(hops[i].NodePub)],
     EncryptedData     |-> [i \in DOMAIN hops |-> Encrypt(hops[i].NodePub,
                                                         hops[i].Payload)]]

\* Mutant: the first slot is addressed to the blinded introduction node.
blindedToSphinxBlindedIntro(bp) ==
    LET n == Len(bp.EncryptedData)
    IN  IF n > NumMaxHops THEN Return(<<>>, Panic)
        ELSE Return([i \in 1..NumMaxHops |->
                       IF i <= n THEN [NodePub |-> bp.BlindedHops[i],
                                       Payload |-> bp.EncryptedData[i]]
                       ELSE EmptyHop], NoError)

(* blindedToSphinx: slot 1 is addressed to the introduction point in the   *)
(* clear, slots 2..Len(EncryptedData) to the blinded ids; the rest of the  *)
(* fixed-width array stays empty, and a longer route overflows it.         *)
blindedToSphinx(bp) ==
    LET n == Len(bp.EncryptedData)
    IN  IF n > NumMaxHops THEN Return(<<>>, Panic)
        ELSE Return([i \in 1..NumMaxHops |->
                       IF i = 1 THEN [NodePub |-> bp.IntroductionPoint,
                                      Payload |-> bp.EncryptedData[1]]
                       ELSE IF i <= n THEN [NodePub |-> bp.BlindedHops[i],
                                            Payload |-> bp.EncryptedData[i]]
                       ELSE EmptyHop], NoError)

(* The route SendMessage wraps in an onion for a cleartext path.           *)
SphinxRoute(p) ==
    LET hops == createPathToBlind(p)
    IN  IF hops.err # NoError THEN hops
        ELSE blindedToSphinx(BuildBlindedPath(hops.val))

-----------------------------------------------------------------------------
Init ==
    /\ path = <<>>
    /\ route = SphinxRoute(<<>>)

\* Extend the path under construction by one node and rebuild its route.
Extend ==
    /\ Len(path) < MaxPathLen
    /\ \E n \in Nodes :
         /\ path' = Append(path, n)
         /\ route' = SphinxRoute(path')

\* Start over with a new path.
Restart ==
    /\ path # <<>>
    /\ path' = <<>>
    /\ route' = SphinxRoute(<<>>)

Next == Extend \/ Restart

Spec == Init /\ [][Next]_vars

-----------------------------------------------------------------------------
Payloads == {NoPayload} \cup {<< <<NextNodeIDType, m>> >> : m \in Nodes}

OnionHops ==
    {EmptyHop} \cup
    [NodePub : Nodes \cup {Blind(n) : n \in Nodes},
     Payload : {Encrypt(n, q) : n \in Nodes, q \in Payloads}]

TypeOK ==
    /\ path \in BoundedSeq(Nodes, MaxPathLen)
    /\ route.err \in {NoError, EncodeError, Panic}
    /\ route.err = NoError => route.val \in [1..NumMaxHops -> OnionHops]

(* Forwarding walk: the sender hands the onion to slot 1's addressee,      *)
(* which must be a node reachable in the clear.  The node holding slot i   *)
(* peels its layer (it can if the slot is addressed to it, blinded or not, *)
(* and the payload was encrypted to it), reads next_node_id and hands the  *)
(* next packet to that node; it is the exit node when no next node is      *)
(* given.  Walk returns the exit node, or "stuck".                         *)
Peels(n, hop) ==
    /\ hop.NodePub \in {n, Blind(n)}
    /\ hop.Payload.to = n

RECURSIVE Walk(_, _, _)
Walk(r, i, n) ==
    IF i > NumMaxHops \/ r[i] = EmptyHop \/ ~Peels(n, r[i]) THEN "stuck"
    ELSE IF r[i].Payload.data = NoPayload THEN n
    ELSE Walk(r, i + 1, r[i].Payload.data[1][2])

(* Every built route delivers the message, hop by hop, to the last node of *)
(* the path: the first hop is a peer the sender can reach by its real key  *)
(* and each forwarder's next_node_id names the node able to peel the next  *)
(* layer (spec 4.3: the introduction node is addressed in the clear).      *)
OnionReachesDestination ==
    route.err = NoError =>
        /\ route.val[1].NodePub \in Nodes
        /\ Walk(route.val, 1, route.val[1].NodePub) = Last(path)

=============================================================================
