---------------------------- MODULE ReplyPathCodec ----------------------------
(***************************************************************************)
(* The conversions between the RPC representation of a blinded path and    *)
(* the messenger's (src/rpcserver/common.go):                               *)
(*   parseReplyPath      offersrpc.BlindedPath -> lnwire.ReplyPath          *)
(*   composeReplyPath    lnwire.ReplyPath      -> offersrpc.BlindedPath     *)
(*   composeBlindedRoute sphinx.BlindedPath    -> offersrpc.BlindedPath     *)
(* Public keys are model values; an encoding of key k is the tuple        *)
(* <<format, k>>, Ser(k) the compressed one that the messenger writes, and *)
(* BadBytes stands for byte strings that do not parse as a key.  The state machine records one conversion per step: its input   *)
(* and the (value, error) pair it returned.                                 *)
(***************************************************************************)
EXTENDS Naturals, Sequences, SequencesExt

CONSTANTS
    Keys,      \* public keys (model values)
    BadBytes,  \* byte strings that btcec.ParsePubKey rejects (model values)
    Blobs,     \* encrypted_data byte strings (model values)
    KeyFormats, \* the encodings btcec.ParsePubKey accepts ("compressed", ...)
    MaxHops,   \* bound on the number of hops of an enumerated path
    Nil        \* a nil pointer (a model value)

ASSUME "compressed" \in KeyFormats /\ MaxHops \in Nat /\ Nil \notin Keys \cup BadBytes \cup Blobs

VARIABLES op, input, output
vars == <<op, input, output>>

NoError         == "nil"
InvalidArgument == "InvalidArgument"

Return(v, e) == [val |-> v, err |-> e]

\* btcec.ParsePubKey accepts the 33-byte compressed encoding and the 65-byte
\* uncompressed and hybrid ones; SerializeCompressed writes the first.
Ser(k) == <<"compressed", k>>
EncodedKeys == KeyFormats \X Keys

ParsePubKey(b) ==
    IF b \in EncodedKeys THEN Return(b[2], NoError)
    ELSE Return(Nil, InvalidArgument)

-----------------------------------------------------------------------------
(* parseReplyPath: a nil request is a nil path and no error; otherwise the *)
(* introduction node, the blinding point and then every hop's blinded id   *)
(* are parsed in that order, and the first failure is InvalidArgument.     *)
\* Mutant: a hop's blinded node id is used without checking the parse.
parseReplyPathUncheckedHops(req) ==
    IF req = Nil THEN Return(Nil, NoError)
    ELSE IF ParsePubKey(req.IntroductionNode).err # NoError
         \/ ParsePubKey(req.BlindingPoint).err # NoError
         THEN Return(Nil, InvalidArgument)
    ELSE Return([FirstNodeID   |-> ParsePubKey(req.IntroductionNode).val,
                 BlindingPoint |-> ParsePubKey(req.BlindingPoint).val,
                 Hops |-> [i \in DOMAIN req.Hops |->
                            [BlindedNodeID |-> ParsePubKey(req.Hops[i].BlindedNodeId).val,
                             EncryptedData |-> req.Hops[i].EncryptedData]]],
                NoError)

\* Mutant: the introduction node is kept as the bytes the client sent.
parseReplyPathRawIntro(req) ==
    IF req = Nil THEN Return(Nil, NoError)
    ELSE IF ParsePubKey(req.IntroductionNode).err # NoError
         \/ ParsePubKey(req.BlindingPoint).err # NoError
         \/ \E i \in DOMAIN req.Hops :
               ParsePubKey(req.Hops[i].BlindedNodeId).err # NoError
         THEN Return(Nil, InvalidArgument)
    ELSE Return([FirstNodeID   |-> req.IntroductionNode,
                 BlindingPoint |-> ParsePubKey(req.BlindingPoint).val,
                 Hops |-> [i \in DOMAIN req.Hops |->
                            [BlindedNodeID |-> ParsePubKey(req.Hops[i].BlindedNodeId).val,
                             EncryptedData |-> req.Hops[i].EncryptedData]]],
                NoError)

parseReplyPath(req) ==
    IF req = Nil THEN Return(Nil, NoError)
    ELSE IF ParsePubKey(req.IntroductionNode).err # NoError
         \/ ParsePubKey(req.BlindingPoint).err # NoError
         \/ \E i \in DOMAIN req.Hops :
               ParsePubKey(req.Hops[i].BlindedNodeId).err # NoError
         THEN Return(Nil, InvalidArgument)
    ELSE Return([FirstNodeID   |-> ParsePubKey(req.IntroductionNode).val,
                 BlindingPoint |-> ParsePubKey(req.BlindingPoint).val,
                 Hops |-> [i \in DOMAIN req.Hops |->
                            [BlindedNodeID |-> ParsePubKey(req.Hops[i].BlindedNodeId).val,
                             EncryptedData |-> req.Hops[i].EncryptedData]]],
                NoError)

\* Mutant: a nil reply path is composed as an empty rpc message, whose
\* unset keys are bytes that do not parse.
composeReplyPathNilEmpty(resp) ==
    IF resp = Nil
    THEN [IntroductionNode |-> CHOOSE b \in BadBytes : TRUE,
          BlindingPoint    |-> CHOOSE b \in BadBytes : TRUE,
          Hops             |-> <<>>]
    ELSE [IntroductionNode |-> Ser(resp.FirstNodeID),
          BlindingPoint    |-> Ser(resp.BlindingPoint),
          Hops |-> [i \in DOMAIN resp.Hops |->
                     [BlindedNodeId |-> Ser(resp.Hops[i].BlindedNodeID),
                      EncryptedData |-> resp.Hops[i].EncryptedData]]]

(* composeReplyPath: nil stays nil; every key is serialised compressed and *)
(* the hops keep their order.                                              *)
composeReplyPath(resp) ==
    IF resp = Nil THEN Nil
    ELSE [IntroductionNode |-> Ser(resp.FirstNodeID),
          BlindingPoint    |-> Ser(resp.BlindingPoint),
          Hops |-> [i \in DOMAIN resp.Hops |->
                     [BlindedNodeId |-> Ser(resp.Hops[i].BlindedNodeID),
                      EncryptedData |-> resp.Hops[i].EncryptedData]]]

\* Mutant: the loop over the blinded hops starts at index 1, skipping one.
composeBlindedRouteSkipFirst(route) ==
    [IntroductionNode |-> Ser(route.IntroductionPoint),
     BlindingPoint    |-> Ser(route.BlindingPoint),
     Hops |-> [i \in 1..(Len(route.BlindedHops) - 1) |->
                [BlindedNodeId |-> Ser(route.BlindedHops[i + 1].BlindedNodePub),
                 EncryptedData |-> route.BlindedHops[i + 1].CipherText]]]

(* composeBlindedRoute: the route's keys serialised, and one rpc hop per   *)
(* blinded hop appended in order.                                          *)
composeBlindedRoute(route) ==
    [IntroductionNode |-> Ser(route.IntroductionPoint),
     BlindingPoint    |-> Ser(route.BlindingPoint),
     Hops |-> [i \in DOMAIN route.BlindedHops |->
                [BlindedNodeId |-> Ser(route.BlindedHops[i].BlindedNodePub),
                 EncryptedData |-> route.BlindedHops[i].CipherText]]]

-----------------------------------------------------------------------------
(* The inputs the conversions meet: what a client may send, what the wire  *)
(* decoder produces, and what sphinx.BuildBlindedPath returns.             *)
KeyBytes == EncodedKeys \cup BadBytes

RPCPaths ==
    {Nil} \cup
    [IntroductionNode : KeyBytes, BlindingPoint : KeyBytes,
     Hops : BoundedSeq([BlindedNodeId : KeyBytes, EncryptedData : Blobs], MaxHops)]

ReplyPaths ==
    {Nil} \cup
    [FirstNodeID : Keys, BlindingPoint : Keys,
     Hops : BoundedSeq([BlindedNodeID : Keys, EncryptedData : Blobs], MaxHops)]

SphinxPaths ==
    [IntroductionPoint : Keys, BlindingPoint : Keys,
     BlindedHops : BoundedSeq([BlindedNodePub : Keys, CipherText : Blobs], MaxHops)]

Init ==
    /\ op = "none"
    /\ input = Nil
    /\ output = Return(Nil, NoError)

\* A client's reply path or blinded destination is parsed (SendOnionMessage).
Parse ==
    \E req \in RPCPaths :
        /\ op' = "parse"
        /\ input' = req
        /\ output' = parseReplyPath(req)

\* A received reply path is returned to a subscriber (SubscribeOnionPayload).
Compose ==
    \E rp \in ReplyPaths :
        /\ op' = "compose"
        /\ input' = rp
        /\ output' = Return(composeReplyPath(rp), NoError)

\* A freshly built blinded route is returned to the client.
ComposeRoute ==
    \E bp \in SphinxPaths :
        /\ op' = "route"
        /\ input' = bp
        /\ output' = Return(composeBlindedRoute(bp), NoError)

Next == Parse \/ Compose \/ ComposeRoute

Spec == Init /\ [][Next]_vars

-----------------------------------------------------------------------------
\* The Go type of a parsed path: every key is a pointer, nil or a key.
ParsedPaths ==
    {Nil} \cup
    [FirstNodeID : Keys \cup {Nil}, BlindingPoint : Keys \cup {Nil},
     Hops : BoundedSeq([BlindedNodeID : Keys \cup {Nil}, EncryptedData : Blobs], MaxHops)]

TypeOK ==
    /\ op \in {"none", "parse", "compose", "route"}
    /\ input \in RPCPaths \cup ReplyPaths \cup SphinxPaths
    /\ output.err \in {NoError, InvalidArgument}
    /\ output.err = NoError => output.val \in RPCPaths \cup ParsedPaths

\* The keys an rpc path carries, in the order parseReplyPath reads them.
RPCKeyBytes(req) ==
    <<req.IntroductionNode, req.BlindingPoint>> \o
        [i \in DOMAIN req.Hops |-> req.Hops[i].BlindedNodeId]

(* A request parses exactly when every key it carries is a valid key, and *)
(* the parsed path keeps every hop's cipher text in the request's order:   *)
(* a bad key in any position is refused rather than passed on.             *)
ParseIsExact ==
    op = "parse" /\ input # Nil =>
        /\ (output.err = NoError) <=> (Range(RPCKeyBytes(input)) \subseteq EncodedKeys)
        /\ output.err = NoError =>
              /\ Len(output.val.Hops) = Len(input.Hops)
              /\ \A i \in DOMAIN input.Hops :
                    output.val.Hops[i].EncryptedData = input.Hops[i].EncryptedData

(* Composing a decoded reply path and parsing the result gives the same    *)
(* path back, hops in the same order, and nil stays nil.                    *)
ComposeRoundTrips ==
    op = "compose" => parseReplyPath(output.val) = Return(input, NoError)

(* The rpc form of a built blinded route, parsed as a reply path, starts   *)
(* at the route's introduction point in the clear and lists every blinded  *)
(* hop with its cipher text, in order.                                     *)
RouteAsReplyPath ==
    op = "route" =>
        LET rp == parseReplyPath(output.val).val
        IN  /\ rp.FirstNodeID = input.IntroductionPoint
            /\ rp.BlindingPoint = input.BlindingPoint
            /\ Len(rp.Hops) = Len(input.BlindedHops)
            /\ \A i \in DOMAIN rp.Hops :
                  /\ rp.Hops[i].BlindedNodeID = input.BlindedHops[i].BlindedNodePub
                  /\ rp.Hops[i].EncryptedData = input.BlindedHops[i].CipherText

(* spec 3: a ReplyPath that is present has at least one hop.               *)
ParsedReplyPathHasHops ==
    op = "parse" /\ output.err = NoError /\ output.val # Nil =>
        Len(output.val.Hops) >= 1

=============================================================================
