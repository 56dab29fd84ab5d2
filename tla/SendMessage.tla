----------------------------- MODULE SendMessage -----------------------------
(***************************************************************************)
(* The send path of the onion messenger: SendMessage validates a request   *)
(* (spec 4.7), makes sure its first hop is reachable (spec 4.4), builds the *)
(* onion route with createPathToBlind and blindedToSphinx (PathToBlind) and *)
(* hands the packet to lnd's SendCustomMessage.  The messenger's code is   *)
(* not in this repository; the steps follow spec 4.4-4.7 and the messenger *)
(* tests in src/unnamed/part_001 (TestSendMessage, TestMultiHopPath,        *)
(* TestValidateSendMessageRequest), which fix the order of lnd's calls and  *)
(* the error each failure gives.                                            *)
(*                                                                         *)
(* Several callers may send at once; they share lnd's peer list.  lnd is   *)
(* the environment: each of its calls may fail, a connection completes its *)
(* handshake some time after ConnectPeer returns (or never), and peers may  *)
(* disconnect at any time.                                                 *)
(***************************************************************************)
EXTENDS Naturals, Sequences, FiniteSets

CONSTANTS
    Nodes,       \* the other nodes of the network (model values)
    Callers,     \* concurrent SendMessage calls (model values)
    Requests,    \* the SendMessageRequests a caller may make
    Addressed,   \* nodes whose graph entry lists addresses
    MaxAttempts, \* bound on the configured lookupPeerAttempts
    Nil          \* a nil key, path or pointer (a model value)

ASSUME Addressed \subseteq Nodes /\ Nil \notin Nodes /\ MaxAttempts \in Nat

\* The route builder, used for its operators only.  Routes here have at most
\* two hops, so three slots of the payment path (27 in lightning-onion)
\* stand for all of them.
PB == INSTANCE PathToBlind WITH
        Nodes <- Nodes, NumMaxHops <- 3, MaxPathLen <- 0, FailingKeys <- {},
        NoNode <- Nil, path <- <<>>, route <- <<>>

\* lnwire: the first tlv type of the final-payload range.
FinalPayloadStart == 64

Ok == "ok"
Errors == {"ErrNoDest", "ErrBothDest", "ErrNoBlindedHops", "ErrNotFinalPayload",
           "ListPeersErr", "GetNodeErr", "ErrNoAddresses", "ConnectErr",
           "ErrNoConnection", "CtxCanceled", "QueryRoutesErr", "ErrNoPath",
           "ErrNilPubkeyInRoute", "SendErr", PB!Panic, PB!EncodeError}

VARIABLES
    peers,       \* lnd's connected peers
    connecting,  \* nodes ConnectPeer succeeded for, handshake not yet done
    attempts,    \* the messenger's lookupPeerAttempts
    req,         \* [Callers -> the request]
    pc,          \* [Callers -> the step the call is at]
    target,      \* [Callers -> the node to reach first]
    path,        \* [Callers -> the cleartext path of the onion]
    polls,       \* [Callers -> peer-list lookups made after connecting]
    cancelled,   \* [Callers -> the caller's context is done]
    outcome,     \* [Callers -> the error SendMessage returned, Ok, or "none"]
    sent         \* [Callers -> the peers a custom message was sent to]

vars == <<peers, connecting, attempts, req, pc, target, path, polls,
          cancelled, outcome, sent>>
callVars == <<pc, target, path, polls, outcome, sent>>

Goto(c, l) == pc' = [pc EXCEPT ![c] = l]

Finish(c, e) ==
    /\ Goto(c, "done")
    /\ outcome' = [outcome EXCEPT ![c] = e]

-----------------------------------------------------------------------------
(* SendMessageRequest.Validate: exactly one destination, a blinded one with *)
(* hops, and every final payload in the final-payload range.               *)
ValidateErr(r) ==
    CASE r.peer = Nil /\ r.blinded = Nil            -> "ErrNoDest"
      [] r.peer # Nil /\ r.blinded # Nil            -> "ErrBothDest"
      [] r.blinded # Nil /\ r.blinded.hops = 0      -> "ErrNoBlindedHops"
      [] \E t \in r.finalTypes : t < FinalPayloadStart -> "ErrNotFinalPayload"
      [] OTHER                                      -> "nil"

\* Mutant: the blinded destination itself is taken for its introduction node.
DestinationWholePath(r) == IF r.peer # Nil THEN r.peer ELSE r.blinded

\* The node the onion goes to first: the peer, or the introduction node.
Destination(r) == IF r.peer # Nil THEN r.peer ELSE r.blinded.intro

\* What lnd's QueryRoutes may answer for a target: an error, no route, or a
\* route of up to two hops ending at the target, a hop's key possibly nil.
Answer(e, hops) == [err |-> e, hops |-> hops]
RouteAnswers(t) ==
    {Answer("QueryRoutesErr", <<>>), Answer("ErrNoRouteFound", <<>>)}
        \cup {Answer("nil", r) : r \in {<<>>, <<t>>, <<Nil, t>>}
                                     \cup {<<h, t>> : h \in Nodes \ {t}}}

(* multiHopPath: no route found is a nil path and no error; a hop without  *)
(* a key is ErrNilPubkeyInRoute; otherwise the hops' keys in order.        *)
MultiHopPath(a) ==
    CASE a.err = "QueryRoutesErr"                -> [val |-> <<>>, err |-> a.err]
      [] a.err = "ErrNoRouteFound"               -> [val |-> <<>>, err |-> "nil"]
      [] \E i \in DOMAIN a.hops : a.hops[i] = Nil -> [val |-> <<>>, err |-> "ErrNilPubkeyInRoute"]
      [] OTHER                                   -> [val |-> a.hops, err |-> "nil"]

-----------------------------------------------------------------------------
(******************************** SendMessage ******************************)

\* The request is validated, then the direct or the multi-hop branch begins.
Validate(c) ==
    /\ pc[c] = "validate"
    /\ LET e == ValidateErr(req[c]) IN
       IF e # "nil" THEN Finish(c, e) /\ UNCHANGED target
       ELSE /\ target' = [target EXCEPT ![c] = Destination(req[c])]
            /\ Goto(c, IF req[c].direct THEN "listPeers" ELSE "queryRoutes")
            /\ UNCHANGED outcome
    /\ UNCHANGED <<peers, connecting, attempts, req, path, polls, cancelled, sent>>

\* ListPeers: a peer already connected is sent to at once.
ListPeers(c) ==
    /\ pc[c] = "listPeers"
    /\ \/ Finish(c, "ListPeersErr") /\ UNCHANGED path
       \/ /\ target[c] \in peers
          /\ path' = [path EXCEPT ![c] = <<target[c]>>]
          /\ Goto(c, "send") /\ UNCHANGED outcome
       \/ target[c] \notin peers /\ Goto(c, "nodeInfo") /\ UNCHANGED <<outcome, path>>
    /\ UNCHANGED <<peers, connecting, attempts, req, target, polls, cancelled, sent>>

\* GetNodeInfo: the graph entry must exist and list an address.
GetNodeInfo(c) ==
    /\ pc[c] = "nodeInfo"
    /\ \/ Finish(c, "GetNodeErr")
       \/ target[c] \notin Addressed /\ Finish(c, "ErrNoAddresses")
       \/ target[c] \in Addressed /\ Goto(c, "connect") /\ UNCHANGED outcome
    /\ UNCHANGED <<peers, connecting, attempts, req, target, path, polls, cancelled, sent>>

\* ConnectPeer returns before the handshake completes.
ConnectPeer(c) ==
    /\ pc[c] = "connect"
    /\ \/ Finish(c, "ConnectErr") /\ UNCHANGED <<connecting, polls>>
       \/ /\ connecting' = IF target[c] \in peers THEN connecting
                           ELSE connecting \cup {target[c]}
          /\ polls' = [polls EXCEPT ![c] = 0]
          /\ Goto(c, "poll") /\ UNCHANGED outcome
    /\ UNCHANGED <<peers, attempts, req, target, path, cancelled, sent>>

\* Mutant: the peer list is polled until the peer shows up, without bound.
PollUnbounded(c) ==
    /\ pc[c] = "poll"
    /\ IF target[c] \in peers
       THEN path' = [path EXCEPT ![c] = <<target[c]>>] /\ Goto(c, "send")
       ELSE Goto(c, "backoff") /\ UNCHANGED path
    /\ UNCHANGED <<peers, connecting, attempts, req, target, polls, cancelled, outcome, sent>>

(* One lookup of the loop over lookupPeerAttempts: the peer found in the   *)
(* list is sent to; after the last lookup the call fails.                  *)
Poll(c) ==
    /\ pc[c] = "poll"
    /\ \/ polls[c] = attempts /\ Finish(c, "ErrNoConnection") /\ UNCHANGED <<path, polls>>
       \/ /\ polls[c] < attempts
          /\ polls' = [polls EXCEPT ![c] = @ + 1]
          /\ IF target[c] \in peers
             THEN path' = [path EXCEPT ![c] = <<target[c]>>] /\ Goto(c, "send")
             ELSE Goto(c, "backoff") /\ UNCHANGED path
          /\ UNCHANGED outcome
    /\ UNCHANGED <<peers, connecting, attempts, req, target, cancelled, sent>>

\* The sleep of lookupPeerBackoff between lookups, cut short by the context.
Backoff(c) ==
    /\ pc[c] = "backoff"
    /\ \/ cancelled[c] /\ Finish(c, "CtxCanceled")
       \/ Goto(c, "poll") /\ UNCHANGED outcome
    /\ UNCHANGED <<peers, connecting, attempts, req, target, path, polls, cancelled, sent>>

(* The multi-hop branch: multiHopPath queries lnd for a route, and an     *)
(* empty path (no route found) is ErrNoPath.                              *)
QueryRoutes(c) ==
    /\ pc[c] = "queryRoutes"
    /\ \E a \in RouteAnswers(target[c]) :
         LET mh == MultiHopPath(a) IN
         CASE mh.err # "nil"  -> Finish(c, mh.err) /\ UNCHANGED path
           [] mh.val = <<>>   -> Finish(c, "ErrNoPath") /\ UNCHANGED path
           [] OTHER           -> path' = [path EXCEPT ![c] = mh.val]
                                 /\ Goto(c, "send") /\ UNCHANGED outcome
    /\ UNCHANGED <<peers, connecting, attempts, req, target, polls, cancelled, sent>>

(* The path is turned into an onion route (createPathToBlind, the sphinx  *)
(* blinding and blindedToSphinx) and the packet is sent as a custom       *)
(* message to the route's first hop, which lnd refuses unless it is a     *)
(* connected peer.                                                        *)
Send(c) ==
    /\ pc[c] = "send"
    /\ LET onion == PB!SphinxRoute(path[c]) IN
       IF onion.err # PB!NoError THEN Finish(c, onion.err) /\ UNCHANGED sent
       ELSE LET first == onion.val[1].NodePub IN
            \/ first \in peers /\ sent' = [sent EXCEPT ![c] = Append(@, first)] /\ Finish(c, Ok)
            \/ Finish(c, "SendErr") /\ UNCHANGED sent
    /\ UNCHANGED <<peers, connecting, attempts, req, target, path, polls, cancelled>>

-----------------------------------------------------------------------------
(******************************* Environment *******************************)

\* A connection's handshake completes and lnd lists the node as a peer.
Handshake(n) ==
    /\ n \in connecting
    /\ peers' = peers \cup {n}
    /\ connecting' = connecting \ {n}
    /\ UNCHANGED <<attempts, req, cancelled>> /\ UNCHANGED callVars

\* A peer disconnects.
Disconnect(n) ==
    /\ n \in peers
    /\ peers' = peers \ {n}
    /\ UNCHANGED <<connecting, attempts, req, cancelled>> /\ UNCHANGED callVars

\* The caller cancels its context.
Cancel(c) ==
    /\ ~cancelled[c] /\ pc[c] # "done"
    /\ cancelled' = [cancelled EXCEPT ![c] = TRUE]
    /\ UNCHANGED <<peers, connecting, attempts, req>> /\ UNCHANGED callVars

-----------------------------------------------------------------------------
Init ==
    /\ peers \in SUBSET Nodes
    /\ connecting = {}
    /\ attempts \in 0..MaxAttempts
    /\ req \in [Callers -> Requests]
    /\ pc = [c \in Callers |-> "validate"]
    /\ target = [c \in Callers |-> Nil]
    /\ path = [c \in Callers |-> <<>>]
    /\ polls = [c \in Callers |-> 0]
    /\ cancelled = [c \in Callers |-> FALSE]
    /\ outcome = [c \in Callers |-> "none"]
    /\ sent = [c \in Callers |-> <<>>]

Step(c) ==
    \/ Validate(c) \/ ListPeers(c) \/ GetNodeInfo(c) \/ ConnectPeer(c)
    \/ Poll(c) \/ Backoff(c) \/ QueryRoutes(c) \/ Send(c)

Next ==
    \/ \E c \in Callers : Step(c) \/ Cancel(c)
    \/ \E n \in Nodes : Handshake(n) \/ Disconnect(n)

\* Each call runs on its own goroutine; lnd and the callers' cancels are not
\* forced to act.
Spec == Init /\ [][Next]_vars /\ \A c \in Callers : WF_vars(Step(c))

-----------------------------------------------------------------------------
TypeOK ==
    /\ peers \subseteq Nodes /\ connecting \subseteq Nodes
    /\ attempts \in 0..MaxAttempts
    /\ pc \in [Callers -> {"validate", "listPeers", "nodeInfo", "connect", "poll",
                           "backoff", "queryRoutes", "send", "done"}]
    /\ target \in [Callers -> Nodes \cup {Nil}]
    /\ path \in [Callers -> Seq(Nodes)]
    /\ polls \in [Callers -> 0..MaxAttempts]
    /\ outcome \in [Callers -> Errors \cup {Ok, "none"}]
    /\ sent \in [Callers -> Seq(Nodes)]

(* Every SendMessage call returns: the lookups after ConnectPeer are       *)
(* bounded, whether or not the peer's handshake ever completes.            *)
SendReturns == \A c \in Callers : <>(pc[c] = "done")

=============================================================================
