----------------------------- MODULE ItestCases -----------------------------
(***************************************************************************)
(* The integration tests of src/itest as the sequences of steps their test *)
(* goroutine executes, read by the ItestHarness state machine.  Node and   *)
(* channel setup (restarts, ConnectNodes, openChannelAndAnnounce, funding, *)
(* CloseChannel) is left out: it precedes every subscription or follows    *)
(* every receive, so its failure meets no goroutine of the test.           *)
(*                                                                         *)
(* A step is one of                                                        *)
(*   bind v x    v, x := ... : variable v now holds the cancel of ctx x    *)
(*   cancel v    cancel() through variable v                               *)
(*   defer d     a defer statement                                         *)
(*   subscribe c the streaming call creating client c                      *)
(*   rpc T N     a unary RPC checked by require.NoError; T is the set of   *)
(*               custom-message types of the onion message it sends, N the *)
(*               channels its sender must have in its graph (a node to     *)
(*               look up, or a route to find)                              *)
(*   open ch     openChannelAndAnnounce(initiator, receiver, network...)   *)
(*   consume c   consumeOnionMessage(c): wg.Add(1) and a Recv goroutine    *)
(*   receive c e readOnionMessage and the checks on its result; e is "msg" *)
(*               or "err" (an InvalidArgument status is expected)          *)
(***************************************************************************)
EXTENDS Sequences

\* lnd's custom message type of onion messages (--protocol.custom-message=513).
OnionMessageType == 513

\* The subscriptions the tests open: tlv type, context and the server
\* that serves them ("offers" for boltnd, "lnd" for SubscribeCustomMessages).
ClientType ==
    [c \in {"failedClient", "client1", "client2", "carolSub", "bobMsg", "daveSub"} |->
        CASE c = "failedClient" -> 2
          [] c = "client1"      -> 101
          [] c = "client2"      -> 105
          [] c = "carolSub"     -> 101
          [] c = "bobMsg"       -> OnionMessageType
          [] c = "daveSub"      -> 101]

ClientCtx ==
    [c \in DOMAIN ClientType |->
        CASE c = "bobMsg"  -> "bobSub"
          [] c = "daveSub" -> "ctxSub"
          [] OTHER         -> "ctxc"]

ClientRPC ==
    [c \in DOMAIN ClientType |-> IF c = "bobMsg" THEN "lnd" ELSE "offers"]

Step(o, a, e) == [op |-> o, arg |-> a, exp |-> e]
Bind(v, x)    == Step("bind", <<v, x>>, "")
Cancel(v)     == Step("cancel", v, "")
Defer(d)      == Step("defer", d, "")
Subscribe(c)  == Step("subscribe", c, "")
RpcNeeds(T, N) == Step("rpc", T, N)
Rpc(T)        == RpcNeeds(T, {})
Open(ch, i, r, N) == Step("open", [chan |-> ch, ends |-> {i, r}, network |-> N], "")
Needs(n, ch)  == [node |-> n, chan |-> ch]
Consume(c)    == Step("consume", c, "")
Receive(c, e) == Step("receive", c, e)

\* Deferred calls: `defer cancel()` evaluates cancel at the defer statement,
\* a deferred closure reads the variable when it runs.
Deferred(k, a) == [kind |-> k, arg |-> a]
CallNow(v)  == Deferred("callNow", v)
Closure(v)  == Deferred("closure", v)
Wait        == Deferred("wait", "")
Close(C)    == Deferred("close", C)

\* Onion messages sent with final payloads of the given tlv types.
Onion(T) == {OnionMessageType} \cup T

-----------------------------------------------------------------------------
SubscribeOnionPayloadTest ==
    << Defer(Close({"failedClient", "client1", "client2"})),
       Bind("cancel", "ctxc"), Defer(Closure("cancel")),
       Subscribe("failedClient"), Consume("failedClient"),
       Receive("failedClient", "err"),
       Subscribe("client1"),
       Bind("cancel", "ctxt"), Defer(CallNow("cancel")),
       Rpc(Onion({103})), Rpc(Onion({101, 103})),
       Consume("client1"), Receive("client1", "msg"),
       Subscribe("client2"),
       Rpc(Onion({101, 105})),
       Consume("client1"), Receive("client1", "msg"),
       Consume("client2"), Receive("client2", "msg") >>

\* Alice reaches Carol through Bob: her route query needs Bob--Carol.
OnionMsgForwardTest ==
    << Defer(Close({})), Defer(Close({"carolSub"})),
       Open("AB", "alice", "bob", {"carol"}), Open("BC", "bob", "carol", {"alice"}),
       Bind("cancel", "ctxc"), Defer(Closure("cancel")),
       Subscribe("carolSub"),
       Bind("cancel", "ctxt"), RpcNeeds(Onion({101}), {Needs("alice", "BC")}),
       Cancel("cancel"),
       Consume("carolSub"), Receive("carolSub", "msg") >>

\* One exchange of OnionMessageTestCase: send, cancel the send's context,
\* spawn the receive goroutine and read.  N is what the sender must know of
\* the graph.
OnionExchange(N) ==
    << Bind("cancel", "ctxt"), RpcNeeds(Onion({}), N), Cancel("cancel"),
       Consume("bobMsg"), Receive("bobMsg", "msg") >>

OnionMessageTest ==
    << Defer(Close({})),
       Subscribe("bobMsg"), Bind("cancel", "bobSub"),
       Defer(Closure("cancel")) >>
    \o OnionExchange({})
    \o << Open("AB", "alice", "bob", {"carol"}), Defer(Close({})) >>
    \o OnionExchange({Needs("carol", "AB")}) \o OnionExchange({Needs("alice", "AB")})
    \o << Open("AC", "alice", "carol", {"bob"}), Bind("cancel", "ctxt"), Rpc({}) >>
    \o OnionExchange({})

\* Which node introduces Dave's blinded route is lnd's choice, so the send
\* to it is given no graph requirement.
ReplyMessageTest ==
    << Defer(Close({})), Defer(Close({"daveSub"})),
       Open("AB", "alice", "bob", {"carol", "dave"}),
       Open("BC", "bob", "carol", {"alice", "dave"}),
       Open("CD", "carol", "dave", {"alice", "bob"}),
       Bind("cancel", "ctxt"), Rpc({}), Cancel("cancel"),
       Bind("cancelSub", "ctxSub"), Defer(CallNow("cancelSub")),
       Subscribe("daveSub"),
       Defer(Wait),
       Bind("cancel", "ctxt"), Rpc(Onion({101})), Cancel("cancel"),
       Consume("daveSub"), Receive("daveSub", "msg") >>

\* The copy of ReplyMessageTestCase for the older harness signature has the
\* same steps.
ReplyMessageTestT == ReplyMessageTest

=============================================================================
