---------------------------- MODULE ItestHarness ----------------------------
(***************************************************************************)
(* An integration test of src/itest running against the node it drives.   *)
(* Actors:                                                                 *)
(*  - the test goroutine, stepping through its script (ItestCases) and,    *)
(*    once it returns or a require fails (runtime.Goexit), running its     *)
(*    deferred calls last-in first-out;                                    *)
(*  - one goroutine per consumeOnionMessage call: client.Recv(), then a   *)
(*    send on errChan or msgChan (both buffered by 1), then wg.Done();     *)
(*  - the server side of each subscription: the streaming call returns to *)
(*    the client before the server has registered its handler, or refused *)
(*    an invalid tlv type;                                                 *)
(*  - the network, delivering the onion messages the rpc steps sent, one  *)
(*    at a time; a payload meets only handlers registered by then;        *)
(*  - lnd's gossip, spreading each opened channel from its two ends to    *)
(*    the other nodes of the test; a send whose sender must look a node   *)
(*    up or find a route fails while its graph lacks the channel.          *)
(* The one-minute time.After of readOnionMessage fires while neither       *)
(* channel holds a result.                                                 *)
(***************************************************************************)
EXTENDS Naturals, Sequences, SequencesExt, ItestCases

CONSTANT Tests   \* the scripts checked, a set of ItestCases definitions

Clients == DOMAIN ClientType
CancelVars == {"cancel", "cancelSub"}
TestNodes == {"alice", "bob", "carol", "dave"}
Chans == {"AB", "BC", "CD", "AC"}
\* The most consumeOnionMessage goroutines one test starts.
MaxConsumers == 4
\* lnwire.ValidateFinalPayload: final payload types start at 64.
FinalPayloadStart == 64

NoFailure == [step |-> 0, cause |-> "none"]

VARIABLES
    script,     \* the test being run
    pc,         \* index of the test goroutine's next step
    verdict,    \* "running", "passed" (returned) or "failed" (Goexit)
    failure,    \* the step at which a require failed and why
    bound,      \* cancel variable -> the context whose cancel it holds
    defers,     \* the defer stack
    sub,        \* client -> server-side state of its subscription
    stream,     \* client -> payload types received and not yet read
    streamErr,  \* client -> the error ending its stream, or "none"
    net,        \* onion messages sent and not yet delivered
    lost,       \* clients a payload reached before their registration
    consumers,  \* the Recv goroutines, in order of creation
    wg,         \* the sync.WaitGroup counter
    msgChan, errChan,
    graph       \* channel -> the nodes whose graph holds it

vars == <<script, pc, verdict, failure, bound, defers, sub, stream, streamErr,
          net, lost, consumers, wg, msgChan, errChan, graph>>
serverVars == <<sub, stream, streamErr, net, lost, graph>>
testVars == <<script, pc, verdict, failure, bound, defers>>

Cur == script[pc]
Running == verdict = "running" /\ pc <= Len(script)

Advance == pc' = pc + 1
Fail(cause) ==
    /\ verdict' = "failed"
    /\ failure' = [step |-> pc, cause |-> cause]

\* Cancelling ctx x ends the streams opened under it with Canceled.
CancelCtx(x) ==
    LET C == {c \in Clients : ClientCtx[c] = x /\ sub[c] # "none"
                              /\ streamErr[c] = "none"}
    IN  /\ streamErr' = [c \in Clients |-> IF c \in C THEN "Canceled" ELSE streamErr[c]]
        /\ sub' = [c \in Clients |-> IF c \in C THEN "ended" ELSE sub[c]]

-----------------------------------------------------------------------------
(* The test goroutine's steps.                                              *)
TestBind ==
    /\ Running /\ Cur.op = "bind"
    /\ bound' = [bound EXCEPT ![Cur.arg[1]] = Cur.arg[2]]
    /\ Advance
    /\ UNCHANGED <<script, verdict, failure, defers, serverVars, consumers, wg, msgChan, errChan>>

TestCancel ==
    /\ Running /\ Cur.op = "cancel"
    /\ CancelCtx(bound[Cur.arg])
    /\ Advance
    /\ UNCHANGED <<script, verdict, failure, bound, defers, stream, net, lost, graph,
                   consumers, wg, msgChan, errChan>>

\* `defer cancel()` evaluates the function value now.
TestDefer ==
    /\ Running /\ Cur.op = "defer"
    /\ defers' = Append(defers,
                   IF Cur.arg.kind = "callNow" THEN Deferred("cancelCtx", bound[Cur.arg.arg])
                   ELSE Cur.arg)
    /\ Advance
    /\ UNCHANGED <<script, verdict, failure, bound, serverVars, consumers, wg, msgChan, errChan>>

TestSubscribe ==
    /\ Running /\ Cur.op = "subscribe"
    /\ sub' = [sub EXCEPT ![Cur.arg] = "starting"]
    /\ Advance
    /\ UNCHANGED <<script, verdict, failure, bound, defers, stream, streamErr, net, lost, graph,
                   consumers, wg, msgChan, errChan>>

\* What the sending node must know of the graph for the RPC to succeed.
GraphReady == \A n \in Cur.exp : n.node \in graph[n.chan]

(* openChannelAndAnnounce: ht.OpenChannel returns once the initiator and   *)
(* the receiver have the channel in their graph; the network nodes passed  *)
(* in are not used.                                                        *)
TestOpen ==
    /\ Running /\ Cur.op = "open"
    /\ graph' = [graph EXCEPT ![Cur.arg.chan] = Cur.arg.ends]
    /\ Advance
    /\ UNCHANGED <<script, verdict, failure, bound, defers, sub, stream, streamErr,
                   net, lost, consumers, wg, msgChan, errChan>>

TestRpcOk ==
    /\ Running /\ Cur.op = "rpc" /\ GraphReady
    /\ net' = IF Cur.arg = {} THEN net ELSE Append(net, Cur.arg)
    /\ Advance
    /\ UNCHANGED <<script, verdict, failure, bound, defers, sub, stream, streamErr, lost, graph,
                   consumers, wg, msgChan, errChan>>

\* The sender has not yet seen a channel it needs: GetNodeInfo finds no node
\* (direct connect) or QueryRoutes no route (ErrNoPath), and require.NoError
\* ends the test.
TestRpcNoGraph ==
    /\ Running /\ Cur.op = "rpc" /\ ~GraphReady
    /\ Fail("noGraph")
    /\ UNCHANGED <<script, pc, bound, defers, serverVars, consumers, wg, msgChan, errChan>>

\* The RPC returns an error and require.NoError ends the test.
TestRpcFails ==
    /\ Running /\ Cur.op = "rpc"
    /\ Fail("rpcErr")
    /\ UNCHANGED <<script, pc, bound, defers, serverVars, consumers, wg, msgChan, errChan>>

\* Mutant: the goroutine is started without wg.Add(1).
TestConsumeNoAdd ==
    /\ Running /\ Cur.op = "consume"
    /\ consumers' = Append(consumers, [client |-> Cur.arg, st |-> "recv", val |-> "none"])
    /\ Advance
    /\ UNCHANGED <<script, verdict, failure, bound, defers, serverVars, wg, msgChan, errChan>>

TestConsume ==
    /\ Running /\ Cur.op = "consume"
    /\ wg' = wg + 1
    /\ consumers' = Append(consumers, [client |-> Cur.arg, st |-> "recv", val |-> "none"])
    /\ Advance
    /\ UNCHANGED <<script, verdict, failure, bound, defers, serverVars, msgChan, errChan>>

\* readOnionMessage returns a message: the step expected one of its client's type.
TestReceiveMsg ==
    /\ Running /\ Cur.op = "receive" /\ msgChan # <<>>
    /\ msgChan' = Tail(msgChan)
    /\ IF Cur.exp = "msg" /\ Head(msgChan) = ClientType[Cur.arg]
       THEN Advance /\ UNCHANGED <<verdict, failure>>
       ELSE Fail("wrong") /\ UNCHANGED pc
    /\ UNCHANGED <<script, bound, defers, serverVars, consumers, wg, errChan>>

\* readOnionMessage returns an error: only an InvalidArgument status was expected.
TestReceiveErr ==
    /\ Running /\ Cur.op = "receive" /\ errChan # <<>>
    /\ errChan' = Tail(errChan)
    /\ IF Cur.exp = "err" /\ Head(errChan) = "InvalidArgument"
       THEN Advance /\ UNCHANGED <<verdict, failure>>
       ELSE Fail("wrong") /\ UNCHANGED pc
    /\ UNCHANGED <<script, bound, defers, serverVars, consumers, wg, msgChan>>

\* Mutant: readOnionMessage without its time.After case.
TestTimeoutNever == FALSE

\* time.After fires: "message read timeout", which no step accepts.
TestTimeout ==
    /\ Running /\ Cur.op = "receive" /\ msgChan = <<>> /\ errChan = <<>>
    /\ Fail("timeout")
    /\ UNCHANGED <<script, pc, bound, defers, serverVars, consumers, wg, msgChan, errChan>>

TestReturn ==
    /\ verdict = "running" /\ pc > Len(script)
    /\ verdict' = "passed"
    /\ UNCHANGED <<script, pc, failure, bound, defers, serverVars, consumers, wg, msgChan, errChan>>

-----------------------------------------------------------------------------
(* The deferred calls, last first, after the return or the Goexit.          *)
Top == defers[Len(defers)]
Unwinding == verdict # "running" /\ defers # <<>>
Pop == defers' = SubSeq(defers, 1, Len(defers) - 1)

RunCancel ==
    /\ Unwinding /\ Top.kind = "cancelCtx"
    /\ CancelCtx(Top.arg)
    /\ Pop
    /\ UNCHANGED <<script, pc, verdict, failure, bound, stream, net, lost, graph,
                   consumers, wg, msgChan, errChan>>

\* func() { cancel(); wg.Wait() }: cancel is read when the closure runs.
RunClosure ==
    /\ Unwinding /\ Top.kind = "closure"
    /\ CancelCtx(bound[Top.arg])
    /\ defers' = [defers EXCEPT ![Len(defers)] = Wait]
    /\ UNCHANGED <<script, pc, verdict, failure, bound, stream, net, lost, graph,
                   consumers, wg, msgChan, errChan>>

RunWait ==
    /\ Unwinding /\ Top.kind = "wait"
    /\ wg = 0
    /\ Pop
    /\ UNCHANGED <<script, pc, verdict, failure, bound, serverVars, consumers, wg, msgChan, errChan>>

\* conn.Close(): the streams of that connection fail.
RunClose ==
    /\ Unwinding /\ Top.kind = "close"
    /\ streamErr' = [c \in Clients |->
                       IF c \in Top.arg /\ sub[c] # "none" /\ streamErr[c] = "none"
                       THEN "Closing" ELSE streamErr[c]]
    /\ Pop
    /\ UNCHANGED <<script, pc, verdict, failure, bound, sub, stream, net, lost, graph,
                   consumers, wg, msgChan, errChan>>

-----------------------------------------------------------------------------
(* The server: SubscribeOnionPayload validates the type and registers, or  *)
(* lnd registers a custom message subscriber; onion messages are delivered *)
(* to the handlers registered when they arrive.                            *)
ServerStart(c) ==
    /\ sub[c] = "starting"
    /\ IF ClientRPC[c] = "lnd" \/ ClientType[c] >= FinalPayloadStart
       THEN sub' = [sub EXCEPT ![c] = "registered"] /\ UNCHANGED streamErr
       ELSE /\ sub' = [sub EXCEPT ![c] = "ended"]
            /\ streamErr' = [streamErr EXCEPT ![c] = "InvalidArgument"]
    /\ UNCHANGED <<testVars, stream, net, lost, graph, consumers, wg, msgChan, errChan>>

\* Mutant: dispatch stops after the first payload of a message.
DeliverFirstOnly ==
    /\ net # <<>>
    /\ LET m == Head(net)
           t == Min(m \ {OnionMessageType})
           gets(c) == sub[c] = "registered" /\ ClientType[c] \in m
                      /\ (ClientType[c] = OnionMessageType \/ ClientType[c] = t)
       IN  /\ stream' = [c \in Clients |->
                           IF gets(c) THEN Append(stream[c], ClientType[c]) ELSE stream[c]]
           /\ lost' = lost \cup {c \in Clients : sub[c] = "starting" /\ ClientType[c] \in m}
    /\ net' = Tail(net)
    /\ UNCHANGED <<testVars, sub, streamErr, consumers, wg, msgChan, errChan, graph>>

Deliver ==
    /\ net # <<>>
    /\ LET m == Head(net)
           gets(c) == sub[c] = "registered" /\ ClientType[c] \in m
       IN  /\ stream' = [c \in Clients |->
                           IF gets(c) THEN Append(stream[c], ClientType[c]) ELSE stream[c]]
           /\ lost' = lost \cup {c \in Clients : sub[c] = "starting" /\ ClientType[c] \in m}
    /\ net' = Tail(net)
    /\ UNCHANGED <<testVars, sub, streamErr, consumers, wg, msgChan, errChan, graph>>

\* Node n learns channel ch by gossip (all nodes of a test are connected).
Gossip(ch, n) ==
    /\ graph[ch] # {} /\ n \notin graph[ch]
    /\ graph' = [graph EXCEPT ![ch] = @ \cup {n}]
    /\ UNCHANGED <<testVars, sub, stream, streamErr, net, lost, consumers, wg,
                   msgChan, errChan>>

-----------------------------------------------------------------------------
(* A consumeOnionMessage goroutine g.                                       *)
SetConsumer(g, st, v) == consumers' = [consumers EXCEPT ![g] = [@ EXCEPT !.st = st, !.val = v]]

RecvMsg(g) ==
    LET c == consumers[g].client IN
    /\ consumers[g].st = "recv" /\ stream[c] # <<>>
    /\ SetConsumer(g, "msg", Head(stream[c]))
    /\ stream' = [stream EXCEPT ![c] = Tail(@)]
    /\ UNCHANGED <<testVars, sub, streamErr, net, lost, graph, wg, msgChan, errChan>>

RecvErr(g) ==
    LET c == consumers[g].client IN
    /\ consumers[g].st = "recv" /\ streamErr[c] # "none"
    /\ SetConsumer(g, "err", streamErr[c])
    /\ UNCHANGED <<testVars, serverVars, wg, msgChan, errChan>>

\* msgChan <- msg (or errChan <- err), then the deferred wg.Done().
PushMsg(g) ==
    /\ consumers[g].st = "msg" /\ msgChan = <<>>
    /\ msgChan' = <<consumers[g].val>>
    /\ SetConsumer(g, "exit", "none")
    /\ wg' = wg - 1
    /\ UNCHANGED <<testVars, serverVars, errChan>>

PushErr(g) ==
    /\ consumers[g].st = "err" /\ errChan = <<>>
    /\ errChan' = <<consumers[g].val>>
    /\ SetConsumer(g, "exit", "none")
    /\ wg' = wg - 1
    /\ UNCHANGED <<testVars, serverVars, msgChan>>

-----------------------------------------------------------------------------
Init ==
    /\ script \in Tests
    /\ pc = 1
    /\ verdict = "running"
    /\ failure = NoFailure
    /\ bound = [v \in CancelVars |-> "none"]
    /\ defers = <<>>
    /\ sub = [c \in Clients |-> "none"]
    /\ stream = [c \in Clients |-> <<>>]
    /\ streamErr = [c \in Clients |-> "none"]
    /\ net = <<>>
    /\ lost = {}
    /\ consumers = <<>>
    /\ wg = 0
    /\ msgChan = <<>>
    /\ errChan = <<>>
    /\ graph = [ch \in Chans |-> {}]

TestStep ==
    \/ TestBind \/ TestCancel \/ TestDefer \/ TestSubscribe \/ TestOpen
    \/ TestRpcOk \/ TestRpcNoGraph
    \/ TestConsume \/ TestReceiveMsg \/ TestReceiveErr \/ TestTimeout
    \/ TestReturn \/ RunCancel \/ RunClosure \/ RunWait \/ RunClose

ConsumerStep(g) == RecvMsg(g) \/ RecvErr(g) \/ PushMsg(g) \/ PushErr(g)

Next ==
    \/ TestStep
    \/ TestRpcFails
    \/ \E c \in Clients : ServerStart(c)
    \/ Deliver
    \/ \E ch \in Chans, n \in TestNodes : Gossip(ch, n)
    \/ \E g \in DOMAIN consumers : ConsumerStep(g)

\* Goroutines are scheduled, lnd delivers what was sent and gossips what it
\* learns; an RPC is not bound to fail, so TestRpcFails carries no fairness.
Fairness ==
    /\ WF_vars(TestStep)
    /\ \A c \in Clients : WF_vars(ServerStart(c))
    /\ WF_vars(Deliver)
    /\ \A ch \in Chans, n \in TestNodes : WF_vars(Gossip(ch, n))
    /\ \A g \in 1..MaxConsumers : WF_vars(g \in DOMAIN consumers /\ ConsumerStep(g))

Spec == Init /\ [][Next]_vars /\ Fairness

-----------------------------------------------------------------------------
TypeOK ==
    /\ pc \in 1..(Len(script) + 1)
    /\ verdict \in {"running", "passed", "failed"}
    /\ wg \in Nat
    /\ Len(msgChan) <= 1 /\ Len(errChan) <= 1
    /\ sub \in [Clients -> {"none", "starting", "registered", "ended"}]
    /\ lost \subseteq Clients
    /\ Len(consumers) <= MaxConsumers
    /\ graph \in [Chans -> SUBSET TestNodes]

\* What client c's pending receive may still be waiting for.
Late(c) ==
    \/ sub[c] = "starting"
    \/ \E i \in DOMAIN net : ClientType[c] \in net[i]
    \/ \E g \in DOMAIN consumers :
          /\ consumers[g].client = c
          /\ \/ consumers[g].st \in {"msg", "err"}
             \/ consumers[g].st = "recv" /\ (stream[c] # <<>> \/ streamErr[c] # "none")

(* A read never fails on a wrong result, and one times out only while what *)
(* it waits for is still on its way (the server has not answered, the      *)
(* message is in flight, or its goroutine has not handed it over), or the  *)
(* payload reached the node before the subscription was registered and    *)
(* was dropped: readOnionMessage's timeout is the test's only way to fail *)
(* other than a failed RPC.                                                 *)
TimeoutOnlyWhenLateOrLost ==
    [][failure = NoFailure /\ failure' # NoFailure =>
         \/ failure'.cause \in {"rpcErr", "noGraph"}
         \/ failure'.cause = "timeout" /\ (Cur.arg \in lost \/ Late(Cur.arg))]_vars

(* The test body always reaches a verdict: readOnionMessage's timeout     *)
(* bounds every wait of the test goroutine on its receive goroutines.      *)
TestReachesVerdict == <>(verdict # "running")

(* No send fails for want of a channel the test opened: the comment of     *)
(* openChannelAndAnnounce says it waits until the initiator, the receiver  *)
(* and the given network nodes have seen the channel announcement.         *)
SendsSeeOpenedChannels == failure.cause # "noGraph"

(* The test always returns: the comment of readOnionMessage says that on  *)
(* a timeout the test exits, cancelling the receive goroutine through its  *)
(* context and waiting for it.                                             *)
TestTerminates == <>(verdict # "running" /\ defers = <<>>)

=============================================================================
