---------------------------- MODULE OnionDispatch ----------------------------
(***************************************************************************)
(* The messenger's receive loop and handleOnionMessage (spec 4.5, 4.6).    *)
(* Their source is not in this repository; the model follows the spec and *)
(* the cases of TestHandleOnionMessage, TestReceiveOnionMessages and       *)
(* TestHandleRegistration in src/unnamed/part_001.                         *)
(*                                                                         *)
(* The loop selects over lnd's custom message stream, lnd's error stream   *)
(* and its quit channel, and serves handler (de)registrations between      *)
(* messages.  An onion message is processed, its payload decoded, and the  *)
(* processor's action decides: ExitNode calls the handler of each final    *)
(* payload in turn, MoreHops forwards the next onion, anything else is a   *)
(* bad message.  A dispatch error is logged and the loop goes on; only lnd *)
(* failing requests shutdown.  What a handler does with its payload is     *)
(* PayloadSubscription's business: here a call returns nil or an error.    *)
(***************************************************************************)
EXTENDS Naturals, Sequences, FiniteSets

CONSTANTS
    Types,            \* final-payload tlv types a handler may be bound to
    Msgs,             \* the custom messages lnd may deliver
    MaxMsgs,          \* how many messages lnd delivers at most
    OnionMessageType  \* the custom message type of onion messages

Ok == "nil"

\* The failures lnd's streams can show the loop: the message stream closed,
\* the error stream closed, or an error sent on the error stream.
LndFailures == {"msgsClosed", "errsClosed", "subscriptionErr"}

VARIABLES
    msgr,       \* "created", "started" or "stopped" (quit closed)
    registry,   \* the tlv types with a registered handler
    lnd,        \* "open", or the failure lnd's streams show
    loop,       \* the receive loop: "none", "idle", "process", "final",
                \* "forward" or "exited"
    cur,        \* the message being handled
    idx,        \* the next final payload of cur to dispatch
    received,   \* number of custom messages taken from lnd
    calls,      \* handler calls: [id, type, ok]; id is the result's index
    results,    \* the outcome of every onion message: [msg, err]
    forwarded,  \* the messages whose next onion was forwarded
    shutdown    \* the errors passed to requestShutdown

vars == <<msgr, registry, lnd, loop, cur, idx, received, calls, results,
          forwarded, shutdown>>

-----------------------------------------------------------------------------
(****************************** Lifecycle *********************************)

\* Start: subscribe to lnd's custom messages and spawn the receive loop.
Start ==
    /\ msgr = "created"
    /\ msgr' = "started" /\ loop' = "idle"
    /\ UNCHANGED <<registry, lnd, cur, idx, received, calls, results,
                   forwarded, shutdown>>

\* Stop: close the quit channel.
Stop ==
    /\ msgr = "started"
    /\ msgr' = "stopped"
    /\ UNCHANGED <<registry, lnd, loop, cur, idx, received, calls, results,
                   forwarded, shutdown>>

(* RegisterHandler and DeregisterHandler go through the loop's select, so  *)
(* the registry never changes while a message is dispatched.  A type       *)
(* already bound (ErrHandlerRegistered) or not bound (ErrHandlerNotFound), *)
(* or a messenger not running, leaves the registry as it is.               *)
Register(t) ==
    /\ msgr = "started" /\ loop = "idle"
    /\ t \notin registry
    /\ registry' = registry \cup {t}
    /\ UNCHANGED <<msgr, lnd, loop, cur, idx, received, calls, results,
                   forwarded, shutdown>>

Deregister(t) ==
    /\ msgr = "started" /\ loop = "idle"
    /\ t \in registry
    /\ registry' = registry \ {t}
    /\ UNCHANGED <<msgr, lnd, loop, cur, idx, received, calls, results,
                   forwarded, shutdown>>

-----------------------------------------------------------------------------
(***************************** Receive loop *******************************)

\* Mutant: a dispatch error is treated like a subscription error.
DoneFatal(e) ==
    /\ results' = Append(results, [msg |-> cur, err |-> e])
    /\ IF e = Ok THEN loop' = "idle" /\ UNCHANGED shutdown
       ELSE loop' = "exited" /\ shutdown' = Append(shutdown, e)

(* handleOnionMessage returns: the outcome is logged and the loop is back  *)
(* in its select.                                                          *)
Done(e) ==
    /\ results' = Append(results, [msg |-> cur, err |-> e])
    /\ loop' = "idle"
    /\ UNCHANGED shutdown

\* The select takes a custom message; one of another type is ignored.
\* received < MaxMsgs is the model's bound on lnd's stream, not code.
Receive(m) ==
    /\ loop = "idle"
    /\ lnd # "msgsClosed"
    /\ received < MaxMsgs
    /\ received' = received + 1
    /\ IF m.type = OnionMessageType
       THEN cur' = m /\ loop' = "process"
       ELSE UNCHANGED <<cur, loop>>
    /\ UNCHANGED <<msgr, registry, lnd, idx, calls, results, forwarded, shutdown>>

(* The checks of handleOnionMessage in their order: processing the onion   *)
(* (ErrBadOnionBlob), then, on the decoded payload, the action.  MoreHops  *)
(* is refused with final payloads (ErrFinalPayload) before the next packet *)
(* is looked at (ErrNoForwardingOnion): the test case "message for         *)
(* forwarding with final payload" has neither and expects ErrFinalPayload. *)
Classify(m) ==
    CASE m.proc = "err"                                   -> "ErrBadOnionBlob"
      [] m.action = "ExitNode"                            -> "final"
      [] m.action = "MoreHops" /\ m.finals # <<>>         -> "ErrFinalPayload"
      [] m.action = "MoreHops" /\ ~m.next                 -> "ErrNoForwardingOnion"
      [] m.action = "MoreHops"                            -> "forward"
      [] OTHER                                            -> "ErrBadMessage"

\* Mutant: only ExitNode continues; every other classification, MoreHops
\* included, is returned as the outcome.
ProcessNoForward ==
    /\ loop = "process"
    /\ LET c == Classify(cur) IN
       IF c = "final"
       THEN loop' = c /\ idx' = 1 /\ UNCHANGED <<results, shutdown>>
       ELSE Done(c) /\ UNCHANGED idx
    /\ UNCHANGED <<msgr, registry, lnd, cur, received, calls, forwarded>>

Process ==
    /\ loop = "process"
    /\ LET c == Classify(cur) IN
       IF c \in {"final", "forward"}
       THEN loop' = c /\ idx' = 1 /\ UNCHANGED <<results, shutdown>>
       ELSE Done(c) /\ UNCHANGED idx
    /\ UNCHANGED <<msgr, registry, lnd, cur, received, calls, forwarded>>

(* MoreHops: decrypt the routing blob for the next node and forward the    *)
(* next onion to it; a decryption or send failure is the outcome.          *)
Forward ==
    /\ loop = "forward"
    /\ \/ forwarded' = Append(forwarded, cur) /\ Done(Ok)
       \/ Done("ForwardErr") /\ UNCHANGED forwarded
    /\ UNCHANGED <<msgr, registry, lnd, cur, idx, received, calls>>

HandleFinal ==
    /\ loop = "final"
    /\ IF idx > Len(cur.finals) THEN Done(Ok) /\ UNCHANGED <<idx, calls>>
       ELSE LET t == cur.finals[idx]
                call(ok) == calls' = Append(calls, [id |-> Len(results) + 1,
                                                    type |-> t, ok |-> ok])
            IN  \/ t \notin registry /\ idx' = idx + 1
                   /\ UNCHANGED <<loop, results, calls, shutdown>>
                \/ t \in registry /\ call(TRUE) /\ idx' = idx + 1
                   /\ UNCHANGED <<loop, results, shutdown>>
                \/ t \in registry /\ call(FALSE) /\ Done("HandlerErr")
                   /\ UNCHANGED idx
    /\ UNCHANGED <<msgr, registry, lnd, cur, received, forwarded>>

\* The error requestShutdown gets for what lnd's streams show.
LndReason == IF lnd = "subscriptionErr" THEN "subscriptionErr" ELSE "ErrLNDShutdown"

\* Mutant: a closed error stream is not seen as lnd going away.
LoopLndNoErrsClosed ==
    /\ loop = "idle"
    /\ lnd \in {"msgsClosed", "subscriptionErr"}
    /\ shutdown' = Append(shutdown, LndReason)
    /\ loop' = "exited"
    /\ UNCHANGED <<msgr, registry, lnd, cur, idx, received, calls, results, forwarded>>

\* A closed stream or a subscription error: request shutdown and exit.
LoopLnd ==
    /\ loop = "idle"
    /\ lnd # "open"
    /\ shutdown' = Append(shutdown, LndReason)
    /\ loop' = "exited"
    /\ UNCHANGED <<msgr, registry, lnd, cur, idx, received, calls, results, forwarded>>

\* The select sees quit closed and exits.
LoopQuit ==
    /\ loop = "idle"
    /\ msgr = "stopped"
    /\ loop' = "exited"
    /\ UNCHANGED <<msgr, registry, lnd, cur, idx, received, calls, results,
                   forwarded, shutdown>>

\* lnd fails once the messenger has subscribed: one of its streams closes
\* or it reports an error.
LndFail(f) ==
    /\ lnd = "open" /\ msgr # "created"
    /\ lnd' = f
    /\ UNCHANGED <<msgr, registry, loop, cur, idx, received, calls, results,
                   forwarded, shutdown>>

-----------------------------------------------------------------------------
Init ==
    /\ msgr = "created"
    /\ registry = {}
    /\ lnd = "open"
    /\ loop = "none"
    /\ cur = CHOOSE m \in Msgs : TRUE
    /\ idx = 1
    /\ received = 0
    /\ calls = <<>>
    /\ results = <<>>
    /\ forwarded = <<>>
    /\ shutdown = <<>>

LoopStep == (\E m \in Msgs : Receive(m)) \/ Process \/ Forward \/ HandleFinal
            \/ LoopLnd \/ LoopQuit

Next ==
    \/ Start \/ Stop
    \/ \E t \in Types : Register(t) \/ Deregister(t)
    \/ LoopStep
    \/ \E f \in LndFailures : LndFail(f)

(* The receive loop is one goroutine: whenever it can move it eventually   *)
(* does.  lnd, the host's Stop and the (de)registering callers are free.   *)
Spec == Init /\ [][Next]_vars /\ WF_vars(LoopStep)

-----------------------------------------------------------------------------
Errors == {Ok, "ErrBadOnionBlob", "ErrFinalPayload", "ErrNoForwardingOnion",
           "ErrBadMessage", "ForwardErr", "HandlerErr"}

TypeOK ==
    /\ msgr \in {"created", "started", "stopped"}
    /\ registry \subseteq Types
    /\ lnd \in {"open"} \cup LndFailures
    /\ loop \in {"none", "idle", "process", "final", "forward", "exited"}
    /\ cur \in Msgs
    /\ received \in 0..MaxMsgs
    /\ calls \in Seq([id : Nat, type : Types, ok : BOOLEAN])
    /\ results \in Seq([msg : Msgs, err : Errors])
    /\ forwarded \in Seq(Msgs)
    /\ shutdown \in Seq({"subscriptionErr", "ErrLNDShutdown"} \cup Errors)

(* One bad message never stops service (spec 4.6, 6): requestShutdown is   *)
(* called only once lnd's streams failed, at most once, with the           *)
(* subscription's error or ErrLNDShutdown for a closed stream; and the     *)
(* loop only exits for that or for quit.                                   *)
ShutdownOnlyForLnd ==
    /\ Len(shutdown) <= 1
    /\ shutdown # <<>> => lnd # "open" /\ shutdown[1] = LndReason
    /\ loop = "exited" => msgr = "stopped" \/ shutdown # <<>>

\* The i-th message the loop processed: a finished one, or the current one.
MsgOf(i) == IF i <= Len(results) THEN results[i].msg ELSE cur

\* The payload types whose handlers were called for the i-th message.
CalledFor(i) == [k \in 1..Len(SelectSeq(calls, LAMBDA x : x.id = i)) |->
                    SelectSeq(calls, LAMBDA x : x.id = i)[k].type]

\* a is b with some elements left out, the rest in b's order.
IsSubsequence(a, b) ==
    \E pos \in [1..Len(a) -> DOMAIN b] :
        /\ \A k \in 1..Len(a) - 1 : pos[k] < pos[k + 1]
        /\ \A k \in 1..Len(a) : a[k] = b[pos[k]]

LndFailureReported ==
    lnd # "open" ~> (shutdown # <<>> \/ msgr = "stopped")

(* A MoreHops message without a next packet is refused with                *)
(* ErrNoForwardingOnion (spec 4.6 lists that check first).                 *)
NoNextPacketIsNoForwardingOnion ==
    \A i \in DOMAIN results :
        LET m == results[i].msg
        IN  (m.proc = "ok" /\ m.action = "MoreHops" /\ ~m.next)
                => results[i].err = "ErrNoForwardingOnion"
=============================================================================
