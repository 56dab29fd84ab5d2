------------------------- MODULE PayloadSubscription -------------------------
(***************************************************************************)
(* Delivery of final-hop onion payloads to RPC subscribers.                *)
(*                                                                         *)
(* Two goroutine kinds interact here:                                      *)
(*  - the messenger's single receive loop (spec 4.5, 4.6; its source is   *)
(*    not in this repository): it selects over inbound custom messages,   *)
(*    handler registrations and deregistrations, the lnd error stream and *)
(*    its quit channel, and for a message addressed to this node calls    *)
(*    the registered handler of each final payload in turn;               *)
(*  - one goroutine per SubscribeOnionPayload RPC (rpcserver,             *)
(*    handleSubscribeOnionPayload): it registers a handler closure that   *)
(*    pushes into a 1-buffered channel `incoming`, forwards what arrives  *)
(*    there to the client stream, and deregisters on exit.                *)
(* The handler closure runs on the receive loop's goroutine and blocks it  *)
(* until the buffer has room, the client's context is done or the server   *)
(* quits.  Registrations are served by the receive loop itself, so a       *)
(* subscription can only leave once the loop is free again.                *)
(*                                                                         *)
(* Every inbound message here is an onion message for this node (ExitNode) *)
(* that decodes; the other dispatch outcomes are in OnionDispatch.         *)
(***************************************************************************)
EXTENDS Naturals, Sequences, SequencesExt

CONSTANTS
    Subs,        \* SubscribeOnionPayload calls (model values)
    SubType,     \* [Subs -> Nat]: the tlv type each call subscribes to
    Inbound,     \* the onion messages lnd delivers, in order; each is the
                 \* ascending sequence of its final payloads' tlv types
    NoSub        \* no handler registered (a model value)

ASSUME NoSub \notin Subs /\ SubType \in [Subs -> Nat]
ASSUME Inbound \in Seq(Seq(Nat))

\* lnwire: the first tlv type of the final-payload range.
FinalPayloadStart == 64

\* rpcserver: incomingMessages is buffered by 1.
IncomingCap == 1

Types == {SubType[s] : s \in Subs} \cup UNION {ToSet(Inbound[m]) : m \in DOMAIN Inbound}

VARIABLES
    msgr,      \* messenger state: "created", "started" or "stopped"
    handlers,  \* [Types -> Subs \cup {NoSub}]: the handler registry
    loop,      \* the receive loop: idle in its select, in a handler call, exited
    nextMsg,   \* index in Inbound of the next message lnd delivers
    lndDown,   \* lnd closed the custom message streams
    shutdownReqs, \* number of calls of the requestShutdown capability
    sub,       \* [Subs -> pc] of each subscription goroutine
    outcome,   \* [Subs -> the status the RPC returned, or "none"]
    incoming,  \* [Subs -> Seq(payload)]: the buffered channel
    sending,   \* [Subs -> payload being sent to the stream, or <<>>]
    ctxDone,   \* [Subs -> BOOLEAN]: the stream context is done
    srvQuit,   \* the rpc server's quit channel is closed
    accepted,  \* [Subs -> Seq(payload)]: payloads its handler returned nil for
    delivered  \* [Subs -> Seq(payload)]: payloads sent to the client stream

vars == <<msgr, handlers, loop, nextMsg, lndDown, shutdownReqs, sub, outcome,
          incoming, sending, ctxDone, srvQuit, accepted, delivered>>

Payload(m, j) == [msg |-> m, type |-> Inbound[m][j]]

Idle    == [pc |-> "idle"]
Exited  == [pc |-> "exited"]
NotRunning == [pc |-> "none"]

-----------------------------------------------------------------------------
(*************************** Messenger lifecycle ***************************)

\* Start: subscribe to custom messages and spawn the receive loop.
MessengerStart ==
    /\ msgr = "created"
    /\ msgr' = "started"
    /\ loop' = Idle
    /\ UNCHANGED <<handlers, nextMsg, lndDown, shutdownReqs, sub, outcome,
                   incoming, sending, ctxDone, srvQuit, accepted, delivered>>

\* Stop: close the quit channel (the wait for the loop is the caller's).
MessengerStop ==
    /\ msgr = "started"
    /\ msgr' = "stopped"
    /\ UNCHANGED <<handlers, loop, nextMsg, lndDown, shutdownReqs, sub, outcome,
                   incoming, sending, ctxDone, srvQuit, accepted, delivered>>

(******************************* Receive loop ******************************)

(* handleOnionMessage, from payload j of message m on: the next final      *)
(* payload with a registered handler is called; payloads without one are   *)
(* skipped; past the last payload the loop is back in its select.          *)
NextCall(m, j) ==
    LET ks == {k \in j..Len(Inbound[m]) : handlers[Inbound[m][k]] # NoSub}
    IN  IF ks = {} THEN Idle
        ELSE LET k == Min(ks)
             IN  [pc |-> "call", msg |-> m, idx |-> k,
                  sub |-> handlers[Inbound[m][k]]]

\* The select receives the next custom message from lnd.
LoopReceive ==
    /\ loop = Idle
    /\ nextMsg <= Len(Inbound)
    /\ nextMsg' = nextMsg + 1
    /\ loop' = NextCall(nextMsg, 1)
    /\ UNCHANGED <<msgr, handlers, lndDown, shutdownReqs, sub, outcome,
                   incoming, sending, ctxDone, srvQuit, accepted, delivered>>

\* The select sees lnd's streams closed: request shutdown and exit.
LoopLndGone ==
    /\ loop = Idle
    /\ lndDown
    /\ shutdownReqs' = shutdownReqs + 1
    /\ loop' = Exited
    /\ UNCHANGED <<msgr, handlers, nextMsg, lndDown, sub, outcome,
                   incoming, sending, ctxDone, srvQuit, accepted, delivered>>

\* The select sees the messenger's quit channel closed.
LoopQuit ==
    /\ loop = Idle
    /\ msgr = "stopped"
    /\ loop' = Exited
    /\ UNCHANGED <<msgr, handlers, nextMsg, lndDown, shutdownReqs, sub, outcome,
                   incoming, sending, ctxDone, srvQuit, accepted, delivered>>

(***************************** Handler closure *****************************)
(* The closure registered by handleSubscribeOnionPayload, running on the   *)
(* receive loop: a select over the buffered send, the client's context and *)
(* the server's quit.  Returning nil moves on to the next payload; an      *)
(* error ends handleOnionMessage for this message (it is logged).          *)

\* Mutant: a non-blocking send (select with default) that drops the payload
\* and still returns nil when the buffer is full.
HandlerDeliverDropWhenFull ==
    /\ loop.pc = "call"
    /\ LET s == loop.sub
           p == Payload(loop.msg, loop.idx)
       IN  /\ incoming' = [incoming EXCEPT ![s] =
                              IF Len(@) < IncomingCap THEN Append(@, p) ELSE @]
           /\ accepted' = [accepted EXCEPT ![s] = Append(@, p)]
           /\ loop' = NextCall(loop.msg, loop.idx + 1)
    /\ UNCHANGED <<msgr, handlers, nextMsg, lndDown, shutdownReqs, sub, outcome,
                   sending, ctxDone, srvQuit, delivered>>

\* Mutant: the payload is queued whether or not the buffer has room.
HandlerDeliverUnbounded ==
    /\ loop.pc = "call"
    /\ LET s == loop.sub
           p == Payload(loop.msg, loop.idx)
       IN  /\ incoming' = [incoming EXCEPT ![s] = Append(@, p)]
           /\ accepted' = [accepted EXCEPT ![s] = Append(@, p)]
           /\ loop' = NextCall(loop.msg, loop.idx + 1)
    /\ UNCHANGED <<msgr, handlers, nextMsg, lndDown, shutdownReqs, sub, outcome,
                   sending, ctxDone, srvQuit, delivered>>

\* Mutant: a full buffer keeps the newest payload in place of the older one.
HandlerDeliverReplaceOldest ==
    /\ loop.pc = "call"
    /\ LET s == loop.sub
           p == Payload(loop.msg, loop.idx)
       IN  /\ incoming' = [incoming EXCEPT ![s] =
                              IF Len(@) < IncomingCap THEN Append(@, p) ELSE <<p>>]
           /\ accepted' = [accepted EXCEPT ![s] = Append(@, p)]
           /\ loop' = NextCall(loop.msg, loop.idx + 1)
    /\ UNCHANGED <<msgr, handlers, nextMsg, lndDown, shutdownReqs, sub, outcome,
                   sending, ctxDone, srvQuit, delivered>>

HandlerDeliver ==
    /\ loop.pc = "call"
    /\ LET s == loop.sub
           p == Payload(loop.msg, loop.idx)
       IN  /\ Len(incoming[s]) < IncomingCap
           /\ incoming' = [incoming EXCEPT ![s] = Append(@, p)]
           /\ accepted' = [accepted EXCEPT ![s] = Append(@, p)]
           /\ loop' = NextCall(loop.msg, loop.idx + 1)
    /\ UNCHANGED <<msgr, handlers, nextMsg, lndDown, shutdownReqs, sub, outcome,
                   sending, ctxDone, srvQuit, delivered>>

\* Mutant: the closure's select has no ctx.Done() case.
HandlerCtxDoneMissing == FALSE

HandlerCtxDone ==
    /\ loop.pc = "call"
    /\ ctxDone[loop.sub]
    /\ loop' = Idle
    /\ UNCHANGED <<msgr, handlers, nextMsg, lndDown, shutdownReqs, sub, outcome,
                   incoming, sending, ctxDone, srvQuit, accepted, delivered>>

\* Mutant: the closure's select has no case for the server's quit.
HandlerQuitMissing == FALSE

HandlerQuit ==
    /\ loop.pc = "call"
    /\ srvQuit
    /\ loop' = Idle
    /\ UNCHANGED <<msgr, handlers, nextMsg, lndDown, shutdownReqs, sub, outcome,
                   incoming, sending, ctxDone, srvQuit, accepted, delivered>>

-----------------------------------------------------------------------------
(************************ Subscription goroutines **************************)

Finish(s, status) ==
    /\ sub' = [sub EXCEPT ![s] = "done"]
    /\ outcome' = [outcome EXCEPT ![s] = status]

\* parseSubscribeOnionPayloadRequest: a type outside the final range is
\* refused with InvalidArgument before anything is registered.
SubParse(s) ==
    /\ sub[s] = "parse"
    /\ IF SubType[s] >= FinalPayloadStart
       THEN /\ sub' = [sub EXCEPT ![s] = "register"]
            /\ UNCHANGED outcome
       ELSE Finish(s, "InvalidArgument")
    /\ UNCHANGED <<msgr, handlers, loop, nextMsg, lndDown, shutdownReqs,
                   incoming, sending, ctxDone, srvQuit, accepted, delivered>>

(* RegisterHandler: ErrNotStarted before Start; ErrShuttingDown once quit  *)
(* is closed; otherwise the request waits for the receive loop's select,   *)
(* which refuses a type already bound (ErrHandlerRegistered).  Any error   *)
(* ends the RPC with Unavailable.                                          *)
SubRegister(s) ==
    /\ sub[s] = "register"
    /\ LET t == SubType[s] IN
       \/ /\ msgr \in {"created", "stopped"}
          /\ Finish(s, "Unavailable")
          /\ UNCHANGED handlers
       \/ /\ msgr = "started"
          /\ loop = Idle
          /\ IF handlers[t] = NoSub
             THEN /\ handlers' = [handlers EXCEPT ![t] = s]
                  /\ sub' = [sub EXCEPT ![s] = "loop"]
                  /\ UNCHANGED outcome
             ELSE /\ Finish(s, "Unavailable")
                  /\ UNCHANGED handlers
    /\ UNCHANGED <<msgr, loop, nextMsg, lndDown, shutdownReqs,
                   incoming, sending, ctxDone, srvQuit, accepted, delivered>>

\* The consuming select: a buffered payload, the client's cancel, server quit.
SubReceive(s) ==
    /\ sub[s] = "loop"
    /\ incoming[s] # <<>>
    /\ sending' = [sending EXCEPT ![s] = Head(incoming[s])]
    /\ incoming' = [incoming EXCEPT ![s] = Tail(@)]
    /\ sub' = [sub EXCEPT ![s] = "send"]
    /\ UNCHANGED <<msgr, handlers, loop, nextMsg, lndDown, shutdownReqs, outcome,
                   ctxDone, srvQuit, accepted, delivered>>

SubCancelled(s) ==
    /\ sub[s] = "loop"
    /\ ctxDone[s]
    /\ sub' = [sub EXCEPT ![s] = "exit"]
    /\ outcome' = [outcome EXCEPT ![s] = "Canceled"]
    /\ UNCHANGED <<msgr, handlers, loop, nextMsg, lndDown, shutdownReqs,
                   incoming, sending, ctxDone, srvQuit, accepted, delivered>>

SubQuit(s) ==
    /\ sub[s] = "loop"
    /\ srvQuit
    /\ sub' = [sub EXCEPT ![s] = "exit"]
    /\ outcome' = [outcome EXCEPT ![s] = "ShuttingDown"]
    /\ UNCHANGED <<msgr, handlers, loop, nextMsg, lndDown, shutdownReqs,
                   incoming, sending, ctxDone, srvQuit, accepted, delivered>>

\* stream.Send succeeds, or fails because the stream broke (which also
\* cancels the stream's context) and the RPC returns the error.
SubSend(s) ==
    /\ sub[s] = "send"
    /\ \/ /\ delivered' = [delivered EXCEPT ![s] = Append(@, sending[s])]
          /\ sub' = [sub EXCEPT ![s] = "loop"]
          /\ UNCHANGED <<outcome, ctxDone>>
       \/ /\ sub' = [sub EXCEPT ![s] = "exit"]
          /\ outcome' = [outcome EXCEPT ![s] = "SendErr"]
          /\ ctxDone' = [ctxDone EXCEPT ![s] = TRUE]
          /\ UNCHANGED delivered
    /\ sending' = [sending EXCEPT ![s] = <<>>]
    /\ UNCHANGED <<msgr, handlers, loop, nextMsg, lndDown, shutdownReqs,
                   incoming, srvQuit, accepted>>

\* Mutant: the RPC returns without deregistering its handler.
SubDeregisterSkipped(s) ==
    /\ sub[s] = "exit"
    /\ sub' = [sub EXCEPT ![s] = "done"]
    /\ ctxDone' = [ctxDone EXCEPT ![s] = TRUE]
    /\ UNCHANGED <<msgr, handlers, loop, nextMsg, lndDown, shutdownReqs, outcome,
                   incoming, sending, srvQuit, accepted, delivered>>

(* The deferred DeregisterHandler: served by the receive loop's select, or *)
(* refused with ErrShuttingDown (only logged) once quit is closed.  When   *)
(* the RPC then returns, gRPC cancels the stream's context.                *)
SubDeregister(s) ==
    /\ sub[s] = "exit"
    /\ \/ /\ msgr = "stopped"
          /\ UNCHANGED handlers
       \/ /\ msgr = "started"
          /\ loop = Idle
          /\ handlers' = [handlers EXCEPT ![SubType[s]] = NoSub]
    /\ sub' = [sub EXCEPT ![s] = "done"]
    /\ ctxDone' = [ctxDone EXCEPT ![s] = TRUE]
    /\ UNCHANGED <<msgr, loop, nextMsg, lndDown, shutdownReqs, outcome,
                   incoming, sending, srvQuit, accepted, delivered>>

-----------------------------------------------------------------------------
(****************************** Environment ********************************)

\* The client cancels its subscription (or disconnects).
ClientCancel(s) ==
    /\ ~ctxDone[s]
    /\ ctxDone' = [ctxDone EXCEPT ![s] = TRUE]
    /\ UNCHANGED <<msgr, handlers, loop, nextMsg, lndDown, shutdownReqs, sub,
                   outcome, incoming, sending, srvQuit, accepted, delivered>>

\* The rpc server shuts down and closes its quit channel.
ServerQuit ==
    /\ ~srvQuit
    /\ srvQuit' = TRUE
    /\ UNCHANGED <<msgr, handlers, loop, nextMsg, lndDown, shutdownReqs, sub,
                   outcome, incoming, sending, ctxDone, accepted, delivered>>

\* lnd goes away: its custom message streams are closed.
LndShutdown ==
    /\ ~lndDown
    /\ lndDown' = TRUE
    /\ UNCHANGED <<msgr, handlers, loop, nextMsg, shutdownReqs, sub, outcome,
                   incoming, sending, ctxDone, srvQuit, accepted, delivered>>

-----------------------------------------------------------------------------
Init ==
    /\ msgr = "created"
    /\ handlers = [t \in Types |-> NoSub]
    /\ loop = NotRunning
    /\ nextMsg = 1
    /\ lndDown = FALSE
    /\ shutdownReqs = 0
    /\ sub = [s \in Subs |-> "parse"]
    /\ outcome = [s \in Subs |-> "none"]
    /\ incoming = [s \in Subs |-> <<>>]
    /\ sending = [s \in Subs |-> <<>>]
    /\ ctxDone = [s \in Subs |-> FALSE]
    /\ srvQuit = FALSE
    /\ accepted = [s \in Subs |-> <<>>]
    /\ delivered = [s \in Subs |-> <<>>]

LoopStep == LoopReceive \/ LoopLndGone \/ LoopQuit
HandlerStep == HandlerDeliver \/ HandlerCtxDone \/ HandlerQuit
SubStep(s) ==
    SubParse(s) \/ SubRegister(s) \/ SubReceive(s) \/ SubCancelled(s)
    \/ SubQuit(s) \/ SubSend(s) \/ SubDeregister(s)

Next ==
    \/ MessengerStart \/ MessengerStop
    \/ LoopStep \/ HandlerStep
    \/ \E s \in Subs : SubStep(s) \/ ClientCancel(s)
    \/ ServerQuit \/ LndShutdown

(* Goroutines that can run are eventually scheduled: the receive loop and  *)
(* every subscription goroutine.  The host reacts to requestShutdown by    *)
(* stopping the messenger.  Clients, the server's shutdown and lnd are     *)
(* free to act or not.                                                     *)
HostStopsOnRequest == shutdownReqs > 0 /\ MessengerStop

Fairness ==
    /\ WF_vars(LoopStep)
    /\ WF_vars(HandlerStep)
    /\ \A s \in Subs : WF_vars(SubStep(s))
    /\ WF_vars(HostStopsOnRequest)

Spec == Init /\ [][Next]_vars /\ Fairness

-----------------------------------------------------------------------------
Statuses == {"none", "InvalidArgument", "Unavailable", "Canceled",
             "ShuttingDown", "SendErr"}
Payloads ==
            UNION {{Payload(m, j) : j \in DOMAIN Inbound[m]} : m \in DOMAIN Inbound}

TypeOK ==
    /\ msgr \in {"created", "started", "stopped"}
    /\ handlers \in [Types -> Subs \cup {NoSub}]
    /\ loop \in {Idle, Exited, NotRunning} \cup
                [pc : {"call"}, msg : DOMAIN Inbound, idx : Nat, sub : Subs]
    /\ nextMsg \in 1..Len(Inbound) + 1
    /\ lndDown \in BOOLEAN /\ srvQuit \in BOOLEAN
    /\ shutdownReqs \in Nat
    /\ sub \in [Subs -> {"parse", "register", "loop", "send", "exit", "done"}]
    /\ outcome \in [Subs -> Statuses]
    /\ incoming \in [Subs -> BoundedSeq(Payloads, IncomingCap)]
    /\ sending \in [Subs -> Payloads \cup {<<>>}]
    /\ ctxDone \in [Subs -> BOOLEAN]
    /\ accepted \in [Subs -> Seq(Payloads)]
    /\ delivered \in [Subs -> Seq(Payloads)]

(* While the messenger runs, a registered handler belongs to a            *)
(* subscription whose RPC has not returned: every way out of the consuming *)
(* loop (cancel, server quit, failed send) passes through the deferred     *)
(* deregistration, so a later subscription to the same type is not refused *)
(* with Unavailable because of one that is gone.                           *)
RegistryHeldByLiveSubscription ==
    msgr = "started" =>
        \A t \in Types : handlers[t] # NoSub =>
            sub[handlers[t]] \in {"loop", "send", "exit"}

(* A handler call never blocks the receive loop for good: whatever the     *)
(* client and the server do, the call for a payload returns (spec 5: the   *)
(* subscription handler "never blocks the dispatch loop indefinitely").    *)
HandlerCallReturns ==
    \A m \in DOMAIN Inbound : \A j \in DOMAIN Inbound[m] :
        (loop.pc = "call" /\ loop.msg = m /\ loop.idx = j)
            ~> ~(loop.pc = "call" /\ loop.msg = m /\ loop.idx = j)

(* A client that cancels its subscription gets its RPC back: the deferred  *)
(* deregistration, which needs the receive loop, cannot be held up for     *)
(* good by a handler call that waits for this very subscription.           *)
CancelEndsSubscription ==
    \A s \in Subs : ctxDone[s] ~> sub[s] = "done"

(* Every payload a subscription's handler accepted (returned nil for)      *)
(* reaches the client's stream unless that subscription ends.              *)
AcceptedReachesClient ==
    \A s \in Subs, k \in 1..Len(Inbound) :
        Len(accepted[s]) >= k ~> (Len(delivered[s]) >= k \/ sub[s] = "done")

(* One subscription's cancelled client costs no other subscription its    *)
(* payload (spec 3: each inbound message is "delivered to a handler"; spec *)
(* 4.6: "for each final_hop_payload ... invoke it").  When the closure of  *)
(* handleSubscribeOnionPayload returns ctx.Err() for a cancelled client,   *)
(* the error ends handleOnionMessage: every later payload of the message   *)
(* whose handler belongs to a live subscription is then never offered.     *)
LivePayloadsNotDropped ==
    [][HandlerCtxDone =>
        \A k \in loop.idx + 1 .. Len(Inbound[loop.msg]) :
            LET h == handlers[Inbound[loop.msg][k]]
            IN  h = NoSub \/ ctxDone[h] \/ srvQuit]_vars

-----------------------------------------------------------------------------
(* The refinement mapping: a subscription's pending payloads are those its *)
(* handler accepted past the ones already sent to the client.              *)
Delivery == INSTANCE SubscriptionDelivery WITH
    pending   <- [s \in Subs |-> SubSeq(accepted[s], Len(delivered[s]) + 1,
                                                     Len(accepted[s]))],
    delivered <- delivered

(* The subscription implements the in-order delivery of spec 5: every step *)
(* of the receive loop, the handler closure and the consuming goroutine    *)
(* either leaves the accepted and delivered payloads alone, or accepts a   *)
(* payload from a later message, or hands the client the first accepted    *)
(* payload it has not had, through the 1-slot buffer and the stream send.  *)
FifoDelivery == Delivery!Spec

=============================================================================
