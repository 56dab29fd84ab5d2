--------------------------- MODULE MCOnionDispatch ---------------------------
EXTENDS OnionDispatch

\* A custom message as lnd delivers it, with what processing it yields.
Msg(type, proc, action, next, finals) ==
    [type |-> type, proc |-> proc, action |-> action, next |-> next,
     finals |-> finals]

\* The messages of TestHandleOnionMessage and TestReceiveOnionMessages:
\* a non-onion message (type 1001), an onion that does not process, an exit
\* onion with payloads for 101 and 103, one without payloads, MoreHops with
\* and without a next packet and final payloads, and a Failure action.
MCMsgs ==
    { Msg(1001, "ok", "ExitNode", FALSE, <<>>),
      Msg(513, "err", "ExitNode", FALSE, <<>>),
      Msg(513, "ok", "ExitNode", FALSE, <<>>),
      Msg(513, "ok", "ExitNode", FALSE, <<101, 103>>),
      Msg(513, "ok", "MoreHops", TRUE, <<>>),
      Msg(513, "ok", "MoreHops", FALSE, <<>>),
      Msg(513, "ok", "MoreHops", TRUE, <<101>>),
      Msg(513, "ok", "MoreHops", FALSE, <<101>>),
      Msg(513, "ok", "Failure", FALSE, <<101>>) }
=============================================================================
