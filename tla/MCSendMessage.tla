---------------------------- MODULE MCSendMessage ----------------------------
EXTENDS SendMessage, TLC

CONSTANTS a, b, c1, c2

MCNodes == {a, b}
MCCallers == {c1, c2}

Req(p, bl, d, T) == [peer |-> p, blinded |-> bl, direct |-> d, finalTypes |-> T]
Blinded(n, k) == [intro |-> n, hops |-> k]

\* The requests of TestSendMessage and TestValidateSendMessageRequest, and
\* the RPC tests' final payloads of types 100 and 2.
MCRequests ==
    { Req(a, Nil, TRUE, {100}), Req(b, Nil, TRUE, {}), Req(a, Nil, FALSE, {}),
      Req(Nil, Nil, TRUE, {}), Req(a, Blinded(a, 1), TRUE, {}),
      Req(Nil, Blinded(b, 0), FALSE, {}), Req(Nil, Blinded(a, 1), FALSE, {}),
      Req(a, Nil, TRUE, {2}) }

MCSymmetry == Permutations(MCCallers)
=============================================================================
