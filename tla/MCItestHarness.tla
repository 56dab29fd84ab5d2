--------------------------- MODULE MCItestHarness ---------------------------
EXTENDS ItestHarness, TLC

\* Every integration test that opens a subscription.
MCTests == {SubscribeOnionPayloadTest, OnionMsgForwardTest, OnionMessageTest,
            ReplyMessageTest}
=============================================================================
