--------------------------- MODULE MCReplyPathCodec ---------------------------
EXTENDS ReplyPathCodec, TLC

CONSTANTS k1, k2, junk, b1, b2, nil

MCKeys == {k1, k2}
MCBlobs == {b1, b2}
=============================================================================
