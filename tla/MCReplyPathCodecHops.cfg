\* The codec model of MCReplyPathCodec.cfg, checking that a parsed reply
\* path has at least one hop, as spec 3 requires of a present ReplyPath.
CONSTANTS
    k1 = k1
    k2 = k2
    junk = junk
    b1 = b1
    b2 = b2
    nil = nil
    Keys <- MCKeys
    BadBytes = {junk}
    Blobs <- MCBlobs
    KeyFormats = {"compressed", "uncompressed"}
    MaxHops = 2
    Nil <- nil

SPECIFICATION Spec
INVARIANT ParsedReplyPathHasHops
