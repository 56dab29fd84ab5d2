\* Two keys, each compressed and uncompressed (hybrid parses like
\* uncompressed), one unparseable byte string, two cipher texts and paths of up
\* to two hops: enough for a hop order to matter and for a bad key in each
\* of the three positions parseReplyPath reads.
CONSTANTS
    k1 = k1
    k2 = k2
    junk = junk
    b1 = b1
    b2 = b2
    nil = nil
    Keys <- MCKeys
    BadBytes = {junk}
    Blobs <- MCBlobs
    KeyFormats = {"compressed", "uncompressed"}
    MaxHops = 2
    Nil <- nil

SPECIFICATION Spec
INVARIANT TypeOK
INVARIANT ParseIsExact
INVARIANT ComposeRoundTrips
INVARIANT RouteAsReplyPath
