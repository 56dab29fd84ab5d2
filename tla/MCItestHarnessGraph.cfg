\* openChannelAndAnnounce (setup.go) takes the nodes that must see a new
\* channel but never waits for them: a send can run before gossip reaches
\* the sender, and GetNodeInfo or the route query then fails.
CONSTANT Tests <- MCTests
SPECIFICATION Spec
CHECK_DEADLOCK FALSE
INVARIANT SendsSeeOpenedChannels
