\* Two peers that may send the same two messages, channels of two places, and a limit one
\* peer can exceed.  No symmetry: the run checks liveness.
CONSTANTS
    Peer = {p1, p2}
    Hash = {h1, h2}
    MaxQueuesLimit = 2
    PeerMsgQueueSize = 2
    maxStatQueuesSize = 1
SPECIFICATION FairSpec
INVARIANTS ChargeAccounted 
PROPERTY SyncNotStarved
