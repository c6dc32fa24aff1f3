------------------------------ MODULE PeerQueues ------------------------------
(***************************************************************************)
(* The admission of network messages into the consensus engine             *)
(* (consensus/pbft/pbft.go, network/handler.go).                           *)
(*                                                                         *)
(* Every connected peer has a goroutine that reads its messages one after  *)
(* another (EngineManager.handler/handleMsg) and calls ReceiveMessage for  *)
(* a consensus message or ReceiveSyncMsg for a sync message.  Both count   *)
(* the message against the peer (recordMessage, under queuesLock) and then *)
(* try a non-blocking send on a bounded channel.  receiveLoop, a single    *)
(* goroutine, takes messages off the two channels, handles them and takes  *)
(* the count back (forgetMessage).                                         *)
(*                                                                         *)
(* The reader goroutine is split where the code gives up queuesLock:       *)
(* RecordX holds it, EnqueueX runs after it.                               *)
(***************************************************************************)
EXTENDS Integers, Sequences, SequencesExt, FiniteSets

CONSTANTS
    Peer,               \* the neighbours, by PeerID
    Hash,               \* message hashes
    MaxQueuesLimit,     \* config.Option.MaxQueuesLimit
    PeerMsgQueueSize,   \* config.Option.PeerMsgQueueSize, both channels
    maxStatQueuesSize   \* hashes kept for the duplicate statistics

ASSUME QueueAssumption ==
    /\ MaxQueuesLimit \in Nat \ {0}
    /\ PeerMsgQueueSize \in Nat \ {0}
    /\ maxStatQueuesSize \in Nat \ {0}

VARIABLES
    connected,   \* peers whose reader goroutine is running
    blacklist,   \* EngineManager.blacklist
    reading,     \* per peer: the message its reader has recorded, not yet sent on
    queues,      \* Pbft.queues; an absent key is 0
    peerMsgCh,   \* consensus messages waiting for receiveLoop
    syncMsgCh,   \* sync messages waiting for receiveLoop
    history,     \* network.historyMessageHash
    handled,     \* per hash: how often handleConsensusMsg returned nil (history variable)
    dropped,     \* per peer: messages discarded because a channel was full (history variable)
    statQueues,  \* hashes with duplicate statistics (keys of Pbft.statQueues)
    syncing,     \* Pbft.syncing
    fetching,    \* Pbft.fetching
    loop         \* which of its two selects receiveLoop is at

vars == <<connected, blacklist, reading, queues, peerMsgCh, syncMsgCh,
          history, handled, dropped, statQueues, syncing, fetching, loop>>

loopVars == <<history, handled, loop>>
modeVars == <<syncing, fetching>>

Idle == [kind |-> "idle"]
Message == [peer : Peer, hash : Hash]
Reading == {Idle} \cup [kind : {"consensus", "sync"}, hash : Hash]

Init ==
    /\ connected = {}
    /\ blacklist = {}
    /\ reading = [p \in Peer |-> Idle]
    /\ queues = [p \in Peer |-> 0]
    /\ peerMsgCh = <<>>
    /\ syncMsgCh = <<>>
    /\ history = {}
    /\ handled = [h \in Hash |-> 0]
    /\ dropped = [p \in Peer |-> 0]
    /\ statQueues = {}
    /\ syncing = FALSE
    /\ fetching = FALSE
    /\ loop = "first"

running == ~syncing /\ ~fetching

-----------------------------------------------------------------------------
(* The peer's reader goroutine *)

\* The handshake of a peer that is not blacklisted starts its reader.
Connect(p) ==
    /\ p \notin connected
    /\ p \notin blacklist
    /\ reading[p] = Idle
    /\ connected' = connected \cup {p}
    /\ UNCHANGED <<blacklist, reading, queues, peerMsgCh, syncMsgCh, dropped, statQueues>>
    /\ UNCHANGED loopVars /\ UNCHANGED modeVars

\* recordMessage: an error ends the peer's reader, which drops the connection.
recordMessage(p, m) ==
    IF queues[p] + 1 > MaxQueuesLimit
    THEN /\ connected' = connected \ {p}
         /\ UNCHANGED <<queues, reading>>
    ELSE /\ queues' = [queues EXCEPT ![p] = @ + 1]
         /\ reading' = [reading EXCEPT ![p] = m]
         /\ UNCHANGED connected

\* forgetMessage
forgetMessage(p) == queues' = [queues EXCEPT ![p] = @ - 1]

\* The select with a default branch: a message for which the channel has no room is discarded.
TrySend(ch, p, h) ==
    IF Len(ch) < PeerMsgQueueSize
    THEN ch' = Append(ch, [peer |-> p, hash |-> h]) /\ UNCHANGED dropped
    ELSE UNCHANGED ch /\ dropped' = [dropped EXCEPT ![p] = @ + 1]

\* ReceiveMessage up to and including recordMessage.
RecordConsensus(p, h) ==
    /\ p \in connected
    /\ reading[p] = Idle
    /\ running
    /\ recordMessage(p, [kind |-> "consensus", hash |-> h])
    /\ UNCHANGED <<blacklist, peerMsgCh, syncMsgCh, dropped, statQueues>>
    /\ UNCHANGED loopVars /\ UNCHANGED modeVars

\* Fault: the count is given back as soon as the message is on the channel.
EnqueueConsensus_ForgetEarly(p) ==
    /\ reading[p].kind = "consensus"
    /\ reading' = [reading EXCEPT ![p] = Idle]
    /\ forgetMessage(p)
    /\ IF reading[p].hash \notin history /\ Len(peerMsgCh) < PeerMsgQueueSize
       THEN peerMsgCh' = Append(peerMsgCh, [peer |-> p, hash |-> reading[p].hash])
       ELSE UNCHANGED peerMsgCh
    /\ UNCHANGED <<connected, blacklist, syncMsgCh, dropped, statQueues>>
    /\ UNCHANGED loopVars /\ UNCHANGED modeVars

\* The rest of ReceiveMessage: the duplicate filter and the select.
EnqueueConsensus(p) ==
    /\ reading[p].kind = "consensus"
    /\ reading' = [reading EXCEPT ![p] = Idle]
    /\ IF reading[p].hash \in history
       THEN forgetMessage(p) /\ UNCHANGED <<peerMsgCh, dropped>>
       ELSE TrySend(peerMsgCh, p, reading[p].hash) /\ UNCHANGED queues
    /\ UNCHANGED <<connected, blacklist, syncMsgCh, statQueues>>
    /\ UNCHANGED loopVars /\ UNCHANGED modeVars

\* ReceiveSyncMsg up to and including recordMessage.
RecordSync(p, h) ==
    /\ p \in connected
    /\ reading[p] = Idle
    /\ ~syncing
    /\ recordMessage(p, [kind |-> "sync", hash |-> h])
    /\ UNCHANGED <<blacklist, peerMsgCh, syncMsgCh, dropped, statQueues>>
    /\ UNCHANGED loopVars /\ UNCHANGED modeVars

\* statMessage: evict while the set is full, then note the hash.
statMessage(h) ==
    \E evicted \in SUBSET statQueues :
        /\ Cardinality(evicted) =
             IF Cardinality(statQueues) >= maxStatQueuesSize
             THEN Cardinality(statQueues) - maxStatQueuesSize + 1 ELSE 0
        /\ statQueues' = (statQueues \ evicted) \cup {h}

\* The rest of ReceiveSyncMsg.
EnqueueSync(p) ==
    /\ reading[p].kind = "sync"
    /\ reading' = [reading EXCEPT ![p] = Idle]
    /\ statMessage(reading[p].hash)
    /\ TrySend(syncMsgCh, p, reading[p].hash)
    /\ UNCHANGED <<connected, blacklist, queues, peerMsgCh>>
    /\ UNCHANGED loopVars /\ UNCHANGED modeVars

-----------------------------------------------------------------------------
(* receiveLoop *)

\* How a handler ends: nil, a plain error, or an error with AuthFailed().
Outcome == {"ok", "error", "authFailed"}

\* MarkBlacklist and RemovePeer after an AuthFailed() error.
Punish(p, outcome) ==
    IF outcome = "authFailed"
    THEN /\ blacklist' = blacklist \cup {p}
         /\ connected' = connected \ {p}
    ELSE UNCHANGED <<blacklist, connected>>


\* Fault: after a consensus message the loop starts again instead of going on to the second select.
HandleConsensus_StartAgain(outcome) ==
    /\ peerMsgCh # <<>>
    /\ loop' = "first"
    /\ peerMsgCh' = Tail(peerMsgCh)
    /\ LET m == Head(peerMsgCh) IN
       /\ forgetMessage(m.peer)
       /\ IF m.hash \in history
          THEN UNCHANGED <<history, handled, blacklist, connected>>
          ELSE /\ ~running => outcome = "error"
               /\ IF outcome = "ok"
                  THEN /\ history' = history \cup {m.hash}
                       /\ handled' = [handled EXCEPT ![m.hash] = @ + 1]
                  ELSE UNCHANGED <<history, handled>>
               /\ Punish(m.peer, outcome)
    /\ UNCHANGED <<reading, syncMsgCh, dropped, statQueues>>
    /\ UNCHANGED modeVars

\* consensusMessageHandler, reached from either select.
HandleConsensus(outcome) ==
    /\ peerMsgCh # <<>>
    /\ loop' = IF loop = "first" THEN "second" ELSE "first"
    /\ peerMsgCh' = Tail(peerMsgCh)
    /\ LET m == Head(peerMsgCh) IN
       /\ forgetMessage(m.peer)
       /\ IF m.hash \in history
          THEN UNCHANGED <<history, handled, blacklist, connected>>
          ELSE /\ ~running => outcome = "error"
               /\ IF outcome = "ok"
                  THEN /\ history' = history \cup {m.hash}
                       /\ handled' = [handled EXCEPT ![m.hash] = @ + 1]
                  ELSE UNCHANGED <<history, handled>>
               /\ Punish(m.peer, outcome)
    /\ UNCHANGED <<reading, syncMsgCh, dropped, statQueues>>
    /\ UNCHANGED modeVars

\* The default branch of the first select.
SkipFirst ==
    /\ loop = "first"
    /\ peerMsgCh = <<>>
    /\ loop' = "second"
    /\ UNCHANGED <<connected, blacklist, reading, queues, peerMsgCh, syncMsgCh, history, handled, dropped, statQueues>>
    /\ UNCHANGED modeVars

\* The syncMsgCh branch of the second select.
HandleSync(outcome) ==
    /\ loop = "second"
    /\ syncMsgCh # <<>>
    /\ loop' = "first"
    /\ syncMsgCh' = Tail(syncMsgCh)
    /\ syncing => outcome = "ok"
    /\ forgetMessage(Head(syncMsgCh).peer)
    /\ Punish(Head(syncMsgCh).peer, outcome)
    /\ UNCHANGED <<reading, peerMsgCh, history, handled, dropped, statQueues>>
    /\ UNCHANGED modeVars

\* Any other branch of the second select: executor, async call, timeout, commit error.
OtherEvent ==
    /\ loop = "second"
    /\ loop' = "first"
    /\ UNCHANGED <<connected, blacklist, reading, queues, peerMsgCh, syncMsgCh, history, handled, dropped, statQueues>>
    /\ UNCHANGED modeVars

\* Pause and Resume (the downloader), and fetchBlock starting and ending.
SwitchMode ==
    /\ \/ syncing' = ~syncing /\ UNCHANGED fetching
       \/ fetching' = ~fetching /\ UNCHANGED syncing
    /\ UNCHANGED <<connected, blacklist, reading, queues, peerMsgCh, syncMsgCh, dropped, statQueues>>
    /\ UNCHANGED loopVars

\* The blacklist ticker of EngineManager.synchronize lets an expired entry go.
PurgeBlacklist(p) ==
    /\ p \in blacklist
    /\ blacklist' = blacklist \ {p}
    /\ UNCHANGED <<connected, reading, queues, peerMsgCh, syncMsgCh, dropped, statQueues>>
    /\ UNCHANGED loopVars /\ UNCHANGED modeVars

ReceiveLoop ==
    \/ \E o \in Outcome : HandleConsensus(o)
    \/ SkipFirst
    \/ \E o \in Outcome : HandleSync(o)
    \/ OtherEvent

Next ==
    \/ \E p \in Peer : Connect(p) \/ EnqueueConsensus(p) \/ EnqueueSync(p) \/ PurgeBlacklist(p)
    \/ \E p \in Peer, h \in Hash : RecordConsensus(p, h) \/ RecordSync(p, h)
    \/ ReceiveLoop
    \/ SwitchMode

\* receiveLoop is one goroutine that never stops; Go's select picks uniformly
\* among its ready branches, so a branch ready infinitely often is taken.
Fairness ==
    /\ WF_vars(ReceiveLoop)
    /\ SF_vars(\E o \in Outcome : HandleSync(o))
    /\ \A p \in Peer : WF_vars(EnqueueConsensus(p)) /\ WF_vars(EnqueueSync(p))

Spec == Init /\ [][Next]_vars
FairSpec == Spec /\ Fairness

-----------------------------------------------------------------------------
(* Properties *)

\* The messages of p that have been recorded and are still on their way:
\* in the reader's hands or on one of the channels.
InFlight(p) ==
    (IF reading[p] = Idle THEN 0 ELSE 1)
    + Len(SelectSeq(peerMsgCh, LAMBDA m : m.peer = p))
    + Len(SelectSeq(syncMsgCh, LAMBDA m : m.peer = p))

\* What a peer is charged for is exactly what it has on the way and what was discarded for want
\* of room, whatever way readers and receiveLoop interleave and however often it reconnects: so
\* recordMessage's limit bounds what one peer occupies and forgetMessage never takes the counter
\* below zero, but the discard branches of both selects, which return without forgetMessage,
\* use the limit up for good.
ChargeAccounted == \A p \in Peer : queues[p] = InFlight(p) + dropped[p]


\* Consensus messages have priority, yet a sync message at the head of its
\* channel does not wait for ever.
SyncNotStarved ==
    []<>(syncMsgCh = <<>>) \/ []<><<\E o \in Outcome : HandleSync(o)>>_vars
=============================================================================
