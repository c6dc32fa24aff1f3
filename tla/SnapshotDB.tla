----------------------------- MODULE SnapshotDB -----------------------------
(***************************************************************************)
(* The snapshot database (ethereum/core/db/snapshotdb): a key-value store  *)
(* in three layers, the blocks not committed yet, the committed blocks     *)
(* still in memory and the base (LevelDB), with a write-ahead log that is  *)
(* written behind the commits and a compaction that moves committed blocks *)
(* into the base.  The actors are the miner (its own block has no hash     *)
(* until it is flushed), the executor of received blocks, the reactor that *)
(* commits decided blocks, the worker that writes them to the chain, the   *)
(* log writer, the compaction job and a reader.                            *)
(*                                                                         *)
(* A hash is a pair <<number, producer>>.  A value is the sequence of the  *)
(* blocks that wrote it since it was last deleted, so that a write applied *)
(* twice, lost or applied to another state shows; the empty value is the   *)
(* code's nil: the key is not there.                                       *)
(***************************************************************************)
EXTENDS Integers, Sequences, FiniteSets, SequencesExt, FiniteSetsExt

CONSTANTS
    Keys,                       \* the keys, numbers: Ranking orders them
    ZeroHash,                   \* the hash of the block being produced here
    Free,                       \* no block
    walChSize,                  \* room in walCh (2)
    kvLIMIT,                    \* keys after which a compaction stops (2000)
    MaxBlockCompaction,         \* blocks of one ordinary compaction (10)
    MaxBlockTriggerCompaction,  \* blocks that make a compaction large (200)
    MaxBlockNotCompactionSync,  \* blocks a large compaction leaves (10)
    UnBlockNeedClean,           \* uncommitted blocks before a clean up (200)
    CrashPoints,                \* where a run lets the process die
    Program,                    \* hash -> what the block does to keys: "put" or "del"
    OwnNumbers,                 \* the numbers at which this node may produce a block
    MaxNumber,                  \* bound: block numbers
    MaxRestarts                 \* bound: restarts

VARIABLES
    unCommit,   \* hash -> block data: the blocks not committed
    committed,  \* the committed blocks in memory, oldest first
    current,    \* base number, highest number and hash, in memory
    disk,       \* the base: keys, log entries, stored base and highest
    walCh,      \* committed blocks on their way to the log
    walHand,    \* the logged block that is not saved as the highest, or Free
    compacting, \* number of blocks in the base whose base number is not saved
    committing, \* the block Commit has appended and not yet deleted, or Free
    mode,       \* "starting", "up" or "failed"
    final,      \* the hashes consensus decided, in order of number
    states,     \* the states they give, noted when they are decided
    head,       \* number of the last block in the chain database
    reactor,    \* number of the last decided block the reactor handled
    executed,   \* hash -> parent, for the blocks that have been executed
    read,       \* a Get in progress
    restarts

dbVars == <<unCommit, committed, current, disk, walCh, walHand, compacting, committing>>
nodeVars == <<mode, final, states, head, reactor, executed, restarts>>
vars == <<dbVars, nodeVars, read>>

-----------------------------------------------------------------------------
(* Blocks *)

Genesis == <<0, "self">>
Hash == (1 .. MaxNumber) \X {"self", "sync"}
Absent == << >>

Upd(f, x, v) == [y \in DOMAIN f \cup {x} |-> IF y = x THEN v ELSE f[y]]
Without(f, X) == [y \in DOMAIN f \ X |-> f[y]]

-----------------------------------------------------------------------------
(* Reading *)

\* The hashes getFromUnCommit visits, from h to the last one that is not committed.
UnCommitPath(h) ==
    LET path[x \in Hash \cup {ZeroHash, Genesis}] ==
            IF x \in DOMAIN unCommit THEN <<x>> \o path[unCommit[x].parent] ELSE << >>
    IN  path[h]

\* The value in the first of a sequence of data that has the key, or none.
Find(layers, key) ==
    LET i == SelectInSeq(layers, LAMBDA d : key \in DOMAIN d)
    IN  IF i = 0 THEN Free ELSE layers[i][key]

UnCommitLayers(h) == LET path == UnCommitPath(h) IN [i \in DOMAIN path |-> unCommit[path[i]].data]
\* Fault: the oldest committed block is asked first.
CommitLayers_OldestFirst == [i \in 1 .. Len(committed) |-> committed[i].data]

CommitLayers == Reverse([i \in 1 .. Len(committed) |-> committed[i].data])

getFromUnCommit(h, key) == Find(UnCommitLayers(h), key)
getFromCommit(key) == Find(CommitLayers, key)

Get(h, key) == Find(UnCommitLayers(h) \o CommitLayers \o <<disk.kv>>, key)

StateOf(h) == [k \in Keys |-> Get(h, k)]

\* Ranking follows the hash chain through the committed blocks as well.
RankingLayers(h) ==
    LET path == UnCommitPath(h)
        from == IF path = << >> THEN h ELSE unCommit[Last(path)].parent
        step(acc, b) == IF b.hash \in {h, acc.parent}
                          THEN [parent |-> b.parent, layers |-> Append(acc.layers, b.data)]
                          ELSE acc
    IN  FoldLeft(step, [parent |-> from, layers |-> UnCommitLayers(h)], Reverse(committed)).layers

\* Fault: a deleted key is not noted, and an older layer brings it back.
HeapItem_DeletedForgotten(st, key, val, max) ==
    IF st.stop \/ key \in st.handled \/ val = Absent THEN st
    ELSE LET keys == {e[1] : e \in st.heap}
             full == max > 0 /\ Cardinality(keys) >= max /\ key >= Max(keys)
             pushed == {e \in st.heap : max = 0 \/ e[1] < key} \cup {<<key, val>>}
         IN  [heap |-> IF full THEN st.heap ELSE pushed, handled |-> st.handled \cup {key}, stop |-> full]

\* One key of an iterator meets the heap: skipped when a newer layer had it,
\* the end of the iterator when the heap is full of smaller keys.
HeapItem(st, key, val, max) ==
    IF st.stop \/ key \in st.handled THEN st
    ELSE LET keys == {e[1] : e \in st.heap}
             full == max > 0 /\ Cardinality(keys) >= max /\ key >= Max(keys)
             pushed == IF val = Absent THEN st.heap ELSE st.heap \cup {<<key, val>>}
         IN  [heap |-> IF full THEN st.heap
                       ELSE IF max > 0 /\ Cardinality(pushed) > max
                         THEN {e \in pushed : e[1] # Max({x[1] : x \in pushed})}
                         ELSE pushed,
              handled |-> st.handled \cup {key},
              stop |-> full]

itr2Heap(st, data, max) ==
    LET keys == SetToSortSeq(DOMAIN data, <)
    IN  FoldLeft(LAMBDA acc, key : HeapItem(acc, key, data[key], max), [st EXCEPT !.stop = FALSE], keys)

\* The smallest max live keys (all when max is 0) with their values.
Ranking(h, max) ==
    LET stored == [k \in {x \in Keys : disk.kv[x] # Absent} |-> disk.kv[k]]
    IN  FoldLeft(LAMBDA acc, data : itr2Heap(acc, data, max),
                 [heap |-> {}, handled |-> {}, stop |-> FALSE],
                 Append(RankingLayers(h), stored)).heap

-----------------------------------------------------------------------------
(* Producing and executing blocks *)

Init ==
    /\ unCommit = << >>
    /\ committed = << >>
    /\ current = [base |-> 0, highest |-> [num |-> 0, hash |-> Genesis]]
    /\ disk = [kv |-> [k \in Keys |-> Absent], wal |-> << >>, base |-> 0,
               highest |-> [num |-> 0, hash |-> Genesis]]
    /\ walCh = << >> /\ walHand = Free
    /\ compacting = 0 /\ committing = Free
    /\ mode = "up" /\ final = << >> /\ states = << >> /\ head = 0 /\ reactor = 0
    /\ executed = << >> /\ read = Free /\ restarts = 0

CanonHash(n) == IF n = 0 THEN Genesis ELSE final[n]
HeadHash == IF current.highest.hash = ZeroHash THEN CanonHash(current.highest.num) ELSE current.highest.hash

\* The blocks that can be built on: executed to the end, or committed last.
Parents == (DOMAIN unCommit \ {ZeroHash}) \cup {HeadHash}

\* A block is created and its writes are applied to the state its parent has
\* now: a put adds the block to the value, a delete leaves the empty value.
\* Only the actor that runs the block touches it before it has finished.
NewBlock(hash, h, parent) ==
    /\ current.highest.num < h[1]
    /\ unCommit' = Upd(unCommit, hash,
          [number |-> h[1], parent |-> parent,
           data |-> [k \in DOMAIN Program[h] |-> IF Program[h][k] = "put" THEN Append(Get(parent, k), h)
                                                 ELSE Absent]])
    /\ UNCHANGED <<committed, current, disk, walCh, walHand, compacting, committing>>

\* The miner produces a block; one it has not flushed gives way to it.
NewUnrecognized ==
    /\ mode = "up"
    /\ \E parent \in Parents :
        LET h == <<parent[1] + 1, "self">>
        IN  h[1] \in OwnNumbers /\ h \notin DOMAIN executed /\ NewBlock(ZeroHash, h, parent)
    /\ UNCHANGED nodeVars

\* The miner's block gets its hash.
Flush ==
    /\ mode = "up" /\ ZeroHash \in DOMAIN unCommit
    /\ LET b == unCommit[ZeroHash] h == <<b.number, "self">>
       IN  /\ h \notin DOMAIN unCommit
           /\ unCommit' = Without(Upd(unCommit, h, b), {ZeroHash})
           /\ executed' = Upd(executed, h, b.parent)
    /\ UNCHANGED <<committed, current, disk, walCh, walHand, compacting, committing, mode, final, states, head,
                   reactor, restarts>>

\* A received block is executed for the first time.
ExecuteReceived ==
    /\ mode = "up"
    /\ \E parent \in Parents :
        LET h == <<parent[1] + 1, "sync">>
        IN  /\ parent[1] < MaxNumber
            /\ h \notin DOMAIN executed
            /\ NewBlock(h, h, parent)
            /\ executed' = Upd(executed, h, parent)
    /\ UNCHANGED <<mode, final, states, head, reactor, restarts>>

\* A block executed before a restart is executed again.
ExecuteAgain(h) ==
    /\ h \notin DOMAIN unCommit
    /\ NewBlock(h, h, executed[h])
    /\ UNCHANGED nodeVars

-----------------------------------------------------------------------------
(* Deciding and committing *)

\* The state after a block, from the writes of the block and its ancestors alone.
Reference(hash) ==
    LET h == IF hash = ZeroHash THEN <<unCommit[hash].number, "self">> ELSE hash
        from == IF hash = ZeroHash THEN unCommit[hash].parent ELSE executed[hash]
        apply(state, x) == [k \in Keys |-> IF k \notin DOMAIN Program[x] THEN state[k]
                                           ELSE IF Program[x][k] = "put" THEN Append(state[k], x)
                                           ELSE Absent]
        ref[x \in Hash \cup {Genesis}] ==
            IF x = Genesis THEN [k \in Keys |-> Absent] ELSE apply(ref[executed[x]], x)
    IN  IF hash = Genesis THEN ref[hash] ELSE apply(ref[from], h)

\* Consensus decides an executed block on top of the last decided one.
Decide ==
    /\ mode = "up" /\ Len(final) < MaxNumber
    /\ \E h \in DOMAIN unCommit \ {ZeroHash} :
        /\ unCommit[h].parent = CanonHash(Len(final))
        /\ final' = Append(final, h)
        /\ states' = Append(states, Reference(h))
    /\ UNCHANGED <<dbVars, mode, head, reactor, executed, restarts>>

\* The worker writes the next decided block to the chain.  The event of a block
\* is handed to the worker and to the reactor in turn, each taking it when it
\* has finished the one before: neither is two blocks ahead of the other.
WriteChain ==
    /\ mode = "up" /\ head < Len(final) /\ reactor >= head - 1
    /\ head' = head + 1
    /\ UNCHANGED <<dbVars, mode, final, states, reactor, executed, restarts>>

\* The number of the block to commit next: after a start the blocks the chain
\* has and the database lost, then the blocks the reactor is handed.
NextCommit == IF mode = "starting" THEN current.highest.num + 1 ELSE reactor + 1
CommitAllowed ==
    IF mode = "starting" THEN current.highest.num < head
    ELSE mode = "up" /\ reactor < Len(final) /\ head >= reactor - 1

CommittedBlock(h) == [hash |-> h, number |-> unCommit[h].number, parent |-> unCommit[h].parent,
                      data |-> unCommit[h].data]

\* Commit, first part: the checks, then the send to walCh, which waits for room.
CommitSend ==
    /\ committing = Free /\ CommitAllowed
    /\ LET h == final[NextCommit]
       IN  /\ h \in DOMAIN unCommit
           /\ unCommit[h].number = current.highest.num + 1
           /\ current.highest.hash # ZeroHash => unCommit[h].parent = current.highest.hash
           /\ Len(walCh) < walChSize
           /\ walCh' = Append(walCh, CommittedBlock(h))
           /\ committing' = [hash |-> h, appended |-> FALSE]
    /\ UNCHANGED <<unCommit, committed, current, disk, walHand, compacting, nodeVars>>

\* Commit, second part: the block becomes the highest committed one.
CommitAppend ==
    /\ committing # Free /\ ~committing.appended
    /\ LET h == committing.hash
       IN  /\ current' = [current EXCEPT !.highest = [num |-> @.num + 1, hash |-> h]]
           /\ committed' = Append(committed, CommittedBlock(h))
    /\ committing' = [committing EXCEPT !.appended = TRUE]
    /\ UNCHANGED <<unCommit, disk, walCh, walHand, compacting, nodeVars>>

\* Commit, last part: the block leaves the uncommitted ones.
CommitDelete ==
    /\ committing # Free /\ committing.appended
    /\ unCommit' = Without(unCommit, {committing.hash})
    /\ committing' = Free
    /\ reactor' = IF mode = "up" THEN reactor + 1 ELSE reactor
    /\ UNCHANGED <<committed, current, disk, walCh, walHand, compacting, mode, final, states, head,
                   executed, restarts>>

-----------------------------------------------------------------------------
(* The log writer and the compaction *)

\* Fault: the log writer runs only after the start has finished.
WriteWal_AfterStart ==
    /\ mode = "up" /\ walHand = Free /\ walCh # << >>
    /\ walHand' = Head(walCh)
    /\ walCh' = Tail(walCh)
    /\ disk' = [disk EXCEPT !.wal = Upd(@, walHand'.number, walHand')]
    /\ UNCHANGED <<unCommit, committed, current, compacting, committing, nodeVars>>

\* The log writer takes the next block and puts it into the log.
WriteWal ==
    /\ mode # "failed" /\ walHand = Free /\ walCh # << >>
    /\ walHand' = Head(walCh)
    /\ walCh' = Tail(walCh)
    /\ disk' = [disk EXCEPT !.wal = Upd(@, walHand'.number, walHand')]
    /\ UNCHANGED <<unCommit, committed, current, compacting, committing, nodeVars>>

\* Then it saves the block as the highest one.
SaveHighest ==
    /\ walHand # Free
    /\ disk' = [disk EXCEPT !.highest = [num |-> walHand.number, hash |-> walHand.hash]]
    /\ walHand' = Free
    /\ UNCHANGED <<unCommit, committed, current, walCh, compacting, committing, nodeVars>>

\* Keys in the first i committed blocks.
KvSize(i) == SumFunction([j \in 1 .. i |-> Cardinality(DOMAIN committed[j].data)])

\* How many blocks an ordinary compaction would take for their size alone.
BySize ==
    LET stop == {i \in 0 .. Len(committed) - 1 : i >= MaxBlockCompaction \/ KvSize(i) > kvLIMIT}
        first == Min(stop)
        num == IF stop = {} THEN 0 ELSE IF first >= MaxBlockCompaction THEN first ELSE first - 1
    IN  IF num = 0 THEN 1 ELSE num

\* Fault: blocks that are not in the log or the chain yet are compacted too.
findToWrite_NoHeight ==
    IF Len(committed) > MaxBlockTriggerCompaction THEN Len(committed) - MaxBlockNotCompactionSync
    ELSE BySize

findToWrite ==
    IF Len(committed) > MaxBlockTriggerCompaction THEN Len(committed) - MaxBlockNotCompactionSync
    ELSE LET minimumHeight == Min({disk.highest.num, head})
         IN  BySize - Cardinality({i \in 1 .. BySize : committed[i].number > minimumHeight})

\* Compaction, first part: one batch puts the blocks' keys and drops their log.
CompactWrite ==
    /\ mode # "failed" /\ compacting = 0 /\ committed # << >>
    /\ findToWrite > 0
    /\ LET blocks == SubSeq(committed, 1, findToWrite)
           layers == Reverse([i \in 1 .. findToWrite |-> blocks[i].data])
       IN  disk' = [disk EXCEPT
             !.kv = [k \in Keys |-> Find(Append(layers, @), k)],
             !.wal = Without(@, {blocks[i].number : i \in 1 .. findToWrite})]
    /\ compacting' = findToWrite
    /\ UNCHANGED <<unCommit, committed, current, walCh, walHand, committing, nodeVars>>

\* Fault: the base number is not saved.
CompactFinish_NotSaved ==
    /\ compacting > 0
    /\ committed' = SubSeq(committed, compacting + 1, Len(committed))
    /\ current' = [current EXCEPT !.base = @ + compacting]
    /\ compacting' = 0
    /\ UNCHANGED <<unCommit, disk, walCh, walHand, committing, nodeVars>>

\* Compaction, second part: the blocks leave memory, the base number is saved,
\* and old forks are cleared when there are many uncommitted blocks.
CompactFinish ==
    /\ compacting > 0
    /\ LET base == current.base + compacting
       IN  /\ committed' = SubSeq(committed, compacting + 1, Len(committed))
           /\ current' = [current EXCEPT !.base = base]
           /\ disk' = [disk EXCEPT !.base = base]
           /\ unCommit' = IF Cardinality(DOMAIN unCommit) > UnBlockNeedClean
                            THEN Without(unCommit, {h \in DOMAIN unCommit : unCommit[h].number <= base})
                            ELSE unCommit
    /\ compacting' = 0
    /\ UNCHANGED <<walCh, walHand, committing, nodeVars>>

-----------------------------------------------------------------------------
(* Dying and opening again *)

\* loadCurrent: the stored highest block, not above the chain's head.
LoadedHighest ==
    IF disk.highest.num > head THEN [num |-> head, hash |-> CanonHash(head)] ELSE disk.highest

\* Fault: the block after the base does not count as the next one.
WalEnough_OffByOne == DOMAIN disk.wal = {} \/ Min(DOMAIN disk.wal) <= disk.base

\* The log goes on where the base ends.
WalEnough == DOMAIN disk.wal = {} \/ Min(DOMAIN disk.wal) <= disk.base + 1

OpenFails == disk.base > disk.highest.num \/ disk.base > head \/ ~WalEnough

\* The log entries recover brings back; the others stay in the log, since the
\* delete that should remove them is given their value for a key.
Recovered ==
    LET numbers == {n \in DOMAIN disk.wal : disk.base < n /\ n <= LoadedHighest.num}
        sorted == SetToSortSeq(numbers, <)
    IN  [i \in 1 .. Len(sorted) |-> disk.wal[sorted[i]]]

RecoveredHighest ==
    IF Recovered = << >> THEN [num |-> disk.base, hash |-> ZeroHash]
    ELSE [num |-> Last(Recovered).number, hash |-> Last(Recovered).hash]

\* The process dies and is started again: memory is lost, loadCurrent and
\* recover rebuild it from the base, or the start fails.
Restart ==
    /\ mode # "failed" /\ restarts < MaxRestarts
    /\ compacting = 0 \/ "compacting" \in CrashPoints
    /\ restarts' = restarts + 1
    /\ unCommit' = << >> /\ walCh' = << >> /\ walHand' = Free
    /\ compacting' = 0 /\ committing' = Free /\ read' = Free
    /\ IF OpenFails
         THEN mode' = "failed" /\ committed' = << >> /\ UNCHANGED <<current, disk>>
         ELSE /\ mode' = "starting"
              /\ committed' = Recovered
              /\ current' = [base |-> disk.base, highest |-> RecoveredHighest]
              /\ disk' = [disk EXCEPT !.highest = RecoveredHighest]
    /\ UNCHANGED <<final, states, head, reactor, executed>>

\* recoverSnapshotDB: a block of the chain above the highest committed one is
\* executed again; Commit follows.
Replay ==
    /\ mode = "starting" /\ committing = Free /\ current.highest.num < head
    /\ ExecuteAgain(final[current.highest.num + 1])

Started ==
    /\ mode = "starting" /\ committing = Free /\ current.highest.num >= head
    /\ mode' = "up" /\ reactor' = head
    /\ UNCHANGED <<dbVars, final, states, head, executed, restarts>>

\* After a start consensus executes the blocks it had executed before again.
Resume ==
    /\ mode = "up"
    /\ \E h \in DOMAIN executed : executed[h] \in Parents /\ ExecuteAgain(h)

-----------------------------------------------------------------------------
(* A Get in progress *)

\* The blocks that extend the last committed one, and that one itself.
Live ==
    LET extends[x \in Hash \cup {Genesis}] ==
            x = HeadHash \/ (x # Genesis /\ extends[executed[x]])
        from(h) == IF h = ZeroHash THEN unCommit[h].parent ELSE h
    IN  {HeadHash} \cup {h \in DOMAIN unCommit : extends[from(h)]}

\* Get, first part: the key is in no uncommitted block.
ReadUnCommit ==
    /\ mode = "up" /\ read = Free
    /\ \E h \in Live \ {ZeroHash}, key \in Keys :
        /\ getFromUnCommit(h, key) = Free
        /\ read' = [hash |-> h, key |-> key, at |-> "commit"]
    /\ UNCHANGED <<dbVars, nodeVars>>

\* Fault: only the newest committed block is asked.
ReadCommit_NewestOnly ==
    /\ read # Free /\ read.at = "commit"
    /\ read' = IF committed = << >> \/ read.key \notin DOMAIN Last(committed).data
                 THEN [read EXCEPT !.at = "base"] ELSE Free
    /\ UNCHANGED <<dbVars, nodeVars>>

\* Get, second part: a committed block has the key, or the base is next.
ReadCommit ==
    /\ read # Free /\ read.at = "commit"
    /\ read' = IF getFromCommit(read.key) = Free THEN [read EXCEPT !.at = "base"] ELSE Free
    /\ UNCHANGED <<dbVars, nodeVars>>

\* Get, last part: what the base has.
GetBaseDB ==
    /\ read # Free /\ read.at = "base"
    /\ read' = Free
    /\ UNCHANGED <<dbVars, nodeVars>>

Reading == ReadUnCommit \/ ReadCommit \/ GetBaseDB

Stepping ==
    \/ NewUnrecognized \/ Flush \/ ExecuteReceived \/ Resume \/ Replay \/ Started
    \/ Decide \/ WriteChain \/ CommitSend \/ CommitAppend \/ CommitDelete
    \/ WriteWal \/ SaveHighest \/ CompactWrite \/ CompactFinish

\* A Get is followed as long as its block extends the committed chain.
Follow == read' = IF read = Free \/ \E h \in {read.hash} : (h \in Live)' THEN read ELSE Free

Next == (Stepping /\ Follow) \/ Reading \/ Restart

Spec == Init /\ [][Next]_vars

\* The reactor, the worker, the log writer and the compaction job keep running;
\* consensus executes again what it decided, and the start goes on.
Fairness ==
    /\ WF_vars(WriteChain /\ Follow) /\ WF_vars((CommitSend \/ CommitAppend \/ CommitDelete) /\ Follow)
    /\ WF_vars((WriteWal \/ SaveHighest) /\ Follow) /\ WF_vars(CompactFinish /\ Follow)
    /\ WF_vars((Replay \/ Started \/ Resume) /\ Follow)

FairSpec == Spec /\ Fairness

-----------------------------------------------------------------------------
(* Properties *)

\* Get on a block that extends the committed chain, or on its last block, gives
\* the value the block's own history of writes gives, however its ancestors are
\* spread over uncommitted blocks, committed blocks and the base, and whatever
\* was committed, compacted, recovered or executed again on the way
\* (snapshotdb.go, Get).
GetExact == mode # "failed" => \A h \in Live : StateOf(h) = Reference(h)

\* Ranking gives the smallest keys that are live in the block's state, with
\* their values: no deleted key comes back from an older layer and no key of a
\* newer one is shadowed (snapshotdb.go, Ranking; heap.go).
RankingExact ==
    mode # "failed" =>
      \A h \in Live \cup {committed[i].hash : i \in {j \in DOMAIN committed : j >= compacting}}, max \in 0 .. 1 :
        LET ref == Reference(h)
            keys == {k \in Keys : ref[k] # Absent}
            kept == IF max = 0 THEN keys ELSE {k \in keys : Cardinality({x \in keys : x < k}) < max}
        IN  Ranking(h, max) = {<<k, ref[k]>> : k \in kept}

\* A Get that is interleaved with commits and compactions still gives the value
\* of its block: the layers it has not looked at yet never lose a key to a layer
\* it has passed (Commit deletes last, Compaction writes to the base first).
ReadExact ==
    (read # Free /\ read.hash \in Live) =>
        Find((IF read.at = "commit" THEN CommitLayers ELSE << >>) \o <<disk.kv>>, read.key)
            = Reference(read.hash)[read.key]

\* No block goes to the base before it is in the log's highest block and in the
\* chain: such a base could not be opened again (snapshotdb.go:473).  The large
\* compaction does not look; what it leaves has to be more than what is on its
\* way to the log or to the chain.
CompactedDurable == mode # "failed" => current.base + compacting <= Min({disk.highest.num, head})

\* The process can always be started again (db.go, recover; current.go).
StartSucceeds == mode # "failed"

\* The state committed readers see moves along the decided chain: a commit
\* moves it one block on, a restart back to a block that was committed.
Store == INSTANCE ChainStore WITH
    State <- [Keys -> Seq(Hash)], Empty <- [k \in Keys |-> Absent],
    decided <- states,
    top <- current.highest.num,
    state <- [k \in Keys |-> Find(Append(CommitLayers, disk.kv), k)]

ImplementsStore == Store!Spec

\* The log catches up with consensus: whatever is committed, compacted, lost in
\* a crash and executed again on the way, the stored highest block is the last
\* decided one again (Commit, loopWriteWal, recoverSnapshotDB).
DecidedDurable == []<>(disk.highest.num = Len(final))
=============================================================================
