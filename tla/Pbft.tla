--------------------------------- MODULE Pbft ---------------------------------
(***************************************************************************)
(* The consensus engine at the level of its message handlers, for one      *)
(* epoch (static validators, Sys.Amount = 1 block per view).               *)
(*                                                                         *)
(* node[i] is the state of honest validator i: ViewState, the block tree   *)
(* and the pending executor tasks.  Every handler runs to the end on       *)
(* pbft.receiveLoop, so a handler is one action; the Go functions it calls *)
(* are operators from a node state to a node state, and what they          *)
(* broadcast collects in the field out.  Messages stay in msgs for ever:   *)
(* they may be delivered late, in any order, repeatedly or never, which    *)
(* also covers the Get*/ *List requests that only ask for a resend.        *)
(* Faulty validators sign anything and pass on every certificate that can  *)
(* be put together from the signatures that exist.                         *)
(***************************************************************************)
EXTENDS Integers, FiniteSets

CONSTANTS
    N,          \* the validators are 0 .. N-1, by index
    Faulty,
    Block, Genesis, parent, number,
    MaxView,    \* bound: no view beyond this one is entered
    None        \* stands for nil

Node == 0 .. N - 1
Honest == Node \ Faulty
Height == {number[b] : b \in Block}

\* Pbft.threshold
threshold(num) == num - ((num - 1) \div 3)

ASSUME PbftAssumption ==
    /\ N \in Nat \ {0} /\ MaxView \in Nat
    /\ Faulty \subseteq Node
    /\ None \notin Block
    /\ Genesis \in Block
    /\ parent \in [Block \ {Genesis} -> Block]
    /\ number \in [Block -> Nat]
    /\ number[Genesis] = 0
    /\ \A b \in Block \ {Genesis} : number[b] = number[parent[b]] + 1

VARIABLES
    node,       \* node[i]: the state of honest validator i
    msgs        \* everything ever broadcast by an honest validator

vars == <<node, msgs>>

NoVotes == [j \in Node |-> None]

\* Pbft.Start with an empty chain: epoch 1, view 0, block number 1.
InitialState == [
    view |-> 0, number |-> 1,                      \* ViewState.viewNumber, blockNumber
    blocks |-> [h \in Height |-> None],            \* viewBlocks, by number
    proposal |-> None,                             \* EvidencePool: PrepareBlock of this view
    executing |-> {}, executed |-> {Genesis},      \* AsyncBlockExecutor, BlockChainCache
    votes |-> NoVotes, preCommits |-> NoVotes,     \* viewVotes, viewPreCommits of number
    viewQC |-> None,                               \* viewQCs of number
    hadVote |-> <<0, 0>>, hadPreCommit |-> <<0, 0>>,  \* hadSendVoteLast, hadSendPreCommitLast
    viewChanges |-> NoVotes, expired |-> FALSE,    \* viewChanges, viewTimer
    lastViewChangeQC |-> None,
    qcProduced |-> FALSE,                          \* viewPreCommitQCs.IsProduced
    tree |-> {[block |-> Genesis, view |-> 0]},    \* BlockTree: blocks and the views of their QCs
    chain |-> {[block |-> Genesis, view |-> 0]},   \* every block ever inserted
    highestQC |-> Genesis, highestPreCommitQC |-> Genesis,
    highestLock |-> Genesis, highestCommit |-> Genesis,
    out |-> {}]

Init ==
    /\ node = [i \in Honest |-> InitialState]
    /\ msgs = {}

\* A handler has taken node i from node[i] to s.
Handled(i, s) ==
    /\ node' = [node EXCEPT ![i] = [s EXCEPT !.out = {}]]
    /\ msgs' = msgs \cup s.out

-----------------------------------------------------------------------------
(* Messages *)

PrepareBlock(i, b, v, vc) == [type |-> "PrepareBlock", from |-> i, block |-> b, view |-> v, vc |-> vc]
PrepareVote(i, b, v) == [type |-> "PrepareVote", from |-> i, block |-> b, view |-> v]
PreCommit(i, b, v) == [type |-> "PreCommit", from |-> i, block |-> b, view |-> v]
ViewChange(i, v, e) == [type |-> "ViewChange", from |-> i, view |-> v, cert |-> e]
BlockQuorumCert(b, v) == [type |-> "BlockQuorumCert", block |-> b, view |-> v]
BlockPreCommitQuorumCert(b, v) == [type |-> "BlockPreCommitQuorumCert", block |-> b, view |-> v]

\* Vote of j is on the wire, or can be at any time.
VoteSent(type, j, b, v) ==
    j \in Faulty \/ [type |-> type, from |-> j, block |-> b, view |-> v] \in msgs

\* A certificate of this kind can be aggregated from signatures that exist.
Certifiable(type, b, v) ==
    Cardinality({j \in Node : VoteSent(type, j, b, v)}) >= threshold(N)

\* A certificate reaches a validator: a broadcast one, or one a faulty peer put together.
\* verifyPrepareQC does not look at the step it is given, so either kind will do.
CertReceived(kind, b, v) ==
    \/ [type |-> kind, block |-> b, view |-> v] \in msgs
    \/ Faulty # {} /\ (Certifiable("PrepareVote", b, v) \/ Certifiable("PreCommit", b, v))

-----------------------------------------------------------------------------
(* The block tree and the view *)

InTree(s, b) == \E e \in s.tree : e.block = b

\* CalCurrentProposer
Proposer(s) == (s.number - 1 + s.view \div 10) % N

\* Pbft.HasBlock
HasBlock(s, b) ==
    \/ number[s.highestPreCommitQC] > number[b]
    \/ s.highestPreCommitQC = b

\* Fault: view.Reset's blockNumber 1 is not put right.
changeView_ResetNumber(s, v, vc) ==
    [s EXCEPT !.view = v, !.number = 1, !.expired = FALSE, !.lastViewChangeQC = vc,
              !.proposal = None, !.votes = NoVotes, !.preCommits = NoVotes, !.viewQC = None,
              !.viewChanges = NoVotes, !.qcProduced = FALSE]

\* changeView with view.Reset: what belongs to the old view is dropped, except the blocks.
changeView(s, v, vc) ==
    [s EXCEPT !.view = v, !.expired = FALSE, !.lastViewChangeQC = vc, !.proposal = None,
              !.votes = NoVotes, !.preCommits = NoVotes, !.viewQC = None,
              !.viewChanges = NoVotes, !.qcProduced = FALSE]


\* tryCommitNewBlock: the parent of the inserted block b is committed and becomes the root.
tryCommitNewBlock(s, b) ==
    LET commit == parent[b] IN
    IF number[s.highestCommit] + 1 = number[commit]
    THEN [s EXCEPT !.highestCommit = commit,
                   !.tree = {e \in @ : number[e.block] >= number[commit]}]
    ELSE s

\* insertQCBlock
insertQCBlock(s, b, v) ==
    IF number[b] <= number[s.highestLock] \/ HasBlock(s, b) THEN s
    ELSE tryCommitNewBlock(
           [s EXCEPT !.blocks[number[b]] = IF @ = None THEN b ELSE @,
                     !.qcProduced = TRUE,
                     !.tree = @ \cup {[block |-> b, view |-> v]},
                     !.chain = @ \cup {[block |-> b, view |-> v]},
                     !.highestQC = IF number[@] <= number[b] THEN b ELSE @,
                     !.highestPreCommitQC = b,
                     !.highestLock = b], b)

\* tryAddStateBlockNumber
tryAddStateBlockNumber(s, b) == IF number[b] = s.number THEN [s EXCEPT !.number = @ + 1] ELSE s

\* ViewChangeQC.MaxBlock: HigherQuorumCert compares the block number, then the view of its QC.
MaxBlock(vc) ==
    CHOOSE e \in vc.certs : \A f \in vc.certs :
        \/ number[f.block] < number[e.block]
        \/ number[f.block] = number[e.block] /\ f.view <= e.view

\* generateViewChangeQC groups the signatures by block hash.
generateViewChangeQC(s) ==
    LET sent == {s.viewChanges[j] : j \in Node} \ {None}
    IN  [view |-> s.view,
         certs |-> {CHOOSE e \in sent : e.block = b : b \in {e.block : e \in sent}}]

\* richViewChangeQC: add what this validator sent or, when it sent nothing, its own highest
\* block if that is higher.
richViewChangeQC(i, s, vc) ==
    LET m == MaxBlock(vc)
        own == {s.viewChanges[i]} \ {None}
        higher == {e \in s.tree :
                      /\ e.block = s.highestQC /\ e.block # Genesis
                      /\ \/ number[e.block] > number[m.block]
                         \/ number[e.block] = number[m.block] /\ e.view > m.view}
    IN  [vc EXCEPT !.certs =
            @ \cup IF own = {} THEN higher
                   ELSE {e \in own : \A f \in vc.certs : f.block # e.block}]

\* Fault: the view is increased twice.
tryChangeViewByViewChange_SkipsView(i, s, vc) ==
    LET rich == IF s.highestPreCommitQC = Genesis THEN vc ELSE richViewChangeQC(i, s, vc)
        behind == number[s.highestPreCommitQC] < number[MaxBlock(rich).block]
    IN  IF s.highestPreCommitQC # Genesis /\ behind THEN s
        ELSE changeView(s, s.view + 2, rich)

\* tryChangeViewByViewChange
tryChangeViewByViewChange(i, s, vc) ==
    LET rich == IF s.highestPreCommitQC = Genesis THEN vc ELSE richViewChangeQC(i, s, vc)
        behind == number[s.highestPreCommitQC] < number[MaxBlock(rich).block]
    IN  IF s.highestPreCommitQC # Genesis /\ behind THEN s
        ELSE changeView(s, s.view + 1, rich)

\* Fault: a new block number does not start with view 0.
tryChangeView_KeepsView(i, s) ==
    IF s.qcProduced THEN changeView(s, s.view, None)
    ELSE IF Cardinality({j \in Node : s.viewChanges[j] # None}) >= threshold(N)
    THEN tryChangeViewByViewChange(i, s, generateViewChangeQC(s))
    ELSE s

\* tryChangeView
tryChangeView(i, s) ==
    IF s.qcProduced THEN changeView(s, 0, None)
    ELSE IF Cardinality({j \in Node : s.viewChanges[j] # None}) >= threshold(N)
    THEN tryChangeViewByViewChange(i, s, generateViewChangeQC(s))
    ELSE s

\* insertQCBlock, tryAddStateBlockNumber, tryChangeView, in this order, wherever a
\* pre-commit certificate is accepted.
InsertAndMoveOn(i, s, b, v) ==
    tryChangeView(i, tryAddStateBlockNumber(insertQCBlock(s, b, v), b))

-----------------------------------------------------------------------------
(* Voting *)

\* HadSendPreVote, HadSendPreCommit, HadSendPreVoteByQC: had is <<number, view>>.
HadSend(had, n, v) == had[1] > n \/ (had[1] = n /\ had[2] >= v)

\* Fault: what was sent before is forgotten.
AllowVote_Again(s, had, b, v) ==
    /\ ~ s.expired
    /\ s.number = number[b] /\ s.view = v

\* AllowVote and AllowPreCommit, after the deadline check of trySend*.
AllowVote(s, had, b, v) ==
    /\ ~ s.expired
    /\ s.number = number[b] /\ s.view = v
    /\ ~ HadSend(had, number[b], v)

\* The parent of the block held at b's number is in the tree.
LocalParentInTree(s, b) == InTree(s, parent[s.blocks[number[b]]])

\* genPreCommit and trySendPreCommit for a prepare certificate of b in view v.
genPreCommit(i, s, b, v) ==
    IF AllowVote(s, s.hadPreCommit, b, v) /\ LocalParentInTree(s, b)
    THEN [s EXCEPT !.hadPreCommit = <<number[b], v>>,
                   !.preCommits[i] = b,
                   !.out = @ \cup {PreCommit(i, b, v)}]
    ELSE s

\* A prepare certificate for b in the current view is known: TrySetHighestQCBlock with the
\* block held at that number, AddQC, genPreCommit.
PrepareQCKnown(i, s, b) ==
    LET local == s.blocks[number[b]] IN
    genPreCommit(i, [s EXCEPT !.viewQC = b,
                              !.highestQC = IF number[@] <= number[b] THEN local ELSE @],
                 b, s.view)

\* Fault: one vote less than the threshold is taken for a quorum.
QuorumFor_OneLess(votes, b) ==
    /\ Cardinality({j \in Node : votes[j] # None}) >= threshold(N) - 1
    /\ \A j \in Node : votes[j] \in {b, None}

\* generatePrepareQC, generatePreCommitQC: enough votes, and all of them for b.
QuorumFor(votes, b) ==
    /\ Cardinality({j \in Node : votes[j] # None}) >= threshold(N)
    /\ \A j \in Node : votes[j] \in {b, None}

\* findPreVoteQC for the current block number.
findPreVoteQC(i, s) ==
    IF \E b \in Block : QuorumFor(s.votes, b)
    THEN LET b == CHOOSE b \in Block : QuorumFor(s.votes, b)
         IN  PrepareQCKnown(i, [s EXCEPT !.out = @ \cup {BlockQuorumCert(b, s.view)}], b)
    ELSE s

\* findPreCommitQC for the current block number: the certificate is made of PreCommits for
\* b, the block inserted is the one held at the number.
findPreCommitQC(i, s) ==
    IF \E b \in Block : QuorumFor(s.preCommits, b)
    THEN LET b == CHOOSE b \in Block : QuorumFor(s.preCommits, b)
         IN  InsertAndMoveOn(i, [s EXCEPT !.qcProduced = TRUE,
                                          !.out = @ \cup {BlockPreCommitQuorumCert(b, s.view)}],
                             s.blocks[s.number], s.view)
    ELSE s

\* signBlock and trySendPrepareVote: the vote carries the view in which execution ended.
signBlock(i, s, b) ==
    IF AllowVote(s, s.hadVote, b, s.view) /\ LocalParentInTree(s, b)
    THEN [s EXCEPT !.hadVote = <<number[b], s.view>>,
                   !.votes[i] = b,
                   !.out = @ \cup {PrepareVote(i, b, s.view)}]
    ELSE s

-----------------------------------------------------------------------------
(* Handlers *)

\* PrepareBlockRules, isCommitChild and isLockChild.
ExtendsHighest(s, b) ==
    InTree(s, parent[b]) /\ number[parent[b]] = number[s.highestPreCommitQC]

\* acceptViewChangeQC; a new view without a ViewChangeQC is for switch points only.
acceptViewChangeQC(m) == m.vc # None /\ MaxBlock(m.vc).block = parent[m.block]

\* checkViewChangeQC: the signatures are genuine (see PrepareBlocks), no hash occurs twice.
checkViewChangeQC(m) ==
    m.vc # None =>
        /\ MaxBlock(m.vc).block = parent[m.block]
        /\ \A e, f \in m.vc.certs : e.block = f.block => e = f


\* acceptIndexBlock, for a message of the current view: another block at the number is a
\* doubtful duplicate and passes without a look at its parent.
acceptIndexBlock(s, b) ==
    LET local == s.blocks[number[b]] IN
    IF local = None THEN ExtendsHighest(s, b) ELSE local # b

PrepareBlockRules(s, m) ==
    CASE \/ s.number > number[m.block]
         \/ s.number < number[m.block] /\ ~ InTree(s, parent[m.block])
         \/ s.view > m.view -> "discard"
      [] OTHER ->
         IF s.view < m.view
         THEN IF ExtendsHighest(s, m.block) /\ acceptViewChangeQC(m) /\ checkViewChangeQC(m)
              THEN "newView" ELSE "discard"
         ELSE IF acceptIndexBlock(s, m.block) /\ ~ s.expired THEN "accept" ELSE "discard"

\* verifyConsensusMsg: first PrepareBlock of its author in this view, author is the proposer.
verifyPrepareBlock(s, m) ==
    /\ s.proposal \in {None, m.block}
    /\ Proposer(s) = m.from
    /\ number[m.block] # 1 => checkViewChangeQC(m)

\* AddPrepareBlock and exePrepareBlock.
AddPrepareBlock(s, m) ==
    [s EXCEPT !.proposal = m.block,
              !.blocks[number[m.block]] = m.block,
              !.executing = IF InTree(s, parent[m.block]) THEN @ \cup {m.block} ELSE @]

\* OnPrepareBlock; the view is changed before the message is verified, and the evidence
\* pool has seen the message even if its ViewChangeQC turns out to be wrong.
OnPrepareBlock(s, m) ==
    LET rule == PrepareBlockRules(s, m)
        s1 == IF rule = "newView" THEN changeView(s, m.view, m.vc) ELSE s
    IN  IF rule = "discard" THEN s
        ELSE IF verifyPrepareBlock(s1, m) THEN AddPrepareBlock(s1, m)
        ELSE IF Proposer(s1) = m.from /\ s1.proposal = None THEN [s1 EXCEPT !.proposal = m.block]
        ELSE s1

\* OnSeal: the worker's block b goes through OnPrepareBlock and is broadcast if it passes.
OnSeal(i, b) ==
    LET s == node[i]
        m == PrepareBlock(i, b, s.view, s.lastViewChangeQC)
        s1 == OnPrepareBlock(s, m)
    IN  /\ Proposer(s) = i
        /\ b # Genesis /\ parent[b] = s.highestPreCommitQC /\ parent[b] \in s.executed
        /\ \A k \in msgs : k.type = "PrepareBlock" => k.block # b
        /\ s1.blocks[number[b]] = b
        /\ Handled(i, [s1 EXCEPT !.out = {m}, !.executed = @ \cup {b}])

\* ViewChangeQCs with genuine signatures: ViewChanges of one view from honest validators,
\* and an entry for whatever block the faulty ones name, a quorum together.
GenuineViewChangeQC(v) ==
    LET sent == {m \in msgs : m.type = "ViewChange" /\ m.view = v}
        certs(M) == {m.cert : m \in M}
    IN  {[view |-> v, certs |-> E] :
            E \in {certs(M) \cup F :
                     M \in {K \in SUBSET sent :
                              Cardinality({m.from : m \in K}) + Cardinality(Faulty) >= threshold(N)},
                     F \in {{}} \cup {{[block |-> b, view |-> 0]} : b \in Block}} \ {{}}}

\* PrepareBlocks a validator may receive.
PrepareBlocks ==
    {m \in msgs : m.type = "PrepareBlock"}
    \cup {PrepareBlock(f, b, v, vc) :
            f \in Faulty, b \in Block \ {Genesis}, v \in 0 .. MaxView,
            vc \in {None} \cup UNION {GenuineViewChangeQC(w) : w \in 0 .. MaxView}}

ReceivePrepareBlock(i, m) ==
    /\ m.from # i
    /\ OnPrepareBlock(node[i], m) # node[i]
    /\ Handled(i, OnPrepareBlock(node[i], m))

\* onAsyncExecuteStatus: the block must still be the one held at its number.  The votes of a
\* number that was left are not kept here: findPreVoteQC may or may not find a quorum there.
\* Execution starts from the parent's state; without it, it fails and nothing is reported.
OnAsyncExecuteStatus(i, b) ==
    LET s == [node[i] EXCEPT !.executing = @ \ {b}, !.executed = @ \cup {b}]
        held == s.blocks[number[b]] = b
    IN  /\ b \in node[i].executing /\ parent[b] \in s.executed
        /\ \/ Handled(i, IF held /\ number[b] = s.number
                         THEN findPreVoteQC(i, signBlock(i, s, b)) ELSE s)
           \/ /\ held /\ number[b] < s.number /\ number[s.highestQC] <= number[b]
              /\ Handled(i, [s EXCEPT !.highestQC = b])

\* PrepareVoteRules, PreCommitRules and verifyConsensusMsg: a vote of j for b in the view
\* of s.  An honest vote carries the certificate of b's parent, which must be in the tree.
VoteAccepted(s, votes, j, b) ==
    /\ number[b] = s.number /\ s.blocks[number[b]] = b
    /\ votes[j] = None
    /\ ~ s.expired
    /\ j \in Honest /\ number[b] > 1 => InTree(s, parent[b])

OnPrepareVote(i, j, b) ==
    LET s == node[i] IN
    /\ j # i /\ VoteSent("PrepareVote", j, b, s.view)
    /\ VoteAccepted(s, s.votes, j, b)
    /\ Handled(i, findPreVoteQC(i, [s EXCEPT !.votes[j] = b]))

OnPreCommit(i, j, b) ==
    LET s == node[i] IN
    /\ j # i /\ VoteSent("PreCommit", j, b, s.view)
    /\ VoteAccepted(s, s.preCommits, j, b)
    /\ Handled(i, findPreCommitQC(i, [s EXCEPT !.preCommits[j] = b]))

\* Fault: the certificate is not verified.
OnBlockQuorumCert_Unverified(i, b) ==
    LET s == node[i] IN
    /\ number[b] = s.number /\ ~ InTree(s, b)
    /\ s.viewQC # b
    /\ s.blocks[number[b]] = b
    /\ Handled(i, PrepareQCKnown(i, s, b))

OnBlockQuorumCert(i, b) ==
    LET s == node[i] IN
    /\ CertReceived("BlockQuorumCert", b, s.view)
    /\ number[b] = s.number /\ ~ InTree(s, b)
    /\ s.viewQC # b
    /\ s.blocks[number[b]] = b
    /\ Handled(i, PrepareQCKnown(i, s, b))

\* OnBlockPreCommitQuorumCert and insertPreCommitQC: a validator that has sent its
\* PrepareVote for this number and view is taken to have executed the block.
OnBlockPreCommitQuorumCert(i, b) ==
    LET s == node[i] IN
    /\ CertReceived("BlockPreCommitQuorumCert", b, s.view)
    /\ number[b] = s.number /\ ~ InTree(s, b)
    /\ s.blocks[number[b]] = b
    /\ HadSend(s.hadVote, number[b], s.view) /\ InTree(s, parent[b])
    /\ Handled(i, InsertAndMoveOn(i, [s EXCEPT !.qcProduced = TRUE], b, s.view))

\* OnViewTimeout, once per view; from here on the view is past its deadline.
OnViewTimeout(i) ==
    LET s == node[i]
        cert == CHOOSE e \in s.tree : e.block = s.highestPreCommitQC
    IN  /\ s.view < MaxView
        /\ s.viewChanges[i] = None
        /\ Handled(i, tryChangeView(i, [s EXCEPT !.expired = TRUE,
                                                 !.viewChanges[i] = cert,
                                                 !.out = {ViewChange(i, s.view, cert)}]))

\* ViewChangeRules and OnViewChange: any block from the committed one on will do.
OnViewChange(i, j, e) ==
    LET s == node[i] IN
    /\ j # i
    /\ s.view < MaxView
    /\ \/ ViewChange(j, s.view, e) \in msgs
       \/ j \in Faulty /\ (\/ e.block = Genesis /\ e.view = 0
                           \/ Certifiable("PrepareVote", e.block, e.view)
                           \/ Certifiable("PreCommit", e.block, e.view))
    /\ number[s.highestCommit] <= number[e.block]
    /\ number[s.highestCommit] < number[e.block] => InTree(s, e.block)
    /\ s.viewChanges[j] = None
    /\ Handled(i, tryChangeView(i, [s EXCEPT !.viewChanges[j] = e]))

\* A received ViewChangeQC of the current view and number is acted on.
ChangeViewByCert(i, s, vc) ==
    IF vc.view = s.view /\ vc.view < MaxView /\ number[MaxBlock(vc).block] + 1 = s.number
    THEN tryChangeViewByViewChange(i, s, vc)
    ELSE s

\* OnViewChangeQuorumCert and trySyncViewChangeQuorumCert: the answer of a peer to
\* GetViewChange, vc for the view asked for and the highest one it has (vc itself if none).
OnViewChangeQuorumCert(i, vc, highest) ==
    LET s == ChangeViewByCert(i, ChangeViewByCert(i, node[i], vc), highest)
    IN  s # node[i] /\ Handled(i, s)

\* OnGetViewChange: a peer one view ahead answers with its lastViewChangeQC, one that is
\* further on from its WAL, a faulty one with any that is genuine.
ServedViewChangeQC(i) ==
    LET s == node[i]
        ahead == {j \in Honest : node[j].number = s.number /\ node[j].view = s.view + 1}
    IN  {vc \in {node[j].lastViewChangeQC : j \in ahead} :
           \A e \in vc.certs : number[e.block] = s.number - 1}
        \cup IF \/ Faulty # {}
                \/ \E j \in Honest : \/ node[j].number > s.number
                                     \/ node[j].number = s.number /\ node[j].view > s.view + 1
             THEN GenuineViewChangeQC(s.view) ELSE {}

\* OnInsertQCBlock for a block that was fetched and executed, on its parent, beforehand.
OnInsertQCBlock(i, b, v) ==
    LET s == node[i] IN
    /\ ~ HasBlock(s, b) /\ parent[b] \in s.executed
    /\ InTree(s, parent[b])
    /\ Handled(i, InsertAndMoveOn(i, [s EXCEPT !.executed = @ \cup {b}], b, v))

\* fetchBlock from j: OnGetQCBlockList serves the block held at a number with the
\* certificate inserted for that number; the pair must match to pass verifyPrepareQC.
FetchBlock(i, j, e) ==
    /\ \/ j \in Honest /\ e \in node[j].tree /\ node[j].blocks[number[e.block]] = e.block
       \/ j \in Faulty /\ (\/ Certifiable("PrepareVote", e.block, e.view)
                           \/ Certifiable("PreCommit", e.block, e.view))
    /\ number[e.block] > number[node[i].highestPreCommitQC]
    /\ OnInsertQCBlock(i, e.block, e.view)

\* InsertChain: the downloader takes a committed block of j, with its certificate in the
\* extra data.
InsertChain(i, j, e) ==
    /\ \/ j \in Honest /\ e \in node[j].chain /\ number[e.block] <= number[node[j].highestCommit]
       \/ j \in Faulty /\ (\/ Certifiable("PrepareVote", e.block, e.view)
                           \/ Certifiable("PreCommit", e.block, e.view))
    /\ OnInsertQCBlock(i, e.block, e.view)

Cert == [block : Block, view : 0 .. MaxView]

\* One round of receiveLoop at validator i.
Handle(i) ==
    \/ \E m \in PrepareBlocks : ReceivePrepareBlock(i, m)
    \/ \E b \in Block \ {Genesis} :
         \/ OnSeal(i, b)
         \/ OnAsyncExecuteStatus(i, b)
         \/ \E j \in Node : OnPrepareVote(i, j, b) \/ OnPreCommit(i, j, b)
         \/ OnBlockQuorumCert(i, b)
         \/ OnBlockPreCommitQuorumCert(i, b)
    \/ OnViewTimeout(i)
    \/ \E j \in Node, e \in Cert : OnViewChange(i, j, e)
    \/ \E vc \in ServedViewChangeQC(i) :
         \E highest \in {vc} \cup GenuineViewChangeQC(node[i].view + 1) :
           OnViewChangeQuorumCert(i, vc, highest)
    \/ \E j \in Node, e \in Cert :
         e.block # Genesis /\ (FetchBlock(i, j, e) \/ InsertChain(i, j, e))

Next == \E i \in Honest : Handle(i)

Spec == Init /\ [][Next]_vars

-----------------------------------------------------------------------------
(* Properties *)

MaybeBlock == Block \cup {None}
MaybeCert == Cert \cup {None}

NodeState == [
    view : 0 .. MaxView, number : Nat \ {0},
    blocks : [Height -> MaybeBlock], proposal : MaybeBlock,
    executing : SUBSET Block, executed : SUBSET Block,
    votes : [Node -> MaybeBlock], preCommits : [Node -> MaybeBlock], viewQC : MaybeBlock,
    hadVote : Nat \X Nat, hadPreCommit : Nat \X Nat,
    viewChanges : [Node -> MaybeCert], expired : BOOLEAN,
    lastViewChangeQC : {None} \cup [view : 0 .. MaxView, certs : SUBSET Cert], qcProduced : BOOLEAN,
    tree : SUBSET Cert, chain : SUBSET Cert,
    highestQC : Block, highestPreCommitQC : Block, highestLock : Block, highestCommit : Block,
    out : {{}}]

\* The shape of every validator's state; no view beyond the bound is entered.
TypeOK == node \in [Honest -> NodeState]

\* AllowVote and AllowPreCommit: in one view of one block number an honest validator signs
\* at most one PrepareVote and at most one PreCommit, whatever it is sent, also when
\* another block replaces the one it voted for or execution ends in a later view.
NoDoubleVote ==
    \A m, k \in msgs :
        /\ m.type \in {"PrepareVote", "PreCommit"} /\ k.type = m.type
        /\ m.from = k.from /\ m.view = k.view
        /\ number[m.block] = number[k.block]
        => m = k

\* A PreCommit says that a quorum voted for the block in that view (genPreCommit), although
\* the certificate accepted as a prepareQC may have been one of PreCommits.
PreCommitBacked ==
    \A m \in msgs : m.type = "PreCommit" => Certifiable("PrepareVote", m.block, m.view)

\* The block tree is one path: from the committed block, its root, to its child, which is
\* the highest, locked block, and the next number to agree on is the one after it.
TreeIsPath ==
    \A i \in Honest : LET s == node[i] IN
        /\ s.highestLock = s.highestPreCommitQC
        /\ s.number = number[s.highestLock] + 1
        /\ {e.block : e \in s.tree} = {s.highestCommit, s.highestLock}
        /\ Cardinality(s.tree) = Cardinality({e.block : e \in s.tree})
        /\ s.highestLock # Genesis => s.highestCommit = parent[s.highestLock]

\* changeView and tryAddStateBlockNumber: (number, view) never goes back, and the view
\* starts again at 0 exactly when the number moves on.
RoundsAdvance ==
    [][\A i \in Honest :
        \/ node'[i].number = node[i].number /\ node'[i].view \in {node[i].view} \cup (node[i].view + 1 .. MaxView)
        \/ node'[i].number = node[i].number + 1 /\ node'[i].view = 0]_vars



signedBlocks == [i \in Honest |-> {m.block : m \in {k \in msgs :
                    k.type \in {"PrepareVote", "PreCommit"} /\ k.from = i}}]
chainBlocks == [i \in Honest |-> {e.block : e \in node[i].chain}]

C == INSTANCE ChainConsensus WITH signed <- signedBlocks, chain <- chainBlocks

\* The handlers implement ChainConsensus: whatever an honest validator signs has its parent
\* in the signer's chain, and what it inserts is certified and above all it holds.
ImplementsChainConsensus == C!Spec
=============================================================================
