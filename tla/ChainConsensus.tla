---------------------------- MODULE ChainConsensus ----------------------------
(***************************************************************************)
(* The safety core of the consensus engine, without views and timers.      *)
(*                                                                         *)
(* A validator signs a block (PrepareVote or PreCommit) only when the      *)
(* block's parent is in its own block tree, and inserts a block into the   *)
(* tree only with a quorum certificate and only above every block that is  *)
(* already there.  Inserting a block commits its parent.  Two blocks of    *)
(* one height may both be certified, in different views, and inserted at   *)
(* different validators: there is no lock carried from view to view.  What *)
(* must never happen is that two blocks of one height are both committed.  *)
(*                                                                         *)
(* Faulty validators sign whatever they like, so a certificate only tells  *)
(* about the honest part of its signers.                                   *)
(***************************************************************************)
EXTENDS Integers, FiniteSets

CONSTANTS
    Node,       \* the validators of the epoch
    Faulty,     \* those that may sign and send anything
    Block,      \* blocks, identified by hash
    Genesis,
    parent,     \* parent[b] for b # Genesis
    number      \* number[b]: the height of b

\* Pbft.threshold
threshold(num) == num - ((num - 1) \div 3)

ASSUME NodeAssumption ==
    /\ IsFiniteSet(Node) /\ Node # {}
    /\ Faulty \subseteq Node
    /\ Cardinality(Faulty) <= (Cardinality(Node) - 1) \div 3

ASSUME BlockAssumption ==
    /\ Genesis \in Block
    /\ parent \in [Block \ {Genesis} -> Block]
    /\ number \in [Block -> Nat]
    /\ number[Genesis] = 0
    /\ \A b \in Block \ {Genesis} : number[b] = number[parent[b]] + 1

Honest == Node \ Faulty
Quorum == {Q \in SUBSET Node : Cardinality(Q) >= threshold(Cardinality(Node))}

VARIABLES
    signed,     \* signed[i]: the blocks honest i has sent a PrepareVote or PreCommit for
    chain       \* chain[i]: the blocks honest i has ever inserted into its block tree

vars == <<signed, chain>>

Init ==
    /\ signed = [i \in Honest |-> {}]
    /\ chain = [i \in Honest |-> {Genesis}]

\* A quorum certificate for b can exist: every honest member of a quorum signed b.
Certified(b) == \E Q \in Quorum : \A h \in Q \cap Honest : b \in signed[h]

\* Fault: the parent of the signed block need not be in the tree.
Sign_NoParent(i, b) ==
    /\ signed' = [signed EXCEPT ![i] = @ \cup {b}]
    /\ UNCHANGED chain

\* trySendPrepareVote and genPreCommit/trySendPreCommit.
Sign(i, b) ==
    /\ parent[b] \in chain[i]
    /\ signed' = [signed EXCEPT ![i] = @ \cup {b}]
    /\ UNCHANGED chain

\* Fault: insertQCBlock does not turn down a block at or below its highest one.
Insert_AnyHeight(i, b) ==
    /\ Certified(b)
    /\ parent[b] \in chain[i]
    /\ b \notin chain[i]
    /\ chain' = [chain EXCEPT ![i] = @ \cup {b}]
    /\ UNCHANGED signed

\* insertQCBlock.
Insert(i, b) ==
    /\ Certified(b)
    /\ parent[b] \in chain[i]
    /\ \A c \in chain[i] : number[c] < number[b]
    /\ chain' = [chain EXCEPT ![i] = @ \cup {b}]
    /\ UNCHANGED signed

Next == \E i \in Honest, b \in Block \ {Genesis} : Sign(i, b) \/ Insert(i, b)

Spec == Init /\ [][Next]_vars

-----------------------------------------------------------------------------
(* Properties *)

\* tryCommitNewBlock: the parent of an inserted block is committed.
Committed(i) == {Genesis} \cup {parent[b] : b \in chain[i] \ {Genesis}}

\* The shapes of the two histories.
TypeOK ==
    /\ signed \in [Honest -> SUBSET (Block \ {Genesis})]
    /\ chain \in [Honest -> SUBSET Block]

\* Agreement: two honest validators never commit different blocks of one height,
\* although the blocks they hold uncommitted at one height may differ.
Agreement ==
    \A i, j \in Honest : \A b \in Committed(i), c \in Committed(j) :
        number[b] = number[c] => b = c

\* A block tree holds one block per height: insertQCBlock never opens a fork
\* inside one validator's tree.
OneBlockPerHeight ==
    \A i \in Honest : \A b, c \in chain[i] : number[b] = number[c] => b = c

\* Each signature of an honest validator vouches for the parent block.
SignedParentHeld ==
    \A i \in Honest : \A b \in signed[i] : parent[b] \in chain[i]

\* A tree is closed under parents and, above genesis, certified.
ChainCertified ==
    \A i \in Honest :
        /\ Genesis \in chain[i]
        /\ \A b \in chain[i] \ {Genesis} : parent[b] \in chain[i] /\ Certified(b)

\* The inductive invariant behind Agreement.
IInv == TypeOK /\ OneBlockPerHeight /\ SignedParentHeld /\ ChainCertified

\* What the engine hands to the worker is one ledger.
confirmedBlocks == [i \in Honest |-> Committed(i)]
ledgerBlocks == {Genesis} \cup UNION {Committed(i) : i \in Honest}

L == INSTANCE Ledger WITH ledger <- ledgerBlocks, confirmed <- confirmedBlocks

\* The hand-overs of committed blocks (tryCommitNewBlock, commitBlock) of all honest
\* validators are those of one ledger that is only ever appended to.
ImplementsLedger == L!LedgerSpec
=============================================================================
