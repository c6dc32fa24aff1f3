------------------------- MODULE ChainConsensusProofs -------------------------
(***************************************************************************)
(* Proofs that ChainConsensus keeps its inductive invariant, agrees and    *)
(* implements Ledger, for every validator set and every tree of blocks.    *)
(***************************************************************************)
EXTENDS ChainConsensus, FiniteSetTheorems, TLAPS

-----------------------------------------------------------------------------
(* Quorums *)

\* Pbft.threshold is high enough: any two sets of threshold(n) validators out of n
\* share more validators than may be faulty.
LEMMA ThresholdArithmetic ==
    ASSUME NEW n \in Nat, n > 0
    PROVE  2 * threshold(n) - n > (n - 1) \div 3
  <1> DEFINE f == (n - 1) \div 3
  <1>1. f \in Int /\ 3 * f <= n - 1
    OBVIOUS
  <1> QED BY <1>1 DEF threshold

\* Two certificates have an honest signer in common.
LEMMA QuorumIntersection ==
    ASSUME NEW P \in Quorum, NEW Q \in Quorum
    PROVE  \E h \in Honest : h \in P /\ h \in Q
  <1> DEFINE n == Cardinality(Node)
  <1>1. /\ IsFiniteSet(Node) /\ IsFiniteSet(P) /\ IsFiniteSet(Q)
        /\ IsFiniteSet(P \cup Q) /\ IsFiniteSet(P \cap Q) /\ IsFiniteSet(Faulty)
    BY NodeAssumption, FS_Subset DEF Quorum
  <1>2. /\ n \in Nat /\ Cardinality(P) \in Nat /\ Cardinality(Q) \in Nat
        /\ Cardinality(P \cap Q) \in Nat /\ Cardinality(P \cup Q) \in Nat
        /\ Cardinality(Faulty) \in Nat
    BY <1>1, FS_CardinalityType
  <1>3. n > 0
    BY <1>1, <1>2, NodeAssumption, FS_EmptySet
  <1>4. Cardinality(P \cup Q) = Cardinality(P) + Cardinality(Q) - Cardinality(P \cap Q)
    BY <1>1, FS_Union
  <1>5. Cardinality(P \cup Q) <= n
    BY <1>1, FS_Subset DEF Quorum
  <1>6. Cardinality(P) >= threshold(n) /\ Cardinality(Q) >= threshold(n)
    BY DEF Quorum
  <1>7. threshold(n) \in Int
    BY <1>2 DEF threshold
  <1>8. Cardinality(P \cap Q) > (n - 1) \div 3
    <2>1. 2 * threshold(n) - n > (n - 1) \div 3
      BY <1>2, <1>3, ThresholdArithmetic
    <2>2. (n - 1) \div 3 \in Int
      BY <1>2
    <2> HIDE DEF n
    <2> QED BY <1>2, <1>4, <1>5, <1>6, <1>7, <2>1, <2>2
  <1>9. ~ (P \cap Q \subseteq Faulty)
    <2>1. SUFFICES ASSUME P \cap Q \subseteq Faulty PROVE FALSE
      OBVIOUS
    <2>2. Cardinality(P \cap Q) <= Cardinality(Faulty)
      BY <1>1, <2>1, FS_Subset
    <2>3. (n - 1) \div 3 \in Int
      BY <1>2
    <2>4. Cardinality(Faulty) <= (n - 1) \div 3
      BY NodeAssumption
    <2> HIDE DEF n
    <2> QED BY <1>2, <1>8, <2>2, <2>3, <2>4
  <1> QED BY <1>9 DEF Quorum, Honest

\* Two certified blocks were both signed by one honest validator.
LEMMA CertifiedIntersection ==
    ASSUME NEW b, NEW c, Certified(b), Certified(c)
    PROVE  \E h \in Honest : b \in signed[h] /\ c \in signed[h]
  BY QuorumIntersection DEF Certified
-----------------------------------------------------------------------------
(* The inductive invariant *)

\* What was certified stays certified: signatures are never taken back.
LEMMA CertifiedStable ==
    ASSUME TypeOK, [Next]_vars, NEW b, Certified(b)
    PROVE  Certified(b)'
  <1>1. \A h \in Honest : signed[h] \subseteq signed'[h]
    BY DEF TypeOK, Next, Sign, Insert, vars
  <1> QED BY <1>1 DEF Certified

\* Trees only grow.
LEMMA ChainGrows ==
    ASSUME TypeOK, [Next]_vars, NEW i \in Honest
    PROVE  chain[i] \subseteq chain'[i]
  BY DEF TypeOK, Next, Sign, Insert, vars

\* An engine that has just started (Pbft.Start) holds genesis alone and has signed nothing.
LEMMA InitIInv == Init => IInv
  BY BlockAssumption
  DEF Init, IInv, TypeOK, OneBlockPerHeight, SignedParentHeld, ChainCertified, Honest

\* Neither a vote (trySendPrepareVote, trySendPreCommit) nor an insertion (insertQCBlock)
\* breaks the invariant.
LEMMA NextIInv == IInv /\ [Next]_vars => IInv'
  <1> SUFFICES ASSUME IInv, [Next]_vars PROVE IInv'
    OBVIOUS
  <1> USE DEF IInv
  <1>1. TypeOK'
    BY BlockAssumption DEF TypeOK, Next, Sign, Insert, vars
  <1>2. OneBlockPerHeight'
    <2>1. ASSUME NEW i \in Honest, NEW b \in Block \ {Genesis}, Insert(i, b)
          PROVE  OneBlockPerHeight'
      <3> SUFFICES ASSUME NEW j \in Honest, NEW c \in chain'[j], NEW d \in chain'[j],
                          number[c] = number[d]
                   PROVE  c = d
        BY DEF OneBlockPerHeight
      <3>1. CASE j = i
        <4>1. chain'[i] = chain[i] \cup {b}
          BY <2>1 DEF Insert, TypeOK
        <4>2. \A e \in chain[i] : number[e] < number[b] /\ number[e] \in Nat
          BY <2>1, BlockAssumption DEF Insert, TypeOK
        <4>3. number[b] \in Nat
          BY BlockAssumption
        <4> QED BY <3>1, <4>1, <4>2, <4>3 DEF OneBlockPerHeight
      <3>2. CASE j # i
        BY <2>1, <3>2 DEF Insert, TypeOK, OneBlockPerHeight
      <3> QED BY <3>1, <3>2
    <2>2. ASSUME UNCHANGED chain PROVE OneBlockPerHeight'
      BY <2>2 DEF OneBlockPerHeight
    <2> QED BY <2>1, <2>2 DEF Next, Sign, vars
  <1>3. SignedParentHeld'
    <2>1. ASSUME NEW i \in Honest, NEW b \in Block \ {Genesis}, Sign(i, b)
          PROVE  SignedParentHeld'
      BY <2>1 DEF Sign, TypeOK, SignedParentHeld
    <2>2. ASSUME UNCHANGED signed PROVE SignedParentHeld'
      BY <2>2, ChainGrows DEF SignedParentHeld
    <2> QED BY <2>1, <2>2 DEF Next, Insert, vars
  <1>4. ChainCertified'
    <2> SUFFICES ASSUME NEW j \in Honest
                 PROVE  /\ Genesis \in chain'[j]
                        /\ \A c \in chain'[j] \ {Genesis} :
                              parent[c] \in chain'[j] /\ Certified(c)'
      BY DEF ChainCertified
    <2>1. Genesis \in chain'[j]
      BY ChainGrows DEF ChainCertified
    <2>2. ASSUME NEW c \in chain'[j] \ {Genesis}
          PROVE  parent[c] \in chain'[j] /\ Certified(c)'
      <3>1. CASE c \in chain[j]
        BY <3>1, ChainGrows, CertifiedStable DEF ChainCertified
      <3>2. CASE c \notin chain[j]
        <4>1. PICK i \in Honest, b \in Block \ {Genesis} : Insert(i, b)
          BY <2>2, <3>2 DEF Next, Sign, vars
        <4>2. i = j /\ b = c
          BY <2>2, <3>2, <4>1 DEF Insert, TypeOK
        <4> QED BY <4>1, <4>2, ChainGrows, CertifiedStable DEF Insert
      <3> QED BY <3>1, <3>2
    <2> QED BY <2>1, <2>2
  <1> QED BY <1>1, <1>2, <1>3, <1>4

\* The histories keep their shape, every signature vouches for a parent held in the
\* signer's tree, and every tree is a certified path.
THEOREM Invariance == Spec => []IInv
  <1> QED BY InitIInv, NextIInv, PTL DEF Spec

\* Votes and block trees keep their types: genesis is never voted for.
THEOREM TypeCorrect == Spec => []TypeOK
  <1>1. IInv => TypeOK
    BY DEF IInv
  <1> QED BY <1>1, Invariance, PTL

-----------------------------------------------------------------------------
(* Agreement *)

\* The parents of two certified blocks of one height are the same block.
LEMMA CertifiedParents ==
    ASSUME IInv, NEW b \in Block \ {Genesis}, NEW c \in Block \ {Genesis},
           Certified(b), Certified(c), number[parent[b]] = number[parent[c]]
    PROVE  parent[b] = parent[c]
  <1>1. PICK h \in Honest : b \in signed[h] /\ c \in signed[h]
    BY CertifiedIntersection
  <1>2. parent[b] \in chain[h] /\ parent[c] \in chain[h]
    BY <1>1 DEF IInv, SignedParentHeld
  <1> QED BY <1>2 DEF IInv, OneBlockPerHeight

\* Two blocks of one height that tryCommitNewBlock has committed at two honest validators
\* are parents of certified blocks, hence one block.
LEMMA CommittedAgree ==
    ASSUME IInv, NEW i \in Honest, NEW j \in Honest,
           NEW b \in Committed(i), NEW c \in Committed(j), number[b] = number[c]
    PROVE  b = c
  <1>1. ASSUME NEW k \in Honest, NEW x \in Committed(k)
        PROVE  \/ x = Genesis
               \/ \E y \in Block \ {Genesis} : x = parent[y] /\ Certified(y)
    BY <1>1 DEF Committed, IInv, ChainCertified, TypeOK
  <1>2. ASSUME NEW x \in Block, number[x] = 0 PROVE x = Genesis
    BY <1>2, BlockAssumption
  <1>3. b \in Block /\ c \in Block
    BY <1>1, BlockAssumption
  <1>4. CASE b = Genesis \/ c = Genesis
    BY <1>2, <1>3, <1>4, BlockAssumption
  <1>5. CASE b # Genesis /\ c # Genesis
    BY <1>1, <1>5, CertifiedParents
  <1> QED BY <1>4, <1>5

\* The invariant of votes and trees implies that commits agree.
LEMMA InvariantAgrees == IInv => Agreement
  BY CommittedAgree DEF Agreement

\* The same for the state after a step.
LEMMA CommittedAgreeNext ==
    ASSUME IInv', NEW i \in Honest, NEW j \in Honest,
           NEW b \in Committed(i)', NEW c \in Committed(j)', number[b] = number[c]
    PROVE  b = c
  <1>1. Agreement'
    BY InvariantAgrees, PTL
  <1> QED BY <1>1 DEF Agreement

\* No two honest validators ever commit different blocks of one height.
THEOREM Agrees == Spec => []Agreement
  <1> QED BY InvariantAgrees, Invariance, PTL
-----------------------------------------------------------------------------
(* One ledger *)

\* Inserting b commits parent[b] and nothing else.
LEMMA InsertCommits ==
    ASSUME IInv, NEW i \in Honest, NEW b \in Block \ {Genesis}, Insert(i, b)
    PROVE  /\ confirmedBlocks' = [confirmedBlocks EXCEPT ![i] = @ \cup {parent[b]}]
           /\ ledgerBlocks' = ledgerBlocks \cup {parent[b]}
  <1>1. chain'[i] = chain[i] \cup {b} /\ \A j \in Honest \ {i} : chain'[j] = chain[j]
    BY DEF Insert, IInv, TypeOK
  <1>2. Committed(i)' = Committed(i) \cup {parent[b]}
    BY <1>1 DEF Committed
  <1>3. \A j \in Honest \ {i} : Committed(j)' = Committed(j)
    BY <1>1 DEF Committed
  <1> HIDE DEF Committed
  <1>4. confirmedBlocks' = [confirmedBlocks EXCEPT ![i] = @ \cup {parent[b]}]
    BY <1>2, <1>3 DEF confirmedBlocks
  <1>5. ledgerBlocks' = ledgerBlocks \cup {parent[b]}
    BY <1>2, <1>3 DEF ledgerBlocks
  <1> QED BY <1>4, <1>5

\* A block that is inserted on top of p commits p as the ledger's next block.
LEMMA InsertRefines ==
    ASSUME IInv, IInv', NEW i \in Honest, NEW b \in Block \ {Genesis}, Insert(i, b)
    PROVE  [L!LedgerNext]_(L!ledgerVars)
  <1> DEFINE p == parent[b]
  <1>1. p \in chain[i] /\ p \in Block
    BY BlockAssumption DEF Insert
  <1>2. CASE p \in Committed(i)
    <2>1. p \in ledgerBlocks /\ p \in confirmedBlocks[i]
      BY <1>2 DEF confirmedBlocks, ledgerBlocks
    <2>2. confirmedBlocks = [k \in Honest |-> confirmedBlocks[k]]
      BY DEF confirmedBlocks
    <2>3. confirmedBlocks' = confirmedBlocks /\ ledgerBlocks' = ledgerBlocks
      BY <2>1, <2>2, InsertCommits
    <2> QED BY <2>3 DEF L!ledgerVars
  <1>3. CASE p \notin Committed(i)
    <2>1. p # Genesis
      BY <1>3 DEF Committed
    <2>2. parent[p] \in Committed(i) /\ parent[p] \in ledgerBlocks
      BY <1>1, <2>1 DEF Committed, ledgerBlocks
    <2>3. ASSUME NEW c \in ledgerBlocks \ {Genesis}, parent[c] = parent[p]
          PROVE  p \in ledgerBlocks
      <3>1. PICK k \in Honest : c \in Committed(k)
        BY <2>3 DEF ledgerBlocks
      <3>2. c \in Block
        BY <3>1, BlockAssumption DEF Committed, IInv, TypeOK
      <3>3. number[c] = number[p]
        BY <1>1, <2>1, <2>3, <3>2, BlockAssumption
      <3>4. c \in Committed(k)' /\ p \in Committed(i)'
        BY <3>1, NextIInv DEF Committed, Insert, IInv, TypeOK
      <3>5. c = p
        BY <3>2, <3>3, <3>4, CommittedAgreeNext
      <3> QED BY <3>5, <2>3
    <2>4. L!Commit(i, p)
      BY <1>1, <1>3, <2>1, <2>2, <2>3, InsertCommits
      DEF L!Commit, L!Appendable, confirmedBlocks
    <2> QED BY <1>1, <2>4 DEF L!LedgerNext
  <1> QED BY <1>2, <1>3

\* The engine implements the single append-only ledger.
THEOREM RefinesLedger == Spec => ImplementsLedger
  <1>1. Init => L!LedgerInit
    BY DEF Init, L!LedgerInit, confirmedBlocks, ledgerBlocks, Committed
  <1>2. IInv /\ IInv' /\ [Next]_vars => [L!LedgerNext]_(L!ledgerVars)
    <2> SUFFICES ASSUME IInv, IInv', [Next]_vars
                 PROVE  [L!LedgerNext]_(L!ledgerVars)
      OBVIOUS
    <2>1. ASSUME UNCHANGED chain PROVE UNCHANGED L!ledgerVars
      BY <2>1 DEF L!ledgerVars, confirmedBlocks, ledgerBlocks, Committed
    <2> QED BY <2>1, InsertRefines DEF Next, Sign, vars
  <1> QED BY <1>1, <1>2, Invariance, PTL DEF Spec, ImplementsLedger, L!LedgerSpec
=============================================================================
