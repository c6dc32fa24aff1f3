-------------------------------- MODULE Ledger --------------------------------
(***************************************************************************)
(* What the consensus engine promises the rest of the node: one ledger.    *)
(*                                                                         *)
(* Every honest validator hands committed blocks to the worker, one height *)
(* after the other (Pbft.tryCommitNewBlock -> Pbft.commitBlock).  Taken    *)
(* together these hand-overs must look as if there were a single ledger    *)
(* that is only ever appended to, from which each validator reads a prefix.*)
(***************************************************************************)

CONSTANTS
    Honest,     \* the validators that follow the protocol
    Block,      \* blocks, identified by hash
    Genesis,    \* the genesis block
    parent      \* parent[b] for b # Genesis

VARIABLES
    ledger,     \* the blocks some honest validator has committed
    confirmed   \* confirmed[i]: the blocks validator i has committed

ledgerVars == <<ledger, confirmed>>

LedgerInit ==
    /\ ledger = {Genesis}
    /\ confirmed = [i \in Honest |-> {Genesis}]

\* b may join the ledger: its parent is there and has no other child there.
Appendable(b) ==
    /\ b # Genesis
    /\ parent[b] \in ledger
    /\ \A c \in ledger \ {Genesis} : parent[c] # parent[b]

\* Validator i commits b, the next block after those it has committed: either
\* the ledger holds b already or b is what the ledger is extended with.
Commit(i, b) ==
    /\ b \in Block \ confirmed[i]
    /\ b # Genesis
    /\ parent[b] \in confirmed[i]
    /\ b \in ledger \/ Appendable(b)
    /\ ledger' = ledger \cup {b}
    /\ confirmed' = [confirmed EXCEPT ![i] = @ \cup {b}]

LedgerNext == \E i \in Honest, b \in Block : Commit(i, b)

LedgerSpec == LedgerInit /\ [][LedgerNext]_ledgerVars
=============================================================================
