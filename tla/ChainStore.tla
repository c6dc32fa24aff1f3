----------------------------- MODULE ChainStore -----------------------------
(***************************************************************************)
(* What the snapshot database promises its readers: the committed state is *)
(* always the state the decided chain gives at some height.  Committing    *)
(* moves it one height up, a restart may move it down, and the state of a  *)
(* height, once it has been committed, is never another one.  Layers, the  *)
(* write-ahead log and compaction do not appear.                           *)
(***************************************************************************)
EXTENDS Naturals, Sequences

CONSTANTS State, Empty

VARIABLES
    decided,    \* the states the decided chain gives at the heights 1, 2, ...
    top,        \* the height of the committed state
    state       \* the committed state

storeVars == <<decided, top, state>>

At(n) == IF n = 0 THEN Empty ELSE decided[n]

Init ==
    /\ decided = << >>
    /\ top = 0
    /\ state = Empty

\* One more block is decided, and with it the state of its height.
Decide ==
    /\ Len(decided') = Len(decided) + 1
    /\ decided' = Append(decided, decided'[Len(decided')])
    /\ decided'[Len(decided')] \in State
    /\ UNCHANGED <<top, state>>

\* The next height is committed.
Commit ==
    /\ top' = top + 1
    /\ top < Len(decided)
    /\ state' = At(top')
    /\ UNCHANGED decided

\* A restart comes back at a height that was committed before.
Restart ==
    /\ top' \in 0 .. top
    /\ state' = At(top')
    /\ UNCHANGED decided

Next == Decide \/ Commit \/ Restart

Spec == Init /\ [][Next]_storeVars
=============================================================================
