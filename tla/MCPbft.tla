-------------------------------- MODULE MCPbft --------------------------------
(* Small block trees for Pbft. *)
EXTENDS Pbft, TLC

CONSTANTS g, a1, b1, a2, b2

\* a1 and b1 are rivals at height 1, a2 extends a1 and b2 extends b1.
TreeParent == [b \in Block \ {g} |-> CASE b = a2 -> a1 [] b = b2 -> b1 [] OTHER -> g]
TreeNumber == [b \in Block |-> CASE b = g -> 0 [] b \in {a1, b1} -> 1 [] OTHER -> 2]

\* receiveLoop serves what is there: messages that keep being resent, results of the executor,
\* sealed blocks and the timer.  Execution is prompt: no validator leaves a view with an
\* execution pending.
Prompt(i) == Handle(i) /\ (node'[i].view # node[i].view => node[i].executing = {})
PromptSpec == Init /\ [][\E i \in Honest : Prompt(i)]_vars /\ \A i \in Honest : WF_vars(Prompt(i))
=============================================================================
