---------------------------- MODULE Restricting ----------------------------
(***************************************************************************)
(* Restricting plans (pos/plugin/restricting_plugin.go): money locked for  *)
(* an account and released at the end of given epochs.  The owner may      *)
(* stake or delegate locked money before it is released: the plugin then   *)
(* advances it to the staking contract, and what cannot be released        *)
(* because it is staked is remembered and paid when it comes back.         *)
(*                                                                         *)
(* The operations map a world state, the record of what the execution of   *)
(* a block reads and writes, to the next one: transactions and the hooks   *)
(* of blocks call several of them one after the other (module Staking).    *)
(* The fields used here are bal (the balances), info (RestrictingInfo per  *)
(* account), amount (ReleaseAmount per epoch and account), queue           *)
(* (ReleaseAccount per epoch, in order of index) and genesis (the          *)
(* foundation's plans).  An operator named Can... is the condition under   *)
(* which the operation of that name returns no error; an error undoes the  *)
(* transaction.                                                            *)
(***************************************************************************)
EXTENDS Integers, Sequences, FiniteSets, FiniteSetsExt

CONSTANTS
    Accounts,               \* accounts of users
    Plans,                  \* merged plans: number of epochs ahead -> amount
    MaxEpoch                \* bound: epochs

StakingContract == "StakingContractAddr"
RestrictingContract == "RestrictingContractAddr"
RewardPool == "RewardManagerPoolAddr"

Epochs == 1..(2 * MaxEpoch)

Total(plan) == MapThenSumSet(LAMBDA o : plan[o], DOMAIN plan)

\* Amounts are natural numbers, a plan starts at 1 (the current epoch).
ASSUME PlansAssumption ==
    \A plan \in Plans : /\ Total(plan) \in Nat
                        /\ DOMAIN plan \subseteq Nat \ {0}
                        /\ \A o \in DOMAIN plan : plan[o] \in Nat \ {0}

ASSUME EpochAssumption == MaxEpoch \in Nat

\* The information of an account that has none.
Absent == [on |-> FALSE, need |-> 0, advance |-> 0, cache |-> 0, list |-> {}]

Infos == [on : BOOLEAN, need : Nat, advance : Nat, cache : Nat, list : SUBSET Epochs]

Lesser(x, y) == IF x <= y THEN x ELSE y

-----------------------------------------------------------------------------

transferAmount(w, from, to, x) ==
    [w EXCEPT !.bal = [[@ EXCEPT ![from] = @ - x] EXCEPT ![to] = @ + x]]

\* What is kept of an account's information: nothing when all of it is used up.
Stored(i) == IF i.advance = 0 /\ i.list = {} /\ i.cache = 0 THEN Absent ELSE i

CanAddRestrictingRecord(w, from, plan, epoch) ==
    /\ w.bal[from] >= Total(plan)
    /\ \A o \in DOMAIN plan : o + epoch - 1 \in Epochs

\* Fault: a new plan does not pay what the account is owed.
NeedReleasePaid_None(i, x) == 0

\* What of a new plan's x pays what an account with information i is owed.
NeedReleasePaid(i, x) == IF i.on THEN Lesser(i.need, x) ELSE 0

\* A new plan first pays what the account is owed; an account without
\* information gets new records even where an old release amount is left.
AddRestrictingRecord(w, from, a, plan, epoch) ==
    LET i == w.info[a]
        due == {o + epoch - 1 : o \in DOMAIN plan}
        old(e) == IF i.on THEN w.amount[e][a] ELSE 0
        fresh == {e \in due : old(e) = 0}
        paid == NeedReleasePaid(i, Total(plan))
        in == transferAmount(w, from, RestrictingContract, Total(plan))
    IN [transferAmount(in, RestrictingContract, a, paid) EXCEPT
           !.info[a] = [on |-> TRUE,
                        need |-> i.need - paid,
                        advance |-> i.advance,
                        cache |-> i.cache + (Total(plan) - paid),
                        list |-> i.list \union fresh],
           !.amount = [e \in Epochs |->
                          IF e \in due
                          THEN [@[e] EXCEPT ![a] = old(e) + plan[e - epoch + 1]]
                          ELSE @[e]],
           !.queue = [e \in Epochs |-> IF e \in fresh THEN Append(@[e], a) ELSE @[e]]]

CanAdvanceLockedFunds(w, a, x) ==
    w.info[a].on /\ x <= w.info[a].cache - w.info[a].advance

AdvanceLockedFunds(w, a, x) ==
    [transferAmount(w, RestrictingContract, StakingContract, x) EXCEPT
        !.info[a] = [w.info[a] EXCEPT !.advance = @ + x]]

\* How much of x MixAdvanceLockedFunds takes from the plans, the rest is free money.
ForRestricting(w, a, x) == Lesser(x, w.info[a].cache - w.info[a].advance)

CanMixAdvanceLockedFunds(w, a, x) ==
    x - ForRestricting(w, a, x) <= w.bal[a]

MixAdvanceLockedFunds(w, a, x) ==
    LET r == ForRestricting(w, a, x)
        free == transferAmount(w, a, StakingContract, x - r)
    IN IF w.info[a].on THEN AdvanceLockedFunds(free, a, r) ELSE free

CanReturnLockFunds(w, a, x) == x = 0 \/ (w.info[a].on /\ x <= w.info[a].advance)

ReturnLockFunds(w, a, x) ==
    LET i == w.info[a]
        paid == Lesser(i.need, x)
        back == transferAmount(w, StakingContract, RestrictingContract, x)
    IN IF x = 0 THEN w
       ELSE [transferAmount(back, RestrictingContract, a, paid) EXCEPT
                !.info[a] = Stored([i EXCEPT !.need = @ - paid,
                                             !.cache = @ - paid,
                                             !.advance = @ - x])]

CanSlashingNotify(w, a, x) ==
    w.info[a].on /\ (x = 0 \/ (w.info[a].advance > 0 /\ x <= w.info[a].advance))

SlashingNotify(w, a, x) ==
    IF x = 0 THEN w
    ELSE [w EXCEPT !.info[a] = Stored([w.info[a] EXCEPT !.advance = @ - x,
                                                           !.cache = @ - x])]

\* One turn of the loop of releaseRestricting, for account a in this epoch.
releaseRestricting(w, a, epoch) ==
    LET i == w.info[a]
        x == w.amount[epoch][a]
        canRelease == i.cache - i.advance
        paid == IF i.need > 0 THEN 0 ELSE Lesser(canRelease, x)
        j == [i EXCEPT !.need = @ + (x - paid), !.cache = @ - paid, !.list = @ \ {epoch}]
    IN IF ~ i.on THEN w
       ELSE [transferAmount(w, RestrictingContract, a, paid) EXCEPT
                !.info[a] = IF j.cache = 0 /\ (j.need = 0 \/ j.list = {})
                            THEN Absent ELSE j,
                !.amount[epoch][a] = 0]

\* At the end of a year the foundation's next plan goes to the reward pool.
releaseGenesisRestrictingPlans(w) ==
    IF w.genesis = << >> THEN w
    ELSE [transferAmount(w, RestrictingContract, RewardPool, Head(w.genesis)) EXCEPT
             !.genesis = Tail(@)]

-----------------------------------------------------------------------------
(* What the books of a world state always say about one account            *)

\* No more is advanced than the plans hold, so information is never dropped
\* while locked money is staked; money is owed only when all of it is
\* staked, as the comment in releaseRestricting says ("if NeedRelease>0,
\* CachePlanAmount = AdvanceAmount"); an account without information holds
\* and owes nothing.
BooksSound(w) ==
    \A a \in Accounts :
        LET i == w.info[a]
        IN /\ i \in Infos
           /\ i.advance <= i.cache
           /\ i.need > 0 => i.cache = i.advance
           /\ ~ i.on => i = Absent

=============================================================================
