--------------------------- MODULE DelegateReward ---------------------------
(***************************************************************************)
(* The rewards of those who delegate to a candidate                        *)
(* (pos/plugin/reward_plugin.go, pos/reward/reward_type.go and the parts   *)
(* of pos/plugin/staking_plugin.go that keep the amounts they are computed *)
(* from).                                                                  *)
(*                                                                         *)
(* While a candidate is a verifier a part of its rewards goes to a pool.   *)
(* At the end of the epoch the sum is recorded with the effective          *)
(* delegations of the epoch, and a delegation collects its shares of the   *)
(* records since its last change when it changes or when its owner asks.   *)
(* A record is deleted once all of its delegations have been counted off.  *)
(* The model has one candidate, from its creation to its deletion.         *)
(***************************************************************************)
EXTENDS Integers, Sequences, FiniteSets, FiniteSetsExt, SequencesExt

CONSTANTS
    Delegators,             \* accounts that delegate to the candidate
    Amounts,                \* amounts they name
    OperatingThreshold,     \* the least amount of a delegation
    PackageReward,          \* reward of a block
    StakingReward,          \* reward of a verifier at the end of an epoch
    RewardPer,              \* part of a reward for delegators, in 1/10000
    OtherRewards,           \* what the pool holds for other candidates' delegators
    MaxDelegated,           \* bound: money of a delegator
    MaxCurrent,             \* bound: rewards collected in an epoch
    MaxEpoch                \* bound: epochs

ASSUME RewardAssumption ==
    /\ Amounts \subseteq Nat \ {0}
    /\ {OperatingThreshold, PackageReward, StakingReward, OtherRewards, MaxEpoch} \subseteq Nat
    /\ RewardPer \in 1..10000

VARIABLES
    epoch,      \* the epoch
    can,        \* the candidate, as far as rewards go
    verifier,   \* the candidate is a verifier of the epoch
    del,        \* the delegations
    pers,       \* records of epochs whose reward is not all collected
    pool,       \* balance of the pool
    due,        \* history: a delegator's shares at the ends of epochs, less what
                \* it has been paid
    again       \* history: what slashes have returned that the end of an epoch
                \* had returned before

vars == <<epoch, can, verifier, del, pers, pool, due, again>>

-----------------------------------------------------------------------------
(* Delegations *)

\* A delegation that does not exist is one of nothing.
NoDelegation == [on |-> FALSE, epoch |-> 0, released |-> 0, hes |-> 0, income |-> 0]

\* A delegation made in an earlier epoch is effective.
lazyCalcDelegateAmount(d) ==
    IF d.epoch = epoch THEN d ELSE [d EXCEPT !.released = @ + d.hes, !.hes = 0]

\* Fault: what was in its hesitation period is forgotten.
lazyCalcNodeTotalDelegateAmount_Lost(e, c) ==
    IF e = c.epoch THEN c ELSE [c EXCEPT !.totalHes = 0]

lazyCalcNodeTotalDelegateAmount(e, c) ==
    IF e = c.epoch THEN c ELSE [c EXCEPT !.total = @ + c.totalHes, !.totalHes = 0]

\* A delegation's share of a record.
CalDelegateReward(per, amount) == (amount * per.reward) \div per.delegate

\* The records a delegation has not collected from.
GetDelegateRewardPerList(d) ==
    SelectSeq(pers, LAMBDA per : d.epoch <= per.epoch /\ per.epoch < epoch)

\* What of a delegation was effective in the epoch of a record.
Effective(d, per) == IF per.epoch = d.epoch THEN d.released ELSE d.released + d.hes

\* Fault: the last record is left out.
Income_ButLast(d) ==
    LET list == GetDelegateRewardPerList(d)
    IN FoldLeft(LAMBDA sum, per : sum + CalDelegateReward(per, Effective(d, per)), 0,
                IF list = << >> THEN list ELSE Front(list))

\* The shares calcDelegateIncome adds to the income of a delegation.
Income(d) ==
    FoldLeft(LAMBDA sum, per : sum + CalDelegateReward(per, Effective(d, per)), 0,
             GetDelegateRewardPerList(d))

\* The delegation after calcDelegateIncome.
calcDelegateIncome(d) ==
    IF ~ d.on \/ d.epoch = epoch THEN d
    ELSE [lazyCalcDelegateAmount(d) EXCEPT !.income = @ + Income(d)]

\* Fault: what has become effective since is not counted off.
DecreaseTotalAmount_Part(d, per) == [per EXCEPT !.left = @ - d.released]

\* A record after delegation d is counted off.
DecreaseTotalAmount(d, per) == [per EXCEPT !.left = @ - Effective(d, per)]

\* UpdateDelegateRewardPer: the records after d has collected from them.
UpdateDelegateRewardPer(d) ==
    IF ~ d.on \/ d.epoch = epoch THEN pers
    ELSE LET counted == [i \in DOMAIN pers |->
                            IF d.epoch <= pers[i].epoch /\ pers[i].epoch < epoch
                               /\ Effective(d, pers[i]) > 0
                            THEN DecreaseTotalAmount(d, pers[i])
                            ELSE pers[i]]
         IN SelectSeq(counted, LAMBDA per : per.left > 0)

-----------------------------------------------------------------------------
(* Transactions *)

Delegate(a, x) ==
    LET d == calcDelegateIncome(del[a])
        c == lazyCalcNodeTotalDelegateAmount(epoch, can)
    IN /\ can.status = "valid"
       /\ x >= OperatingThreshold /\ d.released + d.hes + x <= MaxDelegated
       /\ del' = [del EXCEPT ![a] = [d EXCEPT !.on = TRUE, !.hes = @ + x, !.epoch = epoch]]
       /\ pers' = UpdateDelegateRewardPer(del[a])
       /\ can' = [c EXCEPT !.totalHes = @ + x, !.epoch = epoch]
       /\ UNCHANGED <<epoch, verifier, pool, due, again>>

calcRealRefund(total, x) == IF total - x >= OperatingThreshold THEN x ELSE total

\* A delegation that is withdrawn to the last is deleted, and its income paid.
WithdrewDelegation(a, x) ==
    LET d == calcDelegateIncome(del[a])
        sub == calcRealRefund(d.released + d.hes, x)
        hes == IF sub <= d.hes THEN sub ELSE d.hes
        c == lazyCalcNodeTotalDelegateAmount(epoch, can)
        all == sub = d.released + d.hes
    IN /\ del[a].on
       /\ x >= OperatingThreshold /\ x <= d.released + d.hes
       /\ all => d.income <= pool
       /\ del' = [del EXCEPT ![a] =
                     IF all THEN NoDelegation
                     ELSE [d EXCEPT !.hes = @ - hes, !.released = @ - (sub - hes),
                                    !.epoch = epoch]]
       /\ pers' = UpdateDelegateRewardPer(del[a])
       /\ can' = IF can.status = "deleted" THEN can
                 ELSE [c EXCEPT !.totalHes = @ - hes, !.total = @ - (sub - hes)]
       /\ pool' = IF all THEN pool - d.income ELSE pool
       /\ due' = IF all THEN [due EXCEPT ![a] = @ - d.income] ELSE due
       /\ UNCHANGED <<epoch, verifier, again>>

\* The delegation is only stored when there is something to pay.
WithdrawDelegateReward(a) ==
    LET d == calcDelegateIncome(del[a])
    IN /\ del[a].on
       /\ d.income <= pool
       /\ pers' = UpdateDelegateRewardPer(del[a])
       /\ del' = IF d.income > 0
                 THEN [del EXCEPT ![a] = [d EXCEPT !.income = 0, !.epoch = epoch]]
                 ELSE del
       /\ pool' = pool - d.income
       /\ due' = [due EXCEPT ![a] = @ - d.income]
       /\ UNCHANGED <<epoch, can, verifier, again>>

\* The owner of the candidate withdraws its stake.
WithdrewStaking ==
    /\ can.status = "valid"
    /\ can' = [can EXCEPT !.status = "released"]
    /\ UNCHANGED <<epoch, verifier, del, pers, pool, due, again>>

-----------------------------------------------------------------------------
(* Blocks *)

ReturnDelegateReward(x) == IF x <= pool THEN pool - x ELSE pool

CalDelegateRewardAndNodeReward(reward) == (reward * RewardPer) \div 10000

toSlash(c, status) == [c EXCEPT !.status = status, !.current = 0]

\* A slashed candidate is locked or released, and no longer a verifier; what is
\* on record as collected for its delegators goes to the candidate.  A double
\* signature may be reported after the candidate was a verifier.
SlashCandidates(status) ==
    /\ can.status # "deleted"
    /\ can' = toSlash(can, IF can.status = "valid" THEN status ELSE can.status)
    /\ pool' = ReturnDelegateReward(can.current)
    /\ again' = IF verifier THEN again ELSE again + (pool - pool')
    /\ verifier' = FALSE
    /\ UNCHANGED <<epoch, del, pers, due>>

ShouldGiveDelegateReward == can.total > 0

AllocatePackageBlock ==
    LET x == CalDelegateRewardAndNodeReward(PackageReward)
    IN /\ verifier /\ ShouldGiveDelegateReward /\ can.current + x <= MaxCurrent
       /\ can' = [can EXCEPT !.current = @ + x]
       /\ pool' = pool + x
       /\ UNCHANGED <<epoch, verifier, del, pers, due, again>>

\* What the candidate's delegators get for this epoch.
EpochReward ==
    can.current + (IF ShouldGiveDelegateReward
                   THEN CalDelegateRewardAndNodeReward(StakingReward) ELSE 0)

\* The candidate after the end of the epoch, as HandleDelegatePerReward
\* leaves it: it is only stored when there was something to record.
HandleDelegatePerReward ==
    IF verifier /\ EpochReward > 0 /\ can.total > 0 THEN [can EXCEPT !.current = 0] ELSE can

\* Fault: what was collected and returned in an earlier epoch stays on record.
BeginBlock_NotCleaned(c) == lazyCalcNodeTotalDelegateAmount(epoch + 1, c)

\* BeginBlock of the first block of the next epoch, for its verifiers.
BeginBlock(c) ==
    [lazyCalcNodeTotalDelegateAmount(epoch + 1, c) EXCEPT !.current = 0]

\* The end hooks of the last block of an epoch and the begin hooks of the next
\* block: the reward of the epoch is recorded, or goes to the candidate when no
\* delegation is effective; the candidate is then in state status, and elected
\* or not.
EndEpoch(status, elected) ==
    LET r == EpochReward
        per == [epoch |-> epoch, left |-> can.total, delegate |-> can.total, reward |-> r]
        c == [HandleDelegatePerReward EXCEPT !.status = status]
        record == verifier /\ r > 0 /\ can.total > 0
    IN /\ epoch < MaxEpoch
       /\ \/ status = can.status
          \/ can.status = "locked" /\ status \in {"valid", "released"}
          \/ can.status = "released" /\ status = "deleted"
       /\ elected => status = "valid"
       /\ pers' = IF record THEN Append(pers, per) ELSE pers
       /\ pool' = IF ~ verifier THEN pool
                  ELSE IF record THEN pool + (r - can.current)
                  ELSE ReturnDelegateReward(can.current)
       /\ due' = IF ~ record THEN due
                 ELSE [a \in Delegators |->
                          due[a] + CalDelegateReward(per, lazyCalcDelegateAmount(del[a]).released)]
       /\ can' = IF elected THEN BeginBlock(c) ELSE c
       /\ verifier' = elected
       /\ epoch' = epoch + 1
       /\ UNCHANGED <<del, again>>

-----------------------------------------------------------------------------

Init ==
    /\ epoch = 1 /\ verifier = FALSE
    /\ can = [status |-> "valid", epoch |-> 0, total |-> 0, totalHes |-> 0, current |-> 0]
    /\ del = [a \in Delegators |-> NoDelegation]
    /\ pers = << >> /\ pool = OtherRewards
    /\ due = [a \in Delegators |-> 0] /\ again = 0

Next ==
    \/ \E a \in Delegators, x \in Amounts : Delegate(a, x) \/ WithdrewDelegation(a, x)
    \/ \E a \in Delegators : WithdrawDelegateReward(a)
    \/ WithdrewStaking
    \/ \E status \in {"locked", "released"} : SlashCandidates(status)
    \/ AllocatePackageBlock
    \/ \E status \in {"valid", "locked", "released", "deleted"}, elected \in BOOLEAN :
           EndEpoch(status, elected)

Spec == Init /\ [][Next]_vars

-----------------------------------------------------------------------------
(* Properties *)

\* The candidate's totals are the sums of the delegations, effective and in
\* their hesitation period, although each side leaves the hesitation period in
\* transactions of its own.
TotalsExact ==
    can.status # "deleted" =>
        LET c == lazyCalcNodeTotalDelegateAmount(epoch, can)
        IN /\ c.total = MapThenSumSet(LAMBDA a : lazyCalcDelegateAmount(del[a]).released, Delegators)
           /\ c.totalHes = MapThenSumSet(LAMBDA a : lazyCalcDelegateAmount(del[a]).hes, Delegators)

\* What is left of a record is exactly what those who have not collected from
\* it hold of the epoch's delegations: it is deleted neither early, which would
\* cost them their shares, nor never.
LeftExact ==
    \A i \in DOMAIN pers :
        pers[i].left = MapThenSumSet(LAMBDA a : Effective(del[a], pers[i]),
                                     {a \in Delegators : del[a].on /\ del[a].epoch <= pers[i].epoch})

\* What a delegator would be paid now.
Claimable(a) == calcDelegateIncome(del[a]).income

\* Whatever a delegator delegates, withdraws and collects in between, it gets
\* its share of each epoch, once.
PaidExactly == \A a \in Delegators : Claimable(a) = due[a]

\* The pool can pay all that delegators have earned, those of other candidates
\* included, and what is collected in this epoch.  It is short by no more than
\* what a slash returns of an amount that stayed on record after the end of an
\* epoch had returned it (HandleDelegatePerReward does not clear it then, toSlash
\* returns it again).
PoolSolvent ==
    pool + again >= OtherRewards + MapThenSumSet(Claimable, Delegators)
                        + (IF verifier THEN can.current ELSE 0)

=============================================================================
