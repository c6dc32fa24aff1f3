------------------------------ MODULE Staking ------------------------------
(***************************************************************************)
(* Staking, delegation and slashing (pos/plugin/staking_plugin.go and      *)
(* slashing_plugin.go, with the guards of                                  *)
(* ethereum/core/vm/staking_contract.go) over the restricting plans.       *)
(*                                                                         *)
(* A block runs its begin hooks, its transactions and its end hooks; the   *)
(* loops of the end hooks take a step per turn.  A transaction that fails  *)
(* changes nothing, so it is not a step.  Every transaction reads and      *)
(* writes the world state w: the fields of module Restricting and can (the *)
(* candidates), power (the keys of the ranking), items (what is to be done *)
(* with a candidate at the end of an epoch), rc (stakes per account) and   *)
(* del (the delegations).                                                  *)
(***************************************************************************)
EXTENDS Restricting

CONSTANTS
    Nodes,                  \* nodes that can be candidates
    Stakers,                \* accounts that may create a candidate
    NoOne,                  \* the owner of a candidate that does not exist
    EpochSize,              \* blocks of an epoch
    OperatingThreshold,     \* the least amount of an increase or a delegation
    UnStakeFreeze,          \* epochs before a released stake is paid
    ZeroProduceFreeze,      \* epochs before a locked candidate comes back
    SlashBlocksReward,      \* what a candidate loses for producing no block
    FractionDenominator,    \* a double sign costs 1/FractionDenominator of the
                            \* stake, and as much of that goes to the reporter
    MaxEndVoteEpoch,        \* the last epoch of the votes of a candidate (0: none)
    Balance,                \* first balance of every account
    Genesis,                \* the foundation's plans, one for each year
    YearEnd,                \* an epoch that ends a year
    Amounts,                \* amounts a transaction may name
    StakeThreshold,         \* the least stake at first
    Thresholds,             \* the least stakes governance may choose
    MaxTxs                  \* bound: transactions

ASSUME StakingAssumption ==
    /\ Stakers \subseteq Accounts /\ EpochSize \in Nat \ {0}
    /\ OperatingThreshold \in Nat /\ MaxEndVoteEpoch \in Nat
    /\ SlashBlocksReward \in Nat /\ FractionDenominator \in Nat \ {0}
    /\ Amounts \subseteq Nat \ {0} /\ Balance \in Nat
    /\ UnStakeFreeze \in 1..MaxEpoch /\ ZeroProduceFreeze \in 1..MaxEpoch
    /\ MaxEndVoteEpoch <= 2 * MaxEpoch
    /\ NoOne \notin Accounts

VARIABLES
    w,          \* the world state
    block,      \* number of the block being executed
    phase,      \* what the block does: "begin", "txs", "release" or "unstake"
    index,      \* turn of the loop of the phase
    verifiers,  \* the verifiers of the epoch
    threshold,  \* GovernStakeThreshold
    txs,        \* transactions so far
    irr,        \* the candidates in the state committed last (irreversible)
    failed      \* an assertion has failed, or a hook of a block

vars == <<w, block, phase, index, verifiers, threshold, txs, irr, failed>>

-----------------------------------------------------------------------------
(* Candidates *)

CalculateEpoch(b) == (b + EpochSize - 1) \div EpochSize

Epoch == CalculateEpoch(block)

IsEndOfEpoch == block % EpochSize = 0

\* An epoch is one round of consensus here, and its last block elects.
IsElection == block % EpochSize = 0

NoCandidate ==
    [on |-> FALSE, owner |-> NoOne, num |-> 0, epoch |-> 0, status |-> {}, shares |-> 0,
     released |-> 0, releasedHes |-> 0, plan |-> 0, planHes |-> 0]

IsValid(c) == "Invalided" \notin c.status

calcTotalAmount(c) == c.released + c.releasedHes + c.plan + c.planHes

\* Fault: money that has become effective stays in its hesitation period too.
lazyCalcAmount_HesKept(epoch, c) ==
    IF epoch = c.epoch THEN c
    ELSE [c EXCEPT !.released = @ + c.releasedHes, !.plan = @ + c.planHes]

\* Fault: the hesitation period lasts one epoch more.
lazyCalcAmount_Late(epoch, c) ==
    IF epoch - c.epoch < 2 THEN c
    ELSE [c EXCEPT !.released = @ + c.releasedHes, !.releasedHes = 0,
                   !.plan = @ + c.planHes, !.planHes = 0]

\* Money placed in an earlier epoch is past its hesitation period: it counts
\* as released or plan.  The same for candidates and delegations.
lazyCalcAmount(epoch, c) ==
    IF epoch = c.epoch THEN c
    ELSE [c EXCEPT !.released = @ + c.releasedHes, !.releasedHes = 0,
                   !.plan = @ + c.planHes, !.planHes = 0]

\* The key of TallyPowerKey that tells candidates apart.
PowerKey(n, c) == [shares |-> c.shares, num |-> c.num, node |-> n]

SetCandidateStore(u, n, c) == [u EXCEPT !.can[n] = c]

DelCanPowerStore(u, n) == [u EXCEPT !.power = @ \ {PowerKey(n, u.can[n])}]

SetCanPowerStore(u, n) == [u EXCEPT !.power = @ \union {PowerKey(n, u.can[n])}]

\* Fault: the old key is not deleted.
ChangeCandidate_KeyKept(u, n, c) == SetCanPowerStore(SetCandidateStore(u, n, c), n)

\* The ranked candidate n becomes c and takes its new place in the ranking.
ChangeCandidate(u, n, c) ==
    SetCanPowerStore(SetCandidateStore(DelCanPowerStore(u, n), n, c), n)

AddUnStakeItemStore(u, epoch, n, num, recovery) ==
    [u EXCEPT !.items[epoch] = Append(@, [node |-> n, num |-> num, recovery |-> recovery])]

addUnStakeItem(u, n, num) ==
    AddUnStakeItemStore(u, Max({Epoch + UnStakeFreeze, MaxEndVoteEpoch}), n, num, FALSE)

addRecoveryUnStakeItem(u, n, num) ==
    AddUnStakeItemStore(u, Epoch + ZeroProduceFreeze, n, num, TRUE)

SubAccountStakeRc(u, a) == [u EXCEPT !.rc[a] = IF @ = 0 THEN 0 ELSE @ - 1]

-----------------------------------------------------------------------------
(* Where the money of a stake or a delegation comes from and goes to *)

FreeVon == "FreeVon"
RestrictVon == "RestrictVon"
RestrictAndFreeVon == "RestrictAndFreeVon"

CanPay(a, typ, x) ==
    \/ typ = FreeVon /\ x <= w.bal[a]
    \/ typ = RestrictVon /\ CanAdvanceLockedFunds(w, a, x)
    \/ typ = RestrictAndFreeVon /\ CanMixAdvanceLockedFunds(w, a, x)

\* How much of x is locked money.
FromPlan(a, typ, x) ==
    CASE typ = FreeVon -> 0
      [] typ = RestrictVon -> x
      [] typ = RestrictAndFreeVon -> ForRestricting(w, a, x)

Pay(a, typ, x) ==
    CASE typ = FreeVon -> transferAmount(w, a, StakingContract, x)
      [] typ = RestrictVon -> AdvanceLockedFunds(w, a, x)
      [] typ = RestrictAndFreeVon -> MixAdvanceLockedFunds(w, a, x)

\* Money goes back the way it came.
Refund(u, a, released, plan) ==
    ReturnLockFunds(transferAmount(u, StakingContract, a, released), a, plan)

-----------------------------------------------------------------------------
(* Transactions of the staking contract *)

Tx ==
    /\ phase = "txs" /\ block <= MaxEpoch * EpochSize /\ txs < MaxTxs
    /\ txs' = txs + 1
    /\ UNCHANGED <<block, phase, index, threshold, irr>>

createStaking(n, a, typ, x) ==
    /\ Tx
    /\ ~ w.can[n].on /\ x >= threshold /\ CanPay(a, typ, x)
    /\ LET r == FromPlan(a, typ, x)
           c == [NoCandidate EXCEPT
                    !.on = TRUE, !.owner = a, !.num = block, !.epoch = Epoch,
                    !.shares = x, !.releasedHes = x - r, !.planHes = r]
       IN w' = [SetCanPowerStore(SetCandidateStore(Pay(a, typ, x), n, c), n) EXCEPT !.rc[a] = @ + 1]
    /\ UNCHANGED <<verifiers, failed>>

increaseStaking(n, typ, x) ==
    LET c == lazyCalcAmount(Epoch, w.can[n])
        r == FromPlan(c.owner, typ, x)
    IN /\ Tx
       /\ w.can[n].on /\ IsValid(w.can[n])
       /\ x >= OperatingThreshold /\ CanPay(c.owner, typ, x)
       /\ w' = ChangeCandidate(Pay(c.owner, typ, x), n,
                               [c EXCEPT !.epoch = Epoch, !.shares = @ + x,
                                         !.releasedHes = @ + (x - r), !.planHes = @ + r])
       /\ UNCHANGED <<verifiers, failed>>

\* Money in its hesitation period is returned at once, the rest after a
\* freeze; a candidate without the latter is deleted.
withdrewStaking(n) ==
    LET c == lazyCalcAmount(Epoch, w.can[n])
        stays == c.released + c.plan > 0
        left == [c EXCEPT !.epoch = Epoch, !.shares = 0, !.releasedHes = 0, !.planHes = 0,
                          !.status = @ \union {"Invalided", "Withdrew"}]
        paid == Refund(DelCanPowerStore(w, n), c.owner, c.releasedHes, c.planHes)
        noted == IF stays THEN addUnStakeItem(paid, n, c.num) ELSE paid
    IN /\ Tx
       /\ w.can[n].on /\ IsValid(w.can[n])
       /\ CanReturnLockFunds(w, c.owner, c.planHes)
       /\ w' = SubAccountStakeRc(
                   SetCandidateStore(noted, n, IF stays THEN left ELSE NoCandidate),
                   c.owner)
       /\ UNCHANGED <<verifiers, failed>>

NoDelegation == [epoch |-> 0, released |-> 0, releasedHes |-> 0, plan |-> 0, planHes |-> 0]

DelegationKeys == Accounts \X Nodes \X Nat

delegationOf(u, k) == IF k \in DOMAIN u.del THEN u.del[k] ELSE NoDelegation

SetDelegation(u, k, d) ==
    [u EXCEPT !.del = [j \in DOMAIN @ \union {k} |-> IF j = k THEN d ELSE @[j]]]

DelDelegateStore(u, k) == [u EXCEPT !.del = [j \in DOMAIN @ \ {k} |-> @[j]]]

delegate(a, n, typ, x) ==
    LET c == w.can[n]
        k == <<a, n, c.num>>
        d == lazyCalcAmount(Epoch, delegationOf(w, k))
        r == FromPlan(a, typ, x)
    IN /\ Tx
       /\ c.on /\ IsValid(c) /\ c.num # block
       /\ x >= OperatingThreshold /\ w.rc[a] = 0 /\ CanPay(a, typ, x)
       /\ w' = ChangeCandidate(
                   SetDelegation(Pay(a, typ, x), k,
                                 [d EXCEPT !.epoch = Epoch, !.releasedHes = @ + (x - r),
                                           !.planHes = @ + r]),
                   n, [c EXCEPT !.shares = @ + x])
       /\ UNCHANGED <<verifiers, failed>>

\* The parts of a refund of x: money in its hesitation period before the
\* rest, and of each the free money before the locked.
rufundDelegateFn(d, x) ==
    LET fh == Lesser(x, d.releasedHes)
        ph == Lesser(x - fh, d.planHes)
        f == Lesser(x - fh - ph, d.released)
        p == Lesser(x - fh - ph - f, d.plan)
    IN [free |-> fh + f, plan |-> ph + p,
        rest |-> [d EXCEPT !.releasedHes = @ - fh, !.planHes = @ - ph,
                           !.released = @ - f, !.plan = @ - p]]

\* What is left may not be less than the least amount: then all is withdrawn.
calcRealRefund(total, x) == IF total - x >= OperatingThreshold THEN x ELSE total

\* The shares of a valid candidate must be more than what is withdrawn.
withdrewDelegation(k, x) ==
    LET a == k[1]
        n == k[2]
        c == w.can[n]
        d == lazyCalcAmount(Epoch, w.del[k])
        total == calcTotalAmount(d)
        sub == calcRealRefund(total, x)
        part == rufundDelegateFn(d, sub)
        paid == Refund(w, a, part.free, part.plan)
        done == IF sub = total THEN DelDelegateStore(paid, k)
                ELSE SetDelegation(paid, k, [part.rest EXCEPT !.epoch = Epoch])
        mine == c.on /\ c.num = k[3]
        cut == [c EXCEPT !.shares = @ - sub]
    IN /\ Tx
       /\ x >= OperatingThreshold /\ x <= total
       /\ CanReturnLockFunds(w, a, part.plan)
       /\ failed' = (mine /\ IsValid(c) /\ c.shares <= sub)
       /\ w' = IF failed' THEN w
               ELSE IF mine /\ IsValid(c) THEN ChangeCandidate(done, n, cut)
               ELSE IF mine /\ c.shares > sub THEN SetCandidateStore(done, n, cut)
               ELSE done
       /\ UNCHANGED verifiers

createRestrictingPlan(from, a, plan) ==
    /\ Tx
    /\ CanAddRestrictingRecord(w, from, plan, Epoch)
    /\ w' = AddRestrictingRecord(w, from, a, plan, Epoch)
    /\ UNCHANGED <<verifiers, failed>>

-----------------------------------------------------------------------------
(* Slashing *)


\* The statuses under which toSlash takes the shares for cleaned already.
sharesHaveBeenClean(c) ==
    \/ {"Invalided", "LowRatio", "NotEnough"} \subseteq c.status
    \/ {"Invalided", "DuplicateSign"} \subseteq c.status
    \/ {"Invalided", "Withdrew"} \subseteq c.status

\* A candidate that is locked for a low ratio is not punished for it again.
punished(c, type) == type = "LowRatio" /\ "LowRatio" \in c.status

\* The part of a slash of x that comes from locked money: free money goes first.
slashedPlan(c, x) == x - Lesser(x, c.released)

\* Fault: the shares are not reduced.
slashBalance_SharesKept(c, x) ==
    [c EXCEPT !.released = @ - (x - slashedPlan(c, x)), !.plan = @ - slashedPlan(c, x)]

\* Candidate c without the x that is taken from its stake.
slashBalance(c, x) ==
    [c EXCEPT !.released = @ - (x - slashedPlan(c, x)),
              !.plan = @ - slashedPlan(c, x),
              !.shares = IF sharesHaveBeenClean(c) THEN @ ELSE @ - x]

\* What remains, c, is released: the node signed twice, or it is too little.
needReturnHes(c, type) == type = "DuplicateSign" \/ calcTotalAmount(c) < threshold

changeStatus(c, type) ==
    {"Invalided", type} \union (IF type = "LowRatio" /\ needReturnHes(c, type)
                                THEN {"NotEnough"} ELSE {})

\* What toSlash takes from c when it is told x.
slashed(c, type, x) == IF punished(c, type) THEN 0 ELSE x

\* Fault: the restricting plugin is not told.
takeSlashed_NoNotify(u, c, type, x, benefit) ==
    transferAmount(u, StakingContract, IF type = "DuplicateSign" THEN benefit ELSE RewardPool, x)

\* The balances and books after x is taken from candidate c.
takeSlashed(u, c, type, x, benefit) ==
    SlashingNotify(
        transferAmount(u, StakingContract,
                       IF type = "DuplicateSign" THEN benefit ELSE RewardPool, x),
        c.owner, slashedPlan(c, x))

\* Candidate n loses x to benefit; it is released or locked for a while.
toSlash(u, n, type, x, benefit) ==
    LET c == lazyCalcAmount(Epoch, u.can[n])
        y == slashed(c, type, x)
        cut == slashBalance(c, y)
        release == needReturnHes(cut, type)
        marked == [cut EXCEPT !.status = @ \union changeStatus(cut, type)]
        left == IF release
                THEN [marked EXCEPT !.shares = 0, !.releasedHes = 0, !.planHes = 0]
                ELSE marked
        taken == takeSlashed(DelCanPowerStore(u, n), c, type, y, benefit)
        paid == IF release THEN Refund(taken, c.owner, c.releasedHes, c.planHes) ELSE taken
        noted == IF ~ IsValid(c) THEN paid
                 ELSE IF release THEN addUnStakeItem(SubAccountStakeRc(paid, c.owner), n, c.num)
                 ELSE addRecoveryUnStakeItem(paid, n, c.num)
    IN SetCandidateStore(noted, n, left)

\* toSlash returns an error: more is to be taken than there is, or the
\* restricting plugin refuses.
SlashError(u, n, type, x) ==
    LET c == lazyCalcAmount(Epoch, u.can[n])
        y == slashed(c, type, x)
        p == slashedPlan(c, y)
    IN \/ x > c.released + c.plan
       \/ p > 0 /\ ~ CanSlashingNotify(u, c.owner, p)
       \/ /\ needReturnHes(slashBalance(c, y), type)
          /\ ~ CanReturnLockFunds(takeSlashed(u, c, type, y, RewardPool), c.owner, c.planHes)

\* toSlash finds fewer shares than it takes away.
SlashPanic(u, n, type, x) ==
    LET c == u.can[n]
    IN ~ sharesHaveBeenClean(c) /\ c.shares < slashed(c, type, x)

\* What a candidate can lose: money in its hesitation period cannot be taken.
calcCanTotalBalance(c) ==
    LET d == lazyCalcAmount(Epoch, c) IN d.released + d.plan

\* Node n has been elected since it became a candidate.
HasServed(n) == w.can[n].on /\ CalculateEpoch(w.can[n].num) < Epoch

\* A report that node n signed twice: one part of what is taken goes to the
\* reporter, then the other to the reward pool.
Slash(n, reporter) ==
    LET x == calcCanTotalBalance(w.can[n]) \div FractionDenominator
        toCaller == x \div FractionDenominator
        first == toSlash(w, n, "DuplicateSign", toCaller, reporter)
    IN /\ Tx
       /\ HasServed(n) /\ reporter # w.can[n].owner
       /\ ~ SlashError(w, n, "DuplicateSign", toCaller)
       /\ ~ SlashError(first, n, "DuplicateSign", x - toCaller)
       /\ failed' = (\/ SlashPanic(w, n, "DuplicateSign", toCaller)
                     \/ SlashPanic(first, n, "DuplicateSign", x - toCaller))
       /\ w' = IF failed' THEN w
               ELSE toSlash(first, n, "DuplicateSign", x - toCaller, RewardPool)
       /\ verifiers' = verifiers \ {n}

-----------------------------------------------------------------------------
(* Blocks *)

\* What a node that produced no block loses, from the state committed last.
checkSlashing(n) == Lesser(SlashBlocksReward, calcCanTotalBalance(irr[n]))

\* The begin hooks of a block when every node produces blocks, and when node n
\* did not.  Only what the preceding block did after its begin hooks may not be
\* committed yet: elections are many blocks apart.
BeginBlock ==
    /\ phase = "begin"
    /\ phase' = "txs" /\ irr' = w.can
    /\ UNCHANGED <<w, block, index, verifiers, threshold, txs, failed>>

BeginBlockSlash(n) ==
    /\ phase = "begin" /\ IsElection /\ HasServed(n) /\ irr[n].on
    /\ failed' = (\/ SlashError(w, n, "LowRatio", checkSlashing(n))
                  \/ SlashPanic(w, n, "LowRatio", checkSlashing(n)))
    /\ w' = IF failed' THEN w ELSE toSlash(w, n, "LowRatio", checkSlashing(n), RewardPool)
    /\ verifiers' = verifiers \ {n}
    /\ phase' = "txs" /\ irr' = w'.can
    /\ UNCHANGED <<block, index, threshold, txs>>

\* The preceding block is committed (only an election reads what it left).
Commit ==
    /\ phase = "begin" /\ IsElection /\ irr # w.can
    /\ irr' = w.can
    /\ UNCHANGED <<w, block, phase, index, verifiers, threshold, txs, failed>>

\* Governance changes the least stake between two blocks.
GovernStakeThreshold(t) ==
    /\ phase = "begin" /\ t # threshold
    /\ threshold' = t
    /\ UNCHANGED <<w, block, phase, index, verifiers, txs, irr, failed>>

EndBlock ==
    /\ phase = "txs" /\ block <= MaxEpoch * EpochSize
    /\ IF IsEndOfEpoch
       THEN phase' = "release" /\ index' = Len(w.queue[Epoch]) /\ block' = block
       ELSE phase' = "begin" /\ index' = index /\ block' = block + 1
    /\ UNCHANGED <<w, verifiers, threshold, txs, irr, failed>>

\* The restricting plugin's hook comes first: the last account of the queue
\* down to the first, then the foundation's plan.
ReleaseAccount ==
    /\ phase = "release" /\ index > 0
    /\ w' = releaseRestricting(w, w.queue[Epoch][index], Epoch)
    /\ index' = index - 1
    /\ UNCHANGED <<block, phase, verifiers, threshold, txs, irr, failed>>

ReleaseDone ==
    /\ phase = "release" /\ index = 0
    /\ w' = [IF Epoch = YearEnd THEN releaseGenesisRestrictingPlans(w) ELSE w
                EXCEPT !.queue[Epoch] = << >>]
    /\ phase' = "unstake" /\ index' = 1
    /\ UNCHANGED <<block, verifiers, threshold, txs, irr, failed>>

\* All of the stake is returned and the candidate deleted.
handleUnStake(n) ==
    LET c == lazyCalcAmount(Epoch, w.can[n])
        hes == Refund(w, c.owner, c.releasedHes + c.released, c.planHes)
    IN SetCandidateStore(ReturnLockFunds(hes, c.owner, c.plan), n, NoCandidate)

\* Fault: the release of a candidate that signed twice is not entered.
handleRecovery_NoItem(n) ==
    LET c == w.can[n]
    IN IF "DuplicateSign" \in c.status
       THEN SetCandidateStore(SubAccountStakeRc(w, c.owner), n,
                              [c EXCEPT !.status = @ \ {"LowRatio"}])
       ELSE SetCanPowerStore(SetCandidateStore(w, n, [c EXCEPT !.status = {}]), n)

\* Fault: its owner still counts as a staker.
handleRecovery_RcKept(n) ==
    LET c == w.can[n]
    IN IF "DuplicateSign" \in c.status
       THEN SetCandidateStore(addUnStakeItem(w, n, c.num), n,
                              [c EXCEPT !.status = @ \ {"LowRatio"}])
       ELSE SetCanPowerStore(SetCandidateStore(w, n, [c EXCEPT !.status = {}]), n)

\* A candidate that was locked is ranked again, unless it has signed twice in
\* the meantime: then its release begins.
handleRecovery(n) ==
    LET c == w.can[n]
    IN IF "DuplicateSign" \in c.status
       THEN SetCandidateStore(addUnStakeItem(SubAccountStakeRc(w, c.owner), n, c.num), n,
                              [c EXCEPT !.status = @ \ {"LowRatio"}])
       ELSE SetCanPowerStore(SetCandidateStore(w, n, [c EXCEPT !.status = {}]), n)

\* An item is for nothing when its candidate is gone, or was handled already.
HandleUnCandidateItem ==
    LET items == w.items[Epoch]
        item == items[index]
        c == w.can[item.node]
        stale == \/ ~ c.on \/ c.num # item.num
                 \/ \E i \in 1..(index - 1) : items[i].node = item.node /\ items[i].num = item.num
    IN /\ phase = "unstake" /\ index <= Len(items)
       /\ failed' = /\ ~ stale /\ ~ item.recovery
                    /\ ~ CanReturnLockFunds(w, c.owner, c.plan + c.planHes)
       /\ w' = IF stale \/ failed' THEN w
               ELSE IF item.recovery THEN handleRecovery(item.node)
               ELSE handleUnStake(item.node)
       /\ index' = index + 1
       /\ UNCHANGED <<block, phase, verifiers, threshold, txs, irr>>

\* All ranked candidates are elected: there are no more than maxvalidators.
ElectNextVerifierList ==
    /\ phase = "unstake" /\ index > Len(w.items[Epoch])
    /\ verifiers' = {k.node : k \in w.power} \intersect {n \in Nodes : w.can[n].on}
    /\ w' = [w EXCEPT !.items[Epoch] = << >>]
    /\ block' = block + 1 /\ phase' = "begin" /\ index' = 0
    /\ UNCHANGED <<threshold, txs, irr, failed>>

-----------------------------------------------------------------------------

Init ==
    /\ w = [bal |-> [h \in Accounts \union {StakingContract, RestrictingContract, RewardPool} |->
                        IF h \in Accounts THEN Balance
                        ELSE IF h = RestrictingContract THEN Total(Genesis) ELSE 0],
            info |-> [a \in Accounts |-> Absent],
            amount |-> [e \in Epochs |-> [a \in Accounts |-> 0]],
            queue |-> [e \in Epochs |-> << >>],
            genesis |-> Genesis,
            can |-> [n \in Nodes |-> NoCandidate],
            power |-> {},
            items |-> [e \in Epochs |-> << >>],
            rc |-> [a \in Accounts |-> 0],
            del |-> << >>]
    /\ block = 1 /\ phase = "begin" /\ index = 0
    /\ verifiers = {} /\ threshold = StakeThreshold
    /\ txs = 0 /\ irr = w.can /\ failed = FALSE

StakeTx ==
    \E n \in Nodes, x \in Amounts :
        \/ \E a \in Stakers, typ \in {FreeVon, RestrictVon, RestrictAndFreeVon} :
               createStaking(n, a, typ, x)
        \/ \E typ \in {FreeVon, RestrictVon} : increaseStaking(n, typ, x)

DelegateTx ==
    \E x \in Amounts :
        \/ \E a \in Accounts, n \in Nodes, typ \in {FreeVon, RestrictVon} : delegate(a, n, typ, x)
        \/ \E k \in DOMAIN w.del : withdrewDelegation(k, x)

OtherTx ==
    \/ \E n \in Nodes : withdrewStaking(n)
    \/ \E from, a \in Accounts, plan \in Plans : createRestrictingPlan(from, a, plan)
    \/ \E n \in Nodes, reporter \in Accounts : Slash(n, reporter)

Hooks ==
    \/ BeginBlock
    \/ \E n \in Nodes : BeginBlockSlash(n)
    \/ Commit
    \/ \E t \in Thresholds : GovernStakeThreshold(t)
    \/ EndBlock
    \/ ReleaseAccount
    \/ ReleaseDone
    \/ HandleUnCandidateItem
    \/ ElectNextVerifierList

Next == ~ failed /\ (StakeTx \/ DelegateTx \/ OtherTx \/ Hooks)

Spec == Init /\ [][Next]_vars

-----------------------------------------------------------------------------
(* Properties *)

Staked(n) == calcTotalAmount(w.can[n])

Delegated(keys) == MapThenSumSet(LAMBDA k : calcTotalAmount(w.del[k]), keys)

\* The delegations to the candidate that node n is now.
DelegationsOf(n) == {k \in DOMAIN w.del : k[2] = n /\ k[3] = w.can[n].num}

\* The staking contract holds exactly the stakes and delegations on record,
\* and the restricting contract exactly what is locked and not advanced, with
\* the foundation's plans: every refund, release and slash can be paid, and
\* no money is left behind without an owner.
FundsBacked ==
    /\ w.bal[StakingContract] =
           MapThenSumSet(Staked, Nodes) + Delegated(DOMAIN w.del)
    /\ w.bal[RestrictingContract] =
           MapThenSumSet(LAMBDA a : w.info[a].cache - w.info[a].advance, Accounts)
               + Total(w.genesis)

\* What the restricting plugin has advanced for an account is what the
\* account's stakes and delegations hold of locked money.  ReturnLockFunds and
\* SlashingNotify refuse anything else, and a refused refund fails the block.
AdvanceAccounted ==
    \A a \in Accounts :
        w.info[a].advance =
            MapThenSumSet(LAMBDA n : w.can[n].plan + w.can[n].planHes,
                          {n \in Nodes : w.can[n].owner = a})
            + MapThenSumSet(LAMBDA k : w.del[k].plan + w.del[k].planHes,
                            {k \in DOMAIN w.del : k[1] = a})

\* The books of the restricting plans are sound in every state.
PlansSound == BooksSound(w)

\* The ranking holds one key for each valid candidate, with its present
\* shares, and none for a candidate that is locked, released or deleted: the
\* key is computed from the shares, so a change that does not first delete the
\* old key leaves it in the ranking for ever.
PowerExact ==
    w.power = {PowerKey(n, w.can[n]) : n \in {m \in Nodes : w.can[m].on /\ IsValid(w.can[m])}}

\* A candidate that waits for its recovery.
Recovering(n) ==
    \E e \in Epochs : \E i \in 1..Len(w.items[e]) :
        /\ w.items[e][i] = [node |-> n, num |-> w.can[n].num, recovery |-> TRUE]
        /\ ~ (phase = "unstake" /\ e = Epoch /\ i < index)

\* The shares of a candidate that is ranked, or will be again, are its stake
\* and the delegations to it.
SharesExact ==
    \A n \in Nodes :
        w.can[n].on /\ (IsValid(w.can[n]) \/ (Recovering(n) /\ "DuplicateSign" \notin w.can[n].status))
        => w.can[n].shares = Staked(n) + Delegated(DelegationsOf(n))

\* Items that wait for the end of their epoch.
Pending(n) ==
    {p \in Epochs \X (1..(2 * MaxEpoch)) :
        /\ p[2] <= Len(w.items[p[1]])
        /\ w.items[p[1]][p[2]].node = n
        /\ ~ (phase = "unstake" /\ p[1] = Epoch /\ p[2] < index)}

\* A candidate that is not valid has exactly one item to come, for this very
\* candidate and not for an earlier one of the node; a valid one has none.  A
\* second item would release a candidate twice, none would keep its stake for
\* ever.
ItemsExact ==
    \A n \in Nodes :
        /\ w.can[n].on /\ ~ IsValid(w.can[n]) => Cardinality(Pending(n)) = 1
        /\ ~ w.can[n].on \/ IsValid(w.can[n]) => Pending(n) = {}
        /\ \A p \in Pending(n) :
               p[1] >= Epoch /\ w.items[p[1]][p[2]].num = w.can[n].num

\* An account counts as a staker, and may not delegate, exactly as long as it
\* has a candidate whose release has not begun.
RcExact ==
    \A a \in Accounts :
        w.rc[a] = Cardinality({n \in Nodes : w.can[n].owner = a
                                             /\ (IsValid(w.can[n]) \/ Recovering(n))})

\* A verifier of the epoch has a stake that can be taken until the epoch is
\* over, even after it asked for it back.
VerifiersAtStake ==
    phase \in {"begin", "txs"} =>
        \A n \in verifiers : w.can[n].on /\ calcCanTotalBalance(w.can[n]) > 0


=============================================================================
