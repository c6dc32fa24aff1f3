--------------------------- MODULE StakingProofs ---------------------------
(***************************************************************************)
(* The books of the restricting plans are sound whatever staking,          *)
(* delegation, slashing and the ends of epochs do with locked money        *)
(* (module Staking): proofs for all values of the constants.               *)
(*                                                                         *)
(* The operations of the plugins are functions on world states, so the     *)
(* lemmas follow them: first what changes one field, then one lemma per    *)
(* operation of the restricting plugin, one per operation of the staking   *)
(* plugin, and one per action.                                             *)
(***************************************************************************)
EXTENDS Staking, TLAPS

\* A world state is a record with these fields.
IsWorld(u) ==
    u = [bal |-> u.bal, info |-> u.info, amount |-> u.amount, queue |-> u.queue,
         genesis |-> u.genesis, can |-> u.can, power |-> u.power, items |-> u.items,
         rc |-> u.rc, del |-> u.del]

\* What BooksSound says of one account's RestrictingInfo.
InfoSound(i) ==
    /\ i \in Infos
    /\ i.advance <= i.cache
    /\ i.need > 0 => i.cache = i.advance
    /\ ~ i.on => i = Absent

\* The books of the restricting plans, with the types their arithmetic needs.
PlansOK(u) ==
    /\ IsWorld(u)
    /\ u.info \in [Accounts -> Infos]
    /\ \A a \in Accounts : InfoSound(u.info[a])
    /\ u.amount \in [Epochs -> [Accounts -> Nat]]

\* A step from u to v leaves candidates, delegations and items alone.
SameStakes(u, v) == v.can = u.can /\ v.del = u.del /\ v.items = u.items

\* A step from u to v leaves the books of the plans alone.
SameBooks(u, v) == IsWorld(v) /\ v.info = u.info /\ v.amount = u.amount

-----------------------------------------------------------------------------
(* Fields of a world state *)

\* A new value of one field leaves the other fields alone: the balances,
LEMMA BalUpdate ==
    ASSUME NEW u, IsWorld(u), NEW g
    PROVE  SameBooks(u, [u EXCEPT !.bal = g]) /\ SameStakes(u, [u EXCEPT !.bal = g])
<1>1. u = [bal |-> u.bal, info |-> u.info, amount |-> u.amount, queue |-> u.queue,
           genesis |-> u.genesis, can |-> u.can, power |-> u.power, items |-> u.items,
           rc |-> u.rc, del |-> u.del]
  BY DEF IsWorld
<1>2. [u EXCEPT !.bal = g] =
          [bal |-> g, info |-> u.info, amount |-> u.amount, queue |-> u.queue,
           genesis |-> u.genesis, can |-> u.can, power |-> u.power, items |-> u.items,
           rc |-> u.rc, del |-> u.del]
  BY <1>1
<1> QED BY <1>2 DEF IsWorld, SameBooks, SameStakes

\* the accounts' RestrictingInfo,
LEMMA InfoUpdate ==
    ASSUME NEW u, IsWorld(u), NEW g
    PROVE  /\ IsWorld([u EXCEPT !.info = g]) /\ SameStakes(u, [u EXCEPT !.info = g])
           /\ [u EXCEPT !.info = g].info = g /\ [u EXCEPT !.info = g].amount = u.amount
<1>1. u = [bal |-> u.bal, info |-> u.info, amount |-> u.amount, queue |-> u.queue,
           genesis |-> u.genesis, can |-> u.can, power |-> u.power, items |-> u.items,
           rc |-> u.rc, del |-> u.del]
  BY DEF IsWorld
<1>2. [u EXCEPT !.info = g] =
          [bal |-> u.bal, info |-> g, amount |-> u.amount, queue |-> u.queue,
           genesis |-> u.genesis, can |-> u.can, power |-> u.power, items |-> u.items,
           rc |-> u.rc, del |-> u.del]
  BY <1>1
<1> QED BY <1>2 DEF IsWorld, SameBooks, SameStakes

\* the release amounts,
LEMMA AmountUpdate ==
    ASSUME NEW u, IsWorld(u), NEW g
    PROVE  /\ IsWorld([u EXCEPT !.amount = g]) /\ SameStakes(u, [u EXCEPT !.amount = g])
           /\ [u EXCEPT !.amount = g].amount = g /\ [u EXCEPT !.amount = g].info = u.info
<1>1. u = [bal |-> u.bal, info |-> u.info, amount |-> u.amount, queue |-> u.queue,
           genesis |-> u.genesis, can |-> u.can, power |-> u.power, items |-> u.items,
           rc |-> u.rc, del |-> u.del]
  BY DEF IsWorld
<1>2. [u EXCEPT !.amount = g] =
          [bal |-> u.bal, info |-> u.info, amount |-> g, queue |-> u.queue,
           genesis |-> u.genesis, can |-> u.can, power |-> u.power, items |-> u.items,
           rc |-> u.rc, del |-> u.del]
  BY <1>1
<1> QED BY <1>2 DEF IsWorld, SameBooks, SameStakes

\* the release accounts of the epochs,
LEMMA QueueUpdate ==
    ASSUME NEW u, IsWorld(u), NEW g
    PROVE  SameBooks(u, [u EXCEPT !.queue = g]) /\ SameStakes(u, [u EXCEPT !.queue = g])
<1>1. u = [bal |-> u.bal, info |-> u.info, amount |-> u.amount, queue |-> u.queue,
           genesis |-> u.genesis, can |-> u.can, power |-> u.power, items |-> u.items,
           rc |-> u.rc, del |-> u.del]
  BY DEF IsWorld
<1>2. [u EXCEPT !.queue = g] =
          [bal |-> u.bal, info |-> u.info, amount |-> u.amount, queue |-> g,
           genesis |-> u.genesis, can |-> u.can, power |-> u.power, items |-> u.items,
           rc |-> u.rc, del |-> u.del]
  BY <1>1
<1> QED BY <1>2 DEF IsWorld, SameBooks, SameStakes

\* the foundation's plans,
LEMMA GenesisUpdate ==
    ASSUME NEW u, IsWorld(u), NEW g
    PROVE  SameBooks(u, [u EXCEPT !.genesis = g]) /\ SameStakes(u, [u EXCEPT !.genesis = g])
<1>1. u = [bal |-> u.bal, info |-> u.info, amount |-> u.amount, queue |-> u.queue,
           genesis |-> u.genesis, can |-> u.can, power |-> u.power, items |-> u.items,
           rc |-> u.rc, del |-> u.del]
  BY DEF IsWorld
<1>2. [u EXCEPT !.genesis = g] =
          [bal |-> u.bal, info |-> u.info, amount |-> u.amount, queue |-> u.queue,
           genesis |-> g, can |-> u.can, power |-> u.power, items |-> u.items,
           rc |-> u.rc, del |-> u.del]
  BY <1>1
<1> QED BY <1>2 DEF IsWorld, SameBooks, SameStakes

\* the candidates,
LEMMA CanUpdate ==
    ASSUME NEW u, IsWorld(u), NEW g
    PROVE  /\ SameBooks(u, [u EXCEPT !.can = g]) /\ [u EXCEPT !.can = g].can = g
           /\ [u EXCEPT !.can = g].del = u.del /\ [u EXCEPT !.can = g].items = u.items
<1>1. u = [bal |-> u.bal, info |-> u.info, amount |-> u.amount, queue |-> u.queue,
           genesis |-> u.genesis, can |-> u.can, power |-> u.power, items |-> u.items,
           rc |-> u.rc, del |-> u.del]
  BY DEF IsWorld
<1>2. [u EXCEPT !.can = g] =
          [bal |-> u.bal, info |-> u.info, amount |-> u.amount, queue |-> u.queue,
           genesis |-> u.genesis, can |-> g, power |-> u.power, items |-> u.items,
           rc |-> u.rc, del |-> u.del]
  BY <1>1
<1> QED BY <1>2 DEF IsWorld, SameBooks, SameStakes

\* the ranking,
LEMMA PowerUpdate ==
    ASSUME NEW u, IsWorld(u), NEW g
    PROVE  SameBooks(u, [u EXCEPT !.power = g]) /\ SameStakes(u, [u EXCEPT !.power = g])
<1>1. u = [bal |-> u.bal, info |-> u.info, amount |-> u.amount, queue |-> u.queue,
           genesis |-> u.genesis, can |-> u.can, power |-> u.power, items |-> u.items,
           rc |-> u.rc, del |-> u.del]
  BY DEF IsWorld
<1>2. [u EXCEPT !.power = g] =
          [bal |-> u.bal, info |-> u.info, amount |-> u.amount, queue |-> u.queue,
           genesis |-> u.genesis, can |-> u.can, power |-> g, items |-> u.items,
           rc |-> u.rc, del |-> u.del]
  BY <1>1
<1> QED BY <1>2 DEF IsWorld, SameBooks, SameStakes

\* the items of the epochs,
LEMMA ItemsUpdate ==
    ASSUME NEW u, IsWorld(u), NEW g
    PROVE  /\ SameBooks(u, [u EXCEPT !.items = g]) /\ [u EXCEPT !.items = g].items = g
           /\ [u EXCEPT !.items = g].can = u.can /\ [u EXCEPT !.items = g].del = u.del
<1>1. u = [bal |-> u.bal, info |-> u.info, amount |-> u.amount, queue |-> u.queue,
           genesis |-> u.genesis, can |-> u.can, power |-> u.power, items |-> u.items,
           rc |-> u.rc, del |-> u.del]
  BY DEF IsWorld
<1>2. [u EXCEPT !.items = g] =
          [bal |-> u.bal, info |-> u.info, amount |-> u.amount, queue |-> u.queue,
           genesis |-> u.genesis, can |-> u.can, power |-> u.power, items |-> g,
           rc |-> u.rc, del |-> u.del]
  BY <1>1
<1> QED BY <1>2 DEF IsWorld, SameBooks, SameStakes

\* the stakes per account,
LEMMA RcUpdate ==
    ASSUME NEW u, IsWorld(u), NEW g
    PROVE  SameBooks(u, [u EXCEPT !.rc = g]) /\ SameStakes(u, [u EXCEPT !.rc = g])
<1>1. u = [bal |-> u.bal, info |-> u.info, amount |-> u.amount, queue |-> u.queue,
           genesis |-> u.genesis, can |-> u.can, power |-> u.power, items |-> u.items,
           rc |-> u.rc, del |-> u.del]
  BY DEF IsWorld
<1>2. [u EXCEPT !.rc = g] =
          [bal |-> u.bal, info |-> u.info, amount |-> u.amount, queue |-> u.queue,
           genesis |-> u.genesis, can |-> u.can, power |-> u.power, items |-> u.items,
           rc |-> g, del |-> u.del]
  BY <1>1
<1> QED BY <1>2 DEF IsWorld, SameBooks, SameStakes

\* and the delegations.
LEMMA DelUpdate ==
    ASSUME NEW u, IsWorld(u), NEW g
    PROVE  /\ SameBooks(u, [u EXCEPT !.del = g]) /\ [u EXCEPT !.del = g].del = g
           /\ [u EXCEPT !.del = g].can = u.can /\ [u EXCEPT !.del = g].items = u.items
<1>1. u = [bal |-> u.bal, info |-> u.info, amount |-> u.amount, queue |-> u.queue,
           genesis |-> u.genesis, can |-> u.can, power |-> u.power, items |-> u.items,
           rc |-> u.rc, del |-> u.del]
  BY DEF IsWorld
<1>2. [u EXCEPT !.del = g] =
          [bal |-> u.bal, info |-> u.info, amount |-> u.amount, queue |-> u.queue,
           genesis |-> u.genesis, can |-> u.can, power |-> u.power, items |-> u.items,
           rc |-> u.rc, del |-> g]
  BY <1>1
<1> QED BY <1>2 DEF IsWorld, SameBooks, SameStakes

\* transferAmount changes nothing but balances.
LEMMA TransferKeeps ==
    ASSUME NEW u, NEW from, NEW to, NEW x, IsWorld(u)
    PROVE  /\ SameBooks(u, transferAmount(u, from, to, x))
           /\ SameStakes(u, transferAmount(u, from, to, x))
<1>1. PICK b : transferAmount(u, from, to, x) = [u EXCEPT !.bal = b]
  BY Zenon DEF transferAmount
<1> QED BY <1>1, BalUpdate

\* Sound information may be stored for any account.
LEMMA SetInfo ==
    ASSUME NEW u, PlansOK(u), NEW a, NEW i, a \in Accounts => InfoSound(i)
    PROVE  /\ PlansOK([u EXCEPT !.info[a] = i])
           /\ SameStakes(u, [u EXCEPT !.info[a] = i])
           /\ [u EXCEPT !.info[a] = i].info = [u.info EXCEPT ![a] = i]
           /\ [u EXCEPT !.info[a] = i].amount = u.amount
<1> DEFINE f == [u.info EXCEPT ![a] = i]
           v == [u EXCEPT !.info[a] = i]
<1>1. v = [u EXCEPT !.info = f]
  OBVIOUS
<1>2. f \in [Accounts -> Infos] /\ \A b \in Accounts : InfoSound(f[b])
  BY Zenon DEF PlansOK, InfoSound
<1>3. IsWorld(u)
  BY DEF PlansOK
<1> HIDE DEF f, v
<1>4. IsWorld(v) /\ SameStakes(u, v) /\ v.info = f /\ v.amount = u.amount
  BY <1>1, <1>3, InfoUpdate
<1>5. PlansOK(v)
  BY <1>2, <1>3, <1>4 DEF PlansOK
<1> QED BY <1>4, <1>5 DEF f, v

\* The record SlashingNotify computes, field by field,
LEMMA SlashedInfo ==
    ASSUME NEW i \in Infos, NEW x
    PROVE  [i EXCEPT !.advance = @ - x, !.cache = @ - x] =
               [on |-> i.on, need |-> i.need, advance |-> i.advance - x, cache |-> i.cache - x,
                list |-> i.list]
<1> DEFINE j1 == [i EXCEPT !.advance = i.advance - x]
           j2 == [j1 EXCEPT !.cache = i.cache - x]
<1>1. i = [on |-> i.on, need |-> i.need, advance |-> i.advance, cache |-> i.cache,
           list |-> i.list]
  BY DEF Infos
<1>2. [i EXCEPT !.advance = @ - x, !.cache = @ - x] = j2
  OBVIOUS
<1>3. j1 = [on |-> i.on, need |-> i.need, advance |-> i.advance - x, cache |-> i.cache,
           list |-> i.list]
  BY <1>1
<1> HIDE DEF j1
<1>4. j2 = [on |-> i.on, need |-> i.need, advance |-> i.advance - x, cache |-> i.cache - x,
           list |-> i.list]
  BY <1>3
<1> HIDE DEF j2
<1> QED BY <1>2, <1>4

\* the one ReturnLockFunds computes,
LEMMA ReturnedInfo ==
    ASSUME NEW i \in Infos, NEW x, NEW y
    PROVE  [i EXCEPT !.need = @ - y, !.cache = @ - y, !.advance = @ - x] =
               [on |-> i.on, need |-> i.need - y, advance |-> i.advance - x, cache |-> i.cache - y,
                list |-> i.list]
<1> DEFINE j1 == [i EXCEPT !.need = i.need - y]
           j2 == [j1 EXCEPT !.cache = i.cache - y]
           j3 == [j2 EXCEPT !.advance = i.advance - x]
<1>1. i = [on |-> i.on, need |-> i.need, advance |-> i.advance, cache |-> i.cache,
           list |-> i.list]
  BY DEF Infos
<1>2. [i EXCEPT !.need = @ - y, !.cache = @ - y, !.advance = @ - x] = j3
  OBVIOUS
<1>3. j1 = [on |-> i.on, need |-> i.need - y, advance |-> i.advance, cache |-> i.cache,
           list |-> i.list]
  BY <1>1
<1> HIDE DEF j1
<1>4. j2 = [on |-> i.on, need |-> i.need - y, advance |-> i.advance, cache |-> i.cache - y,
           list |-> i.list]
  BY <1>3
<1> HIDE DEF j2
<1>5. j3 = [on |-> i.on, need |-> i.need - y, advance |-> i.advance - x, cache |-> i.cache - y,
           list |-> i.list]
  BY <1>4
<1> HIDE DEF j3
<1> QED BY <1>2, <1>5

\* and the one releaseRestricting computes.
LEMMA ReleasedInfo ==
    ASSUME NEW i \in Infos, NEW x, NEW y, NEW e
    PROVE  [i EXCEPT !.need = @ + x, !.cache = @ - y, !.list = @ \ e] =
               [on |-> i.on, need |-> i.need + x, advance |-> i.advance, cache |-> i.cache - y,
                list |-> i.list \ e]
<1> DEFINE j1 == [i EXCEPT !.need = i.need + x]
           j2 == [j1 EXCEPT !.cache = i.cache - y]
           j3 == [j2 EXCEPT !.list = i.list \ e]
<1>1. i = [on |-> i.on, need |-> i.need, advance |-> i.advance, cache |-> i.cache,
           list |-> i.list]
  BY DEF Infos
<1>2. [i EXCEPT !.need = @ + x, !.cache = @ - y, !.list = @ \ e] = j3
  OBVIOUS
<1>3. j1 = [on |-> i.on, need |-> i.need + x, advance |-> i.advance, cache |-> i.cache,
           list |-> i.list]
  BY <1>1
<1> HIDE DEF j1
<1>4. j2 = [on |-> i.on, need |-> i.need + x, advance |-> i.advance, cache |-> i.cache - y,
           list |-> i.list]
  BY <1>3
<1> HIDE DEF j2
<1>5. j3 = [on |-> i.on, need |-> i.need + x, advance |-> i.advance, cache |-> i.cache - y,
           list |-> i.list \ e]
  BY <1>4
<1> HIDE DEF j3
<1> QED BY <1>2, <1>5

-----------------------------------------------------------------------------
(* Operations of the restricting plugin *)

\* Sound books that are left alone stay sound.
LEMMA BooksKept ==
    ASSUME NEW u, NEW v, PlansOK(u), SameBooks(u, v)
    PROVE  PlansOK(v)
BY DEF PlansOK, SameBooks

\* AdvanceLockedFunds advances no more than the plans still hold.
LEMMA AdvanceKeeps ==
    ASSUME NEW u, PlansOK(u), NEW a \in Accounts, NEW x \in Nat, CanAdvanceLockedFunds(u, a, x)
    PROVE  PlansOK(AdvanceLockedFunds(u, a, x)) /\ SameStakes(u, AdvanceLockedFunds(u, a, x))
<1> DEFINE t == transferAmount(u, RestrictingContract, StakingContract, x)
           i == [u.info[a] EXCEPT !.advance = @ + x]
<1>1. IsWorld(u)
  BY DEF PlansOK
<1>2. SameBooks(u, t) /\ SameStakes(u, t) /\ PlansOK(t)
  BY <1>1, TransferKeeps, BooksKept
<1>3. InfoSound(u.info[a])
  BY DEF PlansOK
<1>4. InfoSound(i)
  BY <1>3 DEF InfoSound, Infos, CanAdvanceLockedFunds, Absent
<1>5. AdvanceLockedFunds(u, a, x) = [t EXCEPT !.info[a] = i]
  BY DEF AdvanceLockedFunds
<1> HIDE DEF t, i
<1> QED BY <1>2, <1>4, <1>5, SetInfo DEF SameStakes

\* MixAdvanceLockedFunds takes no more from the plans than they hold, and no
\* more than it is asked for.
LEMMA MixAdvanceKeeps ==
    ASSUME NEW u, PlansOK(u), NEW a \in Accounts, NEW x \in Nat
    PROVE  /\ ForRestricting(u, a, x) \in 0..x
           /\ PlansOK(MixAdvanceLockedFunds(u, a, x))
           /\ SameStakes(u, MixAdvanceLockedFunds(u, a, x))
<1> DEFINE r == ForRestricting(u, a, x)
           t == transferAmount(u, a, StakingContract, x - r)
<1>1. IsWorld(u) /\ InfoSound(u.info[a])
  BY DEF PlansOK
<1>2. r \in 0..x /\ r <= u.info[a].cache - u.info[a].advance
  BY <1>1 DEF ForRestricting, Lesser, InfoSound, Infos
<1>3. SameBooks(u, t) /\ SameStakes(u, t) /\ PlansOK(t)
  BY <1>1, TransferKeeps, BooksKept
<1>4. MixAdvanceLockedFunds(u, a, x) = IF u.info[a].on THEN AdvanceLockedFunds(t, a, r) ELSE t
  BY DEF MixAdvanceLockedFunds
<1> HIDE DEF r, t
<1>5. CASE u.info[a].on
  <2>1. CanAdvanceLockedFunds(t, a, r)
    BY <1>2, <1>3, <1>5 DEF CanAdvanceLockedFunds, SameBooks
  <2>2. PlansOK(AdvanceLockedFunds(t, a, r)) /\ SameStakes(t, AdvanceLockedFunds(t, a, r))
    BY <1>2, <1>3, <2>1, AdvanceKeeps
  <2> QED BY <1>2, <1>3, <1>4, <1>5, <2>2 DEF r, SameStakes
<1>6. CASE ~ u.info[a].on
  BY <1>2, <1>3, <1>4, <1>6 DEF r, SameStakes
<1> QED BY <1>5, <1>6

\* Dropping information that is used up keeps it sound.
LEMMA StoredSound ==
    ASSUME NEW i, InfoSound(i)
    PROVE  InfoSound(Stored(i))
BY DEF InfoSound, Stored, Absent, Infos

\* ReturnLockFunds pays what is owed before it unlocks anything, and of x + y
\* that can be returned, y still can be once x was.
LEMMA ReturnKeeps ==
    ASSUME NEW u, PlansOK(u), NEW a, NEW x \in Nat, NEW y \in Nat,
           a \in Accounts => CanReturnLockFunds(u, a, x)
    PROVE  /\ PlansOK(ReturnLockFunds(u, a, x))
           /\ SameStakes(u, ReturnLockFunds(u, a, x))
           /\ a \in Accounts /\ CanReturnLockFunds(u, a, x + y)
                  => CanReturnLockFunds(ReturnLockFunds(u, a, x), a, y)
<1>1. CASE x = 0
  BY <1>1 DEF ReturnLockFunds, SameStakes
<1>2. CASE x # 0
  <2> DEFINE i == u.info[a]
             paid == Lesser(i.need, x)
             j == [i EXCEPT !.need = @ - paid, !.cache = @ - paid, !.advance = @ - x]
             s == transferAmount(u, StakingContract, RestrictingContract, x)
             t == transferAmount(s, RestrictingContract, a, paid)
             v == ReturnLockFunds(u, a, x)
  <2>1. IsWorld(u) /\ (a \in Accounts => InfoSound(i) /\ CanReturnLockFunds(u, a, x))
    BY DEF PlansOK
  <2>2. SameBooks(u, s) /\ SameStakes(u, s) /\ PlansOK(s)
    BY <2>1, TransferKeeps, BooksKept
  <2>3. IsWorld(s)
    BY <2>2 DEF SameBooks
  <2>4. SameBooks(s, t) /\ SameStakes(s, t) /\ PlansOK(t)
    BY <2>2, <2>3, TransferKeeps, BooksKept
  <2>5. ASSUME a \in Accounts PROVE InfoSound(j)
    <3>1. /\ i.on /\ i.need \in Nat /\ i.advance \in Nat /\ i.cache \in Nat
          /\ i.list \in SUBSET Epochs /\ x <= i.advance /\ i.advance <= i.cache
          /\ i.need > 0 => i.cache = i.advance
          /\ i = [on |-> i.on, need |-> i.need, advance |-> i.advance, cache |-> i.cache,
                  list |-> i.list]
      BY <1>2, <2>1, <2>5 DEF InfoSound, Infos, CanReturnLockFunds
    <3> HIDE DEF i, paid
    <3>2. j = [on |-> i.on, need |-> i.need - paid, advance |-> i.advance - x,
               cache |-> i.cache - paid, list |-> i.list]
      <4>1. i \in Infos
        BY <2>1, <2>5 DEF InfoSound
      <4> QED BY <4>1, ReturnedInfo, Zenon
    <3> HIDE DEF j
    <3> QED BY <3>1, <3>2 DEF InfoSound, Infos, Lesser, paid
  <2>6. v = [t EXCEPT !.info[a] = Stored(j)]
    BY <1>2 DEF ReturnLockFunds
  <2>7. a \in Accounts /\ CanReturnLockFunds(u, a, x + y)
            => y = 0 \/ (Stored(j).on /\ y <= Stored(j).advance)
    BY <1>2, <2>1 DEF InfoSound, Infos, CanReturnLockFunds, Stored, Absent
  <2>8. a \in DOMAIN u.info <=> a \in Accounts
    BY DEF PlansOK
  <2> HIDE DEF j, s, t, v
  <2>9. PlansOK(v) /\ SameStakes(t, v) /\ v.info = [t.info EXCEPT ![a] = Stored(j)]
    BY <2>4, <2>5, <2>6, SetInfo, StoredSound
  <2>10. v.info = [u.info EXCEPT ![a] = Stored(j)]
    BY <2>2, <2>4, <2>9 DEF SameBooks
  <2>11. a \in Accounts /\ CanReturnLockFunds(u, a, x + y) => CanReturnLockFunds(v, a, y)
    BY <2>7, <2>8, <2>10 DEF CanReturnLockFunds
  <2> QED BY <2>2, <2>4, <2>9, <2>11 DEF SameStakes, v
<1> QED BY <1>1, <1>2

\* The accounts' information after SlashingNotify.
NotifiedInfo(f, a, x) ==
    IF x = 0 THEN f
    ELSE [f EXCEPT ![a] = Stored([f[a] EXCEPT !.advance = @ - x, !.cache = @ - x])]

\* SlashingNotify reduces what is locked and what is advanced alike.
LEMMA SlashingKeeps ==
    ASSUME NEW u, PlansOK(u), NEW a \in Accounts, NEW x \in Nat,
           x = 0 \/ CanSlashingNotify(u, a, x)
    PROVE  /\ PlansOK(SlashingNotify(u, a, x))
           /\ SameStakes(u, SlashingNotify(u, a, x))
           /\ SlashingNotify(u, a, x).info = NotifiedInfo(u.info, a, x)
<1>1. CASE x = 0
  BY <1>1 DEF SlashingNotify, SameStakes, NotifiedInfo
<1>2. CASE x # 0
  <2> DEFINE j == [u.info[a] EXCEPT !.advance = @ - x, !.cache = @ - x]
             v == SlashingNotify(u, a, x)
  <2>1. InfoSound(u.info[a])
    BY DEF PlansOK
  <2>2. InfoSound(j)
    <3> DEFINE i == u.info[a]
    <3>1. /\ i.on /\ i.need \in Nat /\ i.advance \in Nat /\ i.cache \in Nat
          /\ i.list \in SUBSET Epochs /\ x <= i.advance /\ i.advance <= i.cache
          /\ i.need > 0 => i.cache = i.advance
          /\ i = [on |-> i.on, need |-> i.need, advance |-> i.advance, cache |-> i.cache,
                  list |-> i.list]
      BY <1>2, <2>1 DEF InfoSound, Infos, CanSlashingNotify
    <3>2. j = [on |-> i.on, need |-> i.need, advance |-> i.advance - x,
               cache |-> i.cache - x, list |-> i.list]
      BY <2>1, SlashedInfo, Zenon DEF InfoSound
    <3> HIDE DEF i, j
    <3> QED BY <3>1, <3>2 DEF InfoSound, Infos
  <2>3. v = [u EXCEPT !.info[a] = Stored(j)]
    BY <1>2 DEF SlashingNotify
  <2> HIDE DEF j, v
  <2>4. PlansOK(v) /\ SameStakes(u, v) /\ v.info = [u.info EXCEPT ![a] = Stored(j)]
    BY <2>2, <2>3, SetInfo, StoredSound
  <2> QED BY <1>2, <2>4 DEF NotifiedInfo, j, v
<1> QED BY <1>1, <1>2

\* New release amounts keep the books sound,
LEMMA SetAmount ==
    ASSUME NEW u, PlansOK(u), NEW f \in [Epochs -> [Accounts -> Nat]]
    PROVE  /\ PlansOK([u EXCEPT !.amount = f])
           /\ SameStakes(u, [u EXCEPT !.amount = f])
<1>1. IsWorld(u)
  BY DEF PlansOK
<1> DEFINE v == [u EXCEPT !.amount = f]
<1>2. IsWorld(v) /\ SameStakes(u, v) /\ v.amount = f /\ v.info = u.info
  BY <1>1, AmountUpdate
<1> HIDE DEF v
<1>3. PlansOK(v)
  BY <1>2 DEF PlansOK
<1> QED BY <1>2, <1>3 DEF v

\* and so do new release accounts.
LEMMA SetQueue ==
    ASSUME NEW u, PlansOK(u), NEW f
    PROVE  PlansOK([u EXCEPT !.queue = f]) /\ SameStakes(u, [u EXCEPT !.queue = f])
<1>1. IsWorld(u)
  BY DEF PlansOK
<1> QED BY <1>1, QueueUpdate, BooksKept

\* releaseRestricting owes an account something only when all that is left of
\* its plans is staked.
LEMMA ReleaseKeeps ==
    ASSUME NEW u, PlansOK(u), NEW a, NEW epoch \in Epochs
    PROVE  /\ PlansOK(releaseRestricting(u, a, epoch))
           /\ SameStakes(u, releaseRestricting(u, a, epoch))
<1>1. CASE ~ u.info[a].on
  BY <1>1 DEF releaseRestricting, SameStakes
<1>2. CASE u.info[a].on
  <2> DEFINE i == u.info[a]
             x == u.amount[epoch][a]
             paid == IF i.need > 0 THEN 0 ELSE Lesser(i.cache - i.advance, x)
             j == [i EXCEPT !.need = @ + (x - paid), !.cache = @ - paid, !.list = @ \ {epoch}]
             k == IF j.cache = 0 /\ (j.need = 0 \/ j.list = {}) THEN Absent ELSE j
             s == transferAmount(u, RestrictingContract, a, paid)
             t == [s EXCEPT !.info[a] = k]
             f == [t.amount EXCEPT ![epoch][a] = 0]
             v == [t EXCEPT !.amount = f]
  <2>1. IsWorld(u) /\ u.amount \in [Epochs -> [Accounts -> Nat]]
    BY DEF PlansOK
  <2>2. releaseRestricting(u, a, epoch) = v
    BY <1>2 DEF releaseRestricting
  <2>3. ASSUME a \in Accounts PROVE InfoSound(k)
    <3>1. InfoSound(i) /\ x \in Nat
      BY <2>1, <2>3 DEF PlansOK
    <3>2. /\ i \in Infos /\ i.need \in Nat /\ i.advance \in Nat /\ i.cache \in Nat
          /\ i.list \in SUBSET Epochs /\ i.advance <= i.cache
          /\ i.need > 0 => i.cache = i.advance
      BY <3>1 DEF InfoSound, Infos
    <3> HIDE DEF i, x, paid
    <3>3. j = [on |-> i.on, need |-> i.need + (x - paid), advance |-> i.advance,
               cache |-> i.cache - paid, list |-> i.list \ {epoch}]
      BY <3>2, ReleasedInfo, Zenon
    <3>4. /\ paid \in Nat /\ x - paid \in Nat /\ paid <= i.cache - i.advance
          /\ i.need > 0 => paid = 0
          /\ i.need = 0 /\ x - paid > 0 => paid = i.cache - i.advance
      BY <3>1, <3>2 DEF paid, Lesser
    <3>5. i.on
      BY <1>2 DEF i
    <3> HIDE DEF j
    <3>6. InfoSound(j)
      <4>1. /\ i.on \in BOOLEAN /\ i.need + (x - paid) \in Nat /\ i.cache - paid \in Nat
            /\ i.list \ {epoch} \in SUBSET Epochs
        BY <3>2, <3>4 DEF Infos
      <4>2. i.advance <= i.cache - paid /\ (i.need + (x - paid) > 0 => i.cache - paid = i.advance)
        BY <3>2, <3>4
      <4>3. j \in Infos
        BY <3>2, <3>3, <4>1 DEF Infos
      <4> QED BY <3>3, <3>5, <4>2, <4>3 DEF InfoSound
    <3>7. InfoSound(Absent)
      BY DEF InfoSound, Infos, Absent
    <3> QED BY <3>6, <3>7
  <2> HIDE DEF k, paid
  <2>4. SameBooks(u, s) /\ SameStakes(u, s) /\ PlansOK(s)
    BY <2>1, TransferKeeps, BooksKept
  <2> HIDE DEF s
  <2>5. PlansOK(t) /\ SameStakes(s, t) /\ t.amount = s.amount
    <3>1. a \in Accounts => InfoSound(k)
      BY <2>3
    <3>2. PlansOK(s)
      BY <2>4
    <3> QED BY <3>1, <3>2, SetInfo
  <2> HIDE DEF t
  <2>6. f \in [Epochs -> [Accounts -> Nat]]
    BY <2>1, <2>4, <2>5, Zenon DEF SameBooks
  <2> HIDE DEF f
  <2>7. PlansOK(v) /\ SameStakes(t, v)
    BY <2>5, <2>6, SetAmount
  <2> HIDE DEF v
  <2> QED BY <2>2, <2>4, <2>5, <2>7 DEF SameStakes
<1> QED BY <1>1, <1>2

\* AddRestrictingRecord locks new money only when nothing is owed any more.
LEMMA AddRecordKeeps ==
    ASSUME NEW u, PlansOK(u), NEW from, NEW a \in Accounts, NEW plan \in Plans,
           NEW epoch \in Int, CanAddRestrictingRecord(u, from, plan, epoch)
    PROVE  /\ PlansOK(AddRestrictingRecord(u, from, a, plan, epoch))
           /\ SameStakes(u, AddRestrictingRecord(u, from, a, plan, epoch))
<1> DEFINE i == u.info[a]
           due == {o + epoch - 1 : o \in DOMAIN plan}
           old(e) == IF i.on THEN u.amount[e][a] ELSE 0
           fresh == {e \in due : old(e) = 0}
           paid == NeedReleasePaid(i, Total(plan))
           in == transferAmount(u, from, RestrictingContract, Total(plan))
           s == transferAmount(in, RestrictingContract, a, paid)
           j == [on |-> TRUE, need |-> i.need - paid, advance |-> i.advance,
                 cache |-> i.cache + (Total(plan) - paid), list |-> i.list \union fresh]
           t == [s EXCEPT !.info[a] = j]
           f == [e \in Epochs |-> IF e \in due
                                  THEN [t.amount[e] EXCEPT ![a] = old(e) + plan[e - epoch + 1]]
                                  ELSE t.amount[e]]
           v == [t EXCEPT !.amount = f]
           q == [e \in Epochs |-> IF e \in fresh THEN Append(v.queue[e], a) ELSE v.queue[e]]
           z == [v EXCEPT !.queue = q]
<1>1. /\ IsWorld(u) /\ u.amount \in [Epochs -> [Accounts -> Nat]]
      /\ InfoSound(i) /\ Total(plan) \in Nat
  BY PlansAssumption DEF PlansOK
<1>2. AddRestrictingRecord(u, from, a, plan, epoch) = z
  BY DEF AddRestrictingRecord
<1>3. due \subseteq Epochs /\ fresh \subseteq Epochs
  BY DEF CanAddRestrictingRecord
<1>4. InfoSound(j)
  <2>1. /\ i.on \in BOOLEAN /\ i.need \in Nat /\ i.advance \in Nat /\ i.cache \in Nat
        /\ i.list \in SUBSET Epochs /\ i.advance <= i.cache
        /\ i.need > 0 => i.cache = i.advance
        /\ ~ i.on => i.need = 0 /\ i.cache = 0 /\ i.advance = 0
    BY <1>1 DEF InfoSound, Infos, Absent
  <2>2. /\ paid \in Nat /\ i.need - paid \in Nat /\ Total(plan) - paid \in Nat
        /\ i.need - paid > 0 => paid = Total(plan) \/ ~ i.on
    BY <1>1, <2>1 DEF NeedReleasePaid, Lesser
  <2> HIDE DEF i, paid, fresh
  <2> QED BY <1>1, <1>3, <2>1, <2>2 DEF InfoSound, Infos
<1> HIDE DEF j
<1>5. SameBooks(u, in) /\ SameStakes(u, in) /\ PlansOK(in) /\ IsWorld(in)
  BY <1>1, TransferKeeps, BooksKept DEF PlansOK
<1> HIDE DEF in
<1>6. SameBooks(in, s) /\ SameStakes(in, s) /\ PlansOK(s)
  BY <1>5, TransferKeeps, BooksKept
<1> HIDE DEF s
<1>7. PlansOK(t) /\ SameStakes(s, t) /\ t.amount = s.amount
  BY <1>4, <1>6, SetInfo
<1> HIDE DEF t
<1>8. f \in [Epochs -> [Accounts -> Nat]]
  <2>1. t.amount = u.amount
    BY <1>5, <1>6, <1>7 DEF SameBooks
  <2>2. \A e \in Epochs : old(e) \in Nat
    BY <1>1
  <2>3. \A e \in due : plan[e - epoch + 1] \in Nat
    <3> SUFFICES ASSUME NEW o \in DOMAIN plan
                 PROVE  plan[(o + epoch - 1) - epoch + 1] \in Nat
      OBVIOUS
    <3>1. o \in Nat /\ plan[o] \in Nat
      BY PlansAssumption
    <3>2. (o + epoch - 1) - epoch + 1 = o
      BY <3>1
    <3> QED BY <3>1, <3>2
  <2> HIDE DEF due, old
  <2>4. ASSUME NEW e \in Epochs PROVE f[e] \in [Accounts -> Nat]
    <3>1. t.amount[e] \in [Accounts -> Nat]
      BY <1>1, <2>1
    <3>2. CASE e \in due
      <4>1. old(e) + plan[e - epoch + 1] \in Nat
        BY <2>2, <2>3, <3>2
      <4> QED BY <3>1, <3>2, <4>1
    <3> QED BY <3>1, <3>2
  <2> QED BY <2>4
<1> HIDE DEF f
<1>9. PlansOK(v) /\ SameStakes(t, v)
  BY <1>7, <1>8, SetAmount
<1> HIDE DEF v, q
<1>10. PlansOK(z) /\ SameStakes(v, z)
  BY <1>9, SetQueue
<1> HIDE DEF z
<1> QED BY <1>2, <1>5, <1>6, <1>7, <1>9, <1>10 DEF SameStakes

\* releaseGenesisRestrictingPlans does not touch the plans of accounts.
LEMMA GenesisKeeps ==
    ASSUME NEW u, PlansOK(u)
    PROVE  /\ PlansOK(releaseGenesisRestrictingPlans(u))
           /\ SameStakes(u, releaseGenesisRestrictingPlans(u))
<1> DEFINE t == transferAmount(u, RestrictingContract, RewardPool, Head(u.genesis))
           v == [t EXCEPT !.genesis = Tail(t.genesis)]
<1>1. releaseGenesisRestrictingPlans(u) = IF u.genesis = << >> THEN u ELSE v
  BY DEF releaseGenesisRestrictingPlans
<1>2. IsWorld(u)
  BY DEF PlansOK
<1>3. SameBooks(u, t) /\ SameStakes(u, t) /\ PlansOK(t) /\ IsWorld(t)
  BY <1>2, TransferKeeps, BooksKept DEF PlansOK
<1> HIDE DEF t
<1>4. SameBooks(t, v) /\ SameStakes(t, v)
  BY <1>3, GenesisUpdate
<1> HIDE DEF v
<1>5. PlansOK(v)
  BY <1>3, <1>4, BooksKept
<1> QED BY <1>1, <1>3, <1>4, <1>5 DEF SameStakes

-----------------------------------------------------------------------------
(* Operations of the staking and slashing plugins *)

\* A candidate has natural amounts, and an owner when it exists.
CandOK(c) ==
    /\ DOMAIN c = {"on", "owner", "num", "epoch", "status", "shares",
                   "released", "releasedHes", "plan", "planHes"}
    /\ c.num \in Int
    /\ c.released \in Nat /\ c.releasedHes \in Nat /\ c.plan \in Nat /\ c.planHes \in Nat
    /\ c.on => c.owner \in Accounts

\* A delegation has natural amounts.
DelOK(d) ==
    /\ DOMAIN d = {"epoch", "released", "releasedHes", "plan", "planHes"}
    /\ d.released \in Nat /\ d.releasedHes \in Nat /\ d.plan \in Nat /\ d.planHes \in Nat

CansOK(f) == DOMAIN f = Nodes /\ \A n \in Nodes : CandOK(f[n])

DelsOK(f) == \A k \in DOMAIN f : DelOK(f[k])

\* An item names a node that can be a candidate.
ItemSet == [node : Nodes, num : Int, recovery : BOOLEAN]

\* The part of the inductive invariant about the world state.
WorldOK(u) ==
    /\ PlansOK(u)
    /\ CansOK(u.can)
    /\ DelsOK(u.del)
    /\ u.items \in [Epochs -> Seq(ItemSet)]

\* A step that keeps the books and leaves the stakes alone keeps WorldOK.
LEMMA StakesKept ==
    ASSUME NEW u, NEW v, WorldOK(u), PlansOK(v), SameStakes(u, v)
    PROVE  WorldOK(v)
BY DEF WorldOK, SameStakes

\* lazyCalcStakeAmount moves a candidate's amounts and adds none,
LEMMA LazyCandidate ==
    ASSUME NEW c, CandOK(c), NEW e
    PROVE  /\ CandOK(lazyCalcAmount(e, c))
           /\ lazyCalcAmount(e, c).on = c.on /\ lazyCalcAmount(e, c).owner = c.owner
           /\ lazyCalcAmount(e, c).num = c.num
           /\ lazyCalcAmount(e, c).plan + lazyCalcAmount(e, c).planHes = c.plan + c.planHes
BY DEF CandOK, lazyCalcAmount

\* and lazyCalcDelegateAmount a delegation's.
LEMMA LazyDelegation ==
    ASSUME NEW d, DelOK(d), NEW e
    PROVE  DelOK(lazyCalcAmount(e, d))
BY DEF DelOK, lazyCalcAmount

\* Storing a candidate changes that candidate only.
LEMMA SetCandidateKeeps ==
    ASSUME NEW u, WorldOK(u), NEW n, NEW c, n \in Nodes => CandOK(c)
    PROVE  /\ WorldOK(SetCandidateStore(u, n, c))
           /\ SetCandidateStore(u, n, c).info = u.info
           /\ SetCandidateStore(u, n, c).can = [u.can EXCEPT ![n] = c]
<1> DEFINE f == [u.can EXCEPT ![n] = c]
           v == SetCandidateStore(u, n, c)
<1>1. v = [u EXCEPT !.can = f]
  BY DEF SetCandidateStore
<1>2. IsWorld(u) /\ PlansOK(u)
  BY DEF WorldOK, PlansOK
<1>3. CansOK(f)
  BY DEF WorldOK, CansOK
<1> HIDE DEF f, v
<1>4. SameBooks(u, v) /\ v.can = f /\ v.del = u.del /\ v.items = u.items
  BY <1>1, <1>2, CanUpdate
<1>5. PlansOK(v)
  BY <1>2, <1>4, BooksKept
<1> QED BY <1>3, <1>4, <1>5 DEF WorldOK, SameBooks, f, v

\* The ranking's keys matter neither to the plans nor to the stakes.
LEMMA PowerKeeps ==
    ASSUME NEW u, WorldOK(u), NEW n
    PROVE  /\ WorldOK(DelCanPowerStore(u, n)) /\ SameStakes(u, DelCanPowerStore(u, n))
           /\ DelCanPowerStore(u, n).info = u.info
           /\ WorldOK(SetCanPowerStore(u, n)) /\ SameStakes(u, SetCanPowerStore(u, n))
           /\ SetCanPowerStore(u, n).info = u.info
<1> DEFINE d == DelCanPowerStore(u, n)
           s == SetCanPowerStore(u, n)
<1>1. IsWorld(u) /\ PlansOK(u)
  BY DEF WorldOK, PlansOK
<1>2. PICK f : d = [u EXCEPT !.power = f]
  BY Zenon DEF DelCanPowerStore
<1>3. PICK g : s = [u EXCEPT !.power = g]
  BY Zenon DEF SetCanPowerStore
<1> HIDE DEF d, s
<1>4. SameBooks(u, d) /\ SameStakes(u, d)
  BY <1>1, <1>2, PowerUpdate, SMTT(30)
<1>5. SameBooks(u, s) /\ SameStakes(u, s)
  BY <1>1, <1>3, PowerUpdate, SMTT(30)
<1>6. PlansOK(d) /\ PlansOK(s)
  BY <1>1, <1>4, <1>5, BooksKept
<1>7. WorldOK(d) /\ WorldOK(s)
  BY <1>4, <1>5, <1>6, StakesKept
<1> QED BY <1>4, <1>5, <1>7 DEF SameBooks, d, s

\* A ranked candidate takes its new place.
LEMMA ChangeKeeps ==
    ASSUME NEW u, WorldOK(u), NEW n, NEW c, n \in Nodes => CandOK(c)
    PROVE  WorldOK(ChangeCandidate(u, n, c))
<1> DEFINE d == DelCanPowerStore(u, n)
           s == SetCandidateStore(d, n, c)
<1>1. WorldOK(d)
  BY PowerKeeps
<1> HIDE DEF d
<1>2. WorldOK(s)
  BY <1>1, SetCandidateKeeps, Zenon
<1> HIDE DEF s
<1>3. WorldOK(SetCanPowerStore(s, n))
  BY <1>2, PowerKeeps
<1> QED BY <1>3 DEF ChangeCandidate, s, d

\* The counts of stakes matter to neither, too,
LEMMA RcKeeps ==
    ASSUME NEW u, WorldOK(u), NEW f
    PROVE  /\ WorldOK([u EXCEPT !.rc = f]) /\ SameStakes(u, [u EXCEPT !.rc = f])
           /\ [u EXCEPT !.rc = f].info = u.info
<1> DEFINE v == [u EXCEPT !.rc = f]
<1>1. IsWorld(u) /\ PlansOK(u)
  BY DEF WorldOK, PlansOK
<1>2. SameBooks(u, v) /\ SameStakes(u, v)
  BY <1>1, RcUpdate
<1> HIDE DEF v
<1>3. PlansOK(v)
  BY <1>1, <1>2, BooksKept
<1>4. WorldOK(v)
  BY <1>2, <1>3, StakesKept
<1> QED BY <1>2, <1>4 DEF SameBooks, v

\* nor does SubAccountStakeRc.
LEMMA SubRcKeeps ==
    ASSUME NEW u, WorldOK(u), NEW a
    PROVE  WorldOK(SubAccountStakeRc(u, a)) /\ SameStakes(u, SubAccountStakeRc(u, a))
<1>1. PICK f : SubAccountStakeRc(u, a) = [u EXCEPT !.rc = f]
  BY Zenon DEF SubAccountStakeRc
<1> QED BY <1>1, RcKeeps, SMTT(30)

\* Items may be replaced by items,
LEMMA ItemsKeep ==
    ASSUME NEW u, WorldOK(u), NEW f \in [Epochs -> Seq(ItemSet)]
    PROVE  WorldOK([u EXCEPT !.items = f])
<1> DEFINE v == [u EXCEPT !.items = f]
<1>1. IsWorld(u) /\ PlansOK(u)
  BY DEF WorldOK, PlansOK
<1>2. SameBooks(u, v) /\ v.items = f /\ v.can = u.can /\ v.del = u.del
  BY <1>1, ItemsUpdate, Zenon
<1> HIDE DEF v
<1>3. PlansOK(v)
  BY <1>1, <1>2, BooksKept
<1>4. WorldOK(v)
  BY <1>2, <1>3 DEF WorldOK
<1> QED BY <1>4 DEF v

\* and AddUnStakeItemStore adds one.
LEMMA AddItemKeeps ==
    ASSUME NEW u, WorldOK(u), NEW e, NEW n \in Nodes, NEW num \in Int, NEW r \in BOOLEAN
    PROVE  WorldOK(AddUnStakeItemStore(u, e, n, num, r))
<1> DEFINE item == [node |-> n, num |-> num, recovery |-> r]
           f == [u.items EXCEPT ![e] = Append(u.items[e], item)]
<1>1. item \in ItemSet
  BY DEF ItemSet
<1>2. AddUnStakeItemStore(u, e, n, num, r) = [u EXCEPT !.items = f]
  BY DEF AddUnStakeItemStore
<1> HIDE DEF item
<1>3. u.items \in [Epochs -> Seq(ItemSet)]
  BY DEF WorldOK
<1>4. f \in [Epochs -> Seq(ItemSet)]
  <2> DEFINE g == u.items
  <2>1. g \in [Epochs -> Seq(ItemSet)]
    BY <1>3
  <2> HIDE DEF g
  <2>2. e \in Epochs => Append(g[e], item) \in Seq(ItemSet)
    BY <1>1, <2>1
  <2>3. [g EXCEPT ![e] = Append(g[e], item)] \in [Epochs -> Seq(ItemSet)]
    BY <2>1, <2>2, Zenon
  <2> QED BY <2>3 DEF g
<1> HIDE DEF f
<1> QED BY <1>2, <1>4, ItemsKeep

\* A delegation is stored or deleted.
LEMMA SetDelegationKeeps ==
    ASSUME NEW u, WorldOK(u), NEW k, NEW d, DelOK(d)
    PROVE  WorldOK(SetDelegation(u, k, d)) /\ WorldOK(DelDelegateStore(u, k))
<1> DEFINE f == [j \in DOMAIN u.del \union {k} |-> IF j = k THEN d ELSE u.del[j]]
           g == [j \in DOMAIN u.del \ {k} |-> u.del[j]]
           v == [u EXCEPT !.del = f]
           z == [u EXCEPT !.del = g]
<1>1. SetDelegation(u, k, d) = v /\ DelDelegateStore(u, k) = z
  BY DEF SetDelegation, DelDelegateStore
<1>2. IsWorld(u) /\ PlansOK(u)
  BY DEF WorldOK, PlansOK
<1>3. DelsOK(f) /\ DelsOK(g)
  BY DEF WorldOK, DelsOK
<1> HIDE DEF f, g
<1>4. SameBooks(u, v) /\ v.del = f /\ v.can = u.can /\ v.items = u.items
  BY <1>2, DelUpdate
<1>5. SameBooks(u, z) /\ z.del = g /\ z.can = u.can /\ z.items = u.items
  BY <1>2, DelUpdate
<1> HIDE DEF v, z
<1>6. PlansOK(v) /\ PlansOK(z)
  BY <1>2, <1>4, <1>5, BooksKept
<1>7. WorldOK(v) /\ WorldOK(z)
  BY <1>3, <1>4, <1>5, <1>6 DEF WorldOK
<1> QED BY <1>1, <1>7

\* Paying for a stake or a delegation: from the balance, the plans or both.
LEMMA PayKeeps ==
    ASSUME WorldOK(w), NEW a \in Accounts, NEW x \in Nat,
           NEW typ \in {FreeVon, RestrictVon, RestrictAndFreeVon}, CanPay(a, typ, x)
    PROVE  WorldOK(Pay(a, typ, x)) /\ FromPlan(a, typ, x) \in 0..x
<1>1. PlansOK(w) /\ IsWorld(w)
  BY DEF WorldOK, PlansOK
<1>2. FreeVon # RestrictVon /\ FreeVon # RestrictAndFreeVon /\ RestrictVon # RestrictAndFreeVon
  BY DEF FreeVon, RestrictVon, RestrictAndFreeVon
<1>3. CASE typ = FreeVon
  <2> DEFINE v == transferAmount(w, a, StakingContract, x)
  <2>1. Pay(a, typ, x) = v /\ FromPlan(a, typ, x) = 0
    BY <1>2, <1>3 DEF Pay, FromPlan
  <2>2. PlansOK(v) /\ SameStakes(w, v)
    BY <1>1, TransferKeeps, BooksKept
  <2> HIDE DEF v
  <2> QED BY <2>1, <2>2, StakesKept
<1>4. CASE typ = RestrictVon
  <2> DEFINE v == AdvanceLockedFunds(w, a, x)
  <2>1. Pay(a, typ, x) = v /\ FromPlan(a, typ, x) = x
    BY <1>2, <1>4 DEF Pay, FromPlan
  <2>2. CanAdvanceLockedFunds(w, a, x)
    BY <1>2, <1>4 DEF CanPay
  <2>3. PlansOK(v) /\ SameStakes(w, v)
    BY <1>1, <2>2, AdvanceKeeps
  <2> HIDE DEF v
  <2> QED BY <2>1, <2>3, StakesKept
<1>5. CASE typ = RestrictAndFreeVon
  <2> DEFINE v == MixAdvanceLockedFunds(w, a, x)
  <2>1. Pay(a, typ, x) = v /\ FromPlan(a, typ, x) = ForRestricting(w, a, x)
    BY <1>2, <1>5 DEF Pay, FromPlan
  <2>2. PlansOK(v) /\ SameStakes(w, v) /\ ForRestricting(w, a, x) \in 0..x
    BY <1>1, MixAdvanceKeeps
  <2> HIDE DEF v
  <2> QED BY <2>1, <2>2, StakesKept
<1> QED BY <1>3, <1>4, <1>5

\* A refund goes back the way it came, and leaves room for a second one.
LEMMA RefundKeeps ==
    ASSUME NEW u, WorldOK(u), NEW a, NEW x, NEW p \in Nat, NEW y \in Nat,
           a \in Accounts => CanReturnLockFunds(u, a, p)
    PROVE  /\ WorldOK(Refund(u, a, x, p))
           /\ SameStakes(u, Refund(u, a, x, p))
           /\ a \in Accounts /\ CanReturnLockFunds(u, a, p + y)
                  => CanReturnLockFunds(Refund(u, a, x, p), a, y)
<1> DEFINE t == transferAmount(u, StakingContract, a, x)
           v == ReturnLockFunds(t, a, p)
<1>1. PlansOK(u) /\ IsWorld(u)
  BY DEF WorldOK, PlansOK
<1>2. SameBooks(u, t) /\ SameStakes(u, t)
  BY <1>1, TransferKeeps
<1> HIDE DEF t
<1>3. PlansOK(t)
  BY <1>1, <1>2, BooksKept
<1>4. a \in Accounts => CanReturnLockFunds(t, a, p)
  BY <1>2 DEF CanReturnLockFunds, SameBooks
<1>5. /\ PlansOK(v) /\ SameStakes(t, v)
      /\ a \in Accounts /\ CanReturnLockFunds(t, a, p + y) => CanReturnLockFunds(v, a, y)
  BY <1>3, <1>4, ReturnKeeps
<1>6. CanReturnLockFunds(u, a, p + y) => CanReturnLockFunds(t, a, p + y)
  BY <1>2 DEF CanReturnLockFunds, SameBooks
<1>7. v = Refund(u, a, x, p)
  BY DEF Refund, t
<1> HIDE DEF v
<1>8. SameStakes(u, v)
  BY <1>2, <1>5 DEF SameStakes
<1>9. WorldOK(v)
  BY <1>5, <1>8, StakesKept
<1> QED BY <1>5, <1>6, <1>7, <1>8, <1>9

\* The parts rufundDelegateFn takes are no more than the delegation has.
LEMMA RefundParts ==
    ASSUME NEW d, DelOK(d), NEW x \in Nat, NEW e
    PROVE  /\ rufundDelegateFn(d, x).plan \in Nat
           /\ DelOK([rufundDelegateFn(d, x).rest EXCEPT !.epoch = e])
<1> DEFINE fh == Lesser(x, d.releasedHes)
           ph == Lesser(x - fh, d.planHes)
           f == Lesser(x - fh - ph, d.released)
           p == Lesser(x - fh - ph - f, d.plan)
           rest == [d EXCEPT !.releasedHes = @ - fh, !.planHes = @ - ph,
                             !.released = @ - f, !.plan = @ - p]
<1>1. /\ d.released \in Nat /\ d.releasedHes \in Nat /\ d.plan \in Nat /\ d.planHes \in Nat
      /\ DOMAIN d = {"epoch", "released", "releasedHes", "plan", "planHes"}
  BY DEF DelOK
<1>2. fh \in 0..x /\ fh <= d.releasedHes
  BY <1>1 DEF Lesser
<1> HIDE DEF fh
<1>3. ph \in 0..(x - fh) /\ ph <= d.planHes
  BY <1>1, <1>2 DEF Lesser
<1> HIDE DEF ph
<1>4. f \in 0..(x - fh - ph) /\ f <= d.released
  BY <1>1, <1>2, <1>3 DEF Lesser
<1> HIDE DEF f
<1>5. p \in 0..(x - fh - ph - f) /\ p <= d.plan
  BY <1>1, <1>2, <1>3, <1>4 DEF Lesser
<1> HIDE DEF p
<1>6. rufundDelegateFn(d, x) = [free |-> fh + f, plan |-> ph + p, rest |-> rest]
  BY DEF rufundDelegateFn, fh, ph, f, p
<1>7. /\ d.released - f \in Nat /\ d.releasedHes - fh \in Nat
      /\ d.plan - p \in Nat /\ d.planHes - ph \in Nat /\ ph + p \in Nat
  BY <1>1, <1>2, <1>3, <1>4, <1>5
<1>8. DelOK(rest)
  BY <1>1, <1>7 DEF DelOK
<1> HIDE DEF rest
<1>9. DelOK([rest EXCEPT !.epoch = e])
  BY <1>8 DEF DelOK
<1> QED BY <1>6, <1>7, <1>9

\* The statuses and the shares of a candidate are not part of WorldOK.
LEMMA StatusKeeps ==
    ASSUME NEW c, CandOK(c), NEW s, NEW x
    PROVE  /\ CandOK([c EXCEPT !.status = s]) /\ [c EXCEPT !.status = s].on = c.on
           /\ CandOK([c EXCEPT !.shares = x])
BY DEF CandOK

\* slashBalanceFn takes no more of a stake than there is.
LEMMA SlashedParts ==
    ASSUME NEW c, CandOK(c), NEW x \in Nat, x <= c.released + c.plan
    PROVE  /\ slashedPlan(c, x) \in Nat
           /\ CandOK(slashBalance(c, x)) /\ slashBalance(c, x).on = c.on
<1> DEFINE p == slashedPlan(c, x)
           s == IF sharesHaveBeenClean(c) THEN c.shares ELSE c.shares - x
<1>1. /\ c.released \in Nat /\ c.plan \in Nat
  BY DEF CandOK
<1>2. p \in Nat /\ c.released - (x - p) \in Nat /\ c.plan - p \in Nat
  BY <1>1 DEF slashedPlan, Lesser
<1>3. slashBalance(c, x) = [c EXCEPT !.released = @ - (x - p), !.plan = @ - p, !.shares = s]
  BY DEF slashBalance
<1> HIDE DEF p, s
<1>4. /\ CandOK([c EXCEPT !.released = @ - (x - p), !.plan = @ - p, !.shares = s])
      /\ [c EXCEPT !.released = @ - (x - p), !.plan = @ - p, !.shares = s].on = c.on
  BY <1>2 DEF CandOK
<1> QED BY <1>2, <1>3, <1>4 DEF p

\* What is taken in a slash; the plans' books do not depend on who gets it.
LEMMA TakeSlashedKeeps ==
    ASSUME NEW u, NEW v, WorldOK(u), WorldOK(v), v.info = u.info, NEW c, c.owner \in Accounts,
           NEW type, NEW x, slashedPlan(c, x) \in Nat, NEW b1, NEW b2,
           slashedPlan(c, x) > 0 => CanSlashingNotify(u, c.owner, slashedPlan(c, x))
    PROVE  /\ WorldOK(takeSlashed(v, c, type, x, b2))
           /\ takeSlashed(v, c, type, x, b2).info = takeSlashed(u, c, type, x, b1).info
<1> DEFINE p == slashedPlan(c, x)
           a == c.owner
           g1 == IF type = "DuplicateSign" THEN b1 ELSE RewardPool
           g2 == IF type = "DuplicateSign" THEN b2 ELSE RewardPool
           s == transferAmount(u, StakingContract, g1, x)
           t == transferAmount(v, StakingContract, g2, x)
<1>1. /\ takeSlashed(v, c, type, x, b2) = SlashingNotify(t, a, p)
      /\ takeSlashed(u, c, type, x, b1) = SlashingNotify(s, a, p)
  BY DEF takeSlashed
<1>2. IsWorld(u) /\ PlansOK(u) /\ IsWorld(v) /\ PlansOK(v)
  BY DEF WorldOK, PlansOK
<1>3. /\ SameBooks(u, s) /\ SameStakes(u, s)
      /\ SameBooks(v, t) /\ SameStakes(v, t)
  BY <1>2, TransferKeeps
<1> HIDE DEF s, t
<1>4. PlansOK(s) /\ PlansOK(t)
  BY <1>2, <1>3, BooksKept
<1>5. s.info = u.info /\ t.info = u.info
  BY <1>3 DEF SameBooks
<1>6. p = 0 \/ (CanSlashingNotify(s, a, p) /\ CanSlashingNotify(t, a, p))
  BY <1>5 DEF CanSlashingNotify
<1>7. a \in Accounts /\ p \in Nat
  OBVIOUS
<1> HIDE DEF p, a
<1>8. /\ PlansOK(SlashingNotify(t, a, p)) /\ SameStakes(t, SlashingNotify(t, a, p))
  BY <1>4, <1>6, <1>7, SlashingKeeps
<1>9. SlashingNotify(t, a, p).info = NotifiedInfo(t.info, a, p)
  BY <1>4, <1>6, <1>7, SlashingKeeps
<1>10. SlashingNotify(s, a, p).info = NotifiedInfo(s.info, a, p)
  BY <1>4, <1>6, <1>7, SlashingKeeps
<1>11. WorldOK(t)
  BY <1>3, <1>4, StakesKept
<1>12. WorldOK(SlashingNotify(t, a, p))
  BY <1>8, <1>11, StakesKept
<1> QED BY <1>1, <1>5, <1>9, <1>10, <1>12

\* toSlash, when it returns no error, keeps WorldOK and the candidate.
LEMMA ToSlashKeeps ==
    ASSUME NEW u, WorldOK(u), NEW n \in Nodes, u.can[n].on, NEW x \in Nat, NEW type,
           NEW benefit, ~ SlashError(u, n, type, x)
    PROVE  /\ WorldOK(toSlash(u, n, type, x, benefit))
           /\ toSlash(u, n, type, x, benefit).can[n].on
<1> DEFINE c == lazyCalcAmount(Epoch, u.can[n])
           y == slashed(c, type, x)
           cut == slashBalance(c, y)
           release == needReturnHes(cut, type)
           marked == [cut EXCEPT !.status = @ \union changeStatus(cut, type)]
           left == IF release
                   THEN [marked EXCEPT !.shares = 0, !.releasedHes = 0, !.planHes = 0]
                   ELSE marked
           d == DelCanPowerStore(u, n)
           taken == takeSlashed(d, c, type, y, benefit)
           paid == IF release THEN Refund(taken, c.owner, c.releasedHes, c.planHes) ELSE taken
           rc == SubAccountStakeRc(paid, c.owner)
           noted == IF ~ IsValid(c) THEN paid
                    ELSE IF release THEN addUnStakeItem(rc, n, c.num)
                    ELSE addRecoveryUnStakeItem(paid, n, c.num)
           v == SetCandidateStore(noted, n, left)
<1>1. toSlash(u, n, type, x, benefit) = v
  BY DEF toSlash
<1>2. CandOK(u.can[n])
  BY DEF WorldOK, CansOK
<1>3. CandOK(c) /\ c.on
  BY <1>2, LazyCandidate
<1>4. /\ x <= c.released + c.plan
      /\ slashedPlan(c, y) > 0 => CanSlashingNotify(u, c.owner, slashedPlan(c, y))
      /\ release => CanReturnLockFunds(takeSlashed(u, c, type, y, RewardPool), c.owner, c.planHes)
  <2>1. /\ x \in Nat /\ c.released + c.plan \in Nat
    BY <1>3 DEF CandOK
  <2>2. /\ ~ (x > c.released + c.plan)
        /\ ~ (slashedPlan(c, y) > 0 /\ ~ CanSlashingNotify(u, c.owner, slashedPlan(c, y)))
        /\ ~ (/\ needReturnHes(slashBalance(c, y), type)
              /\ ~ CanReturnLockFunds(takeSlashed(u, c, type, y, RewardPool), c.owner, c.planHes))
    BY DEF SlashError
  <2> QED BY <2>1, <2>2
<1>5. WorldOK(d) /\ d.info = u.info
  BY PowerKeeps
<1> HIDE DEF c, d
<1>6. c.owner \in Accounts /\ c.num \in Int /\ c.planHes \in Nat /\ c.released \in Nat /\ c.plan \in Nat
  BY <1>3 DEF CandOK
<1>7. y \in Nat /\ y <= c.released + c.plan
  BY <1>4, <1>6 DEF slashed
<1> HIDE DEF y
<1>8. slashedPlan(c, y) \in Nat /\ CandOK(cut) /\ cut.on
  BY <1>3, <1>7, SlashedParts
<1> HIDE DEF cut
<1>9. CandOK(marked) /\ marked.on
  BY <1>8, StatusKeeps, Zenon
<1> HIDE DEF marked
<1>10. CandOK(left) /\ left.on
  <2>1. /\ CandOK([marked EXCEPT !.shares = 0, !.releasedHes = 0, !.planHes = 0])
        /\ [marked EXCEPT !.shares = 0, !.releasedHes = 0, !.planHes = 0].on
    BY <1>9 DEF CandOK
  <2> HIDE DEF release
  <2> QED BY <1>9, <2>1
<1> HIDE DEF left
<1>11. WorldOK(taken) /\ taken.info = takeSlashed(u, c, type, y, RewardPool).info
  BY <1>4, <1>5, <1>6, <1>8, TakeSlashedKeeps
<1>12. release => CanReturnLockFunds(taken, c.owner, c.planHes)
  BY <1>4, <1>11 DEF CanReturnLockFunds
<1> HIDE DEF taken, release
<1>13. WorldOK(paid)
  <2>1. CASE release
    <3>1. WorldOK(Refund(taken, c.owner, c.releasedHes, c.planHes))
      BY <1>6, <1>11, <1>12, <2>1, RefundKeeps
    <3> QED BY <2>1, <3>1
  <2> QED BY <1>11, <2>1
<1> HIDE DEF paid
<1>14. WorldOK(rc)
  BY <1>13, SubRcKeeps
<1> HIDE DEF rc
<1>15. WorldOK(noted)
  BY <1>6, <1>13, <1>14, AddItemKeeps, Zenon DEF addUnStakeItem, addRecoveryUnStakeItem
<1> HIDE DEF noted
<1>16. WorldOK(v) /\ v.can = [noted.can EXCEPT ![n] = left]
  BY <1>10, <1>15, SetCandidateKeeps
<1>17. DOMAIN noted.can = Nodes
  BY <1>15 DEF WorldOK, CansOK
<1> HIDE DEF v
<1>18. v.can[n].on
  BY <1>10, <1>16, <1>17
<1> QED BY <1>1, <1>16, <1>18

-----------------------------------------------------------------------------
(* Numbers of epochs *)

\* Integer division.
LEMMA DivideBound ==
    ASSUME NEW x \in Nat, NEW d \in Nat \ {0}
    PROVE  x \div d \in 0..x
<1> DEFINE q == x \div d
<1>1. q \in Int /\ d * q <= x /\ x < d * q + d
  BY SMTT(30)
<1> HIDE DEF q
<1>2. q >= 0
  <2> SUFFICES ASSUME q <= -1 PROVE FALSE
    BY <1>1
  <2>1. d * q <= d * (-1)
    BY <1>1, SMTT(30)
  <2> QED BY <1>1, <2>1
<1>3. q <= x
  <2>1. q <= d * q
    BY <1>1, <1>2, SMTT(30)
  <2> QED BY <1>1, <2>1
<1> QED BY <1>1, <1>2, <1>3 DEF q

\* CalculateEpoch is an epoch of the records while blocks are within the bound.
LEMMA EpochInRange ==
    ASSUME block \in Nat \ {0}
    PROVE  /\ Epoch \in Int
           /\ block <= MaxEpoch * EpochSize => Epoch \in Epochs
<1> DEFINE q == (block + EpochSize - 1) \div EpochSize
<1>1. EpochSize \in Nat \ {0} /\ MaxEpoch \in Nat
  BY StakingAssumption, EpochAssumption
<1>2. Epoch = q
  BY DEF Epoch, CalculateEpoch
<1>3. /\ q \in Int /\ EpochSize * q <= block + EpochSize - 1
      /\ block + EpochSize - 1 < EpochSize * q + EpochSize
  BY <1>1, SMTT(30)
<1> HIDE DEF q
<1>4. q >= 1
  <2> SUFFICES ASSUME q <= 0 PROVE FALSE
    BY <1>3
  <2>1. EpochSize * q <= 0
    BY <1>1, <1>3, SMTT(30)
  <2> QED BY <1>1, <1>3, <2>1
<1>5. ASSUME block <= MaxEpoch * EpochSize PROVE q <= 2 * MaxEpoch
  <2> SUFFICES ASSUME q >= MaxEpoch + 1 PROVE FALSE
    BY <1>1, <1>3
  <2>1. EpochSize * q >= EpochSize * (MaxEpoch + 1)
    BY <1>1, <1>3, SMTT(30)
  <2>2. EpochSize * (MaxEpoch + 1) = MaxEpoch * EpochSize + EpochSize
    BY <1>1, SMTT(30)
  <2>3. MaxEpoch * EpochSize \in Int
    BY <1>1
  <2> QED BY <1>1, <1>3, <1>5, <2>1, <2>2, <2>3
<1> QED BY <1>1, <1>2, <1>3, <1>4, <1>5 DEF Epochs

-----------------------------------------------------------------------------
(* The inductive invariant and the actions *)

\* The inductive invariant.  The amounts of candidates are part of it because
\* toSlash and the refunds hand them to the restricting plugin, the amounts
\* of the state committed last because a slash is computed from them, and
\* the items because they name the candidates whose stake is returned.
IInv ==
    /\ WorldOK(w) /\ CansOK(irr)
    /\ block \in Nat \ {0}
    /\ phase \in {"release", "unstake"} => block <= MaxEpoch * EpochSize
    /\ phase = "unstake" => index \in Nat \ {0}

\* The predicates on states mention no variables of their own.
LEMMA Primes ==
    /\ WorldOK(w') => WorldOK(w)'
    /\ CansOK(irr') => CansOK(irr)'
BY DEF WorldOK, CansOK, DelsOK, PlansOK, IsWorld

\* A transaction that keeps WorldOK keeps the invariant.
LEMMA TxKeeps ==
    ASSUME IInv, Tx, WorldOK(w')
    PROVE  IInv'
<1>1. CansOK(irr)'
  BY Primes DEF IInv, Tx
<1>2. WorldOK(w)'
  BY Primes
<1> QED BY <1>1, <1>2 DEF IInv, Tx

\* No candidate,
LEMMA NoCandidateOK == CandOK(NoCandidate)
BY DEF CandOK, NoCandidate

\* and the candidate CreateCandidate stores.
LEMMA NewCandidate ==
    ASSUME NEW a \in Accounts, NEW b \in Int, NEW e, NEW x, NEW f \in Nat, NEW r \in Nat
    PROVE  CandOK([NoCandidate EXCEPT
                      !.on = TRUE, !.owner = a, !.num = b, !.epoch = e,
                      !.shares = x, !.releasedHes = f, !.planHes = r])
BY Zenon DEF CandOK, NoCandidate

\* createStaking keeps the invariant.
LEMMA CreateStakingKeeps ==
    ASSUME IInv, NEW n \in Nodes, NEW a \in Stakers, NEW x \in Amounts,
           NEW typ \in {FreeVon, RestrictVon, RestrictAndFreeVon}, createStaking(n, a, typ, x)
    PROVE  IInv'
<1> DEFINE r == FromPlan(a, typ, x)
           c == [NoCandidate EXCEPT
                    !.on = TRUE, !.owner = a, !.num = block, !.epoch = Epoch,
                    !.shares = x, !.releasedHes = x - r, !.planHes = r]
           p == Pay(a, typ, x)
           s == SetCandidateStore(p, n, c)
           t == SetCanPowerStore(s, n)
<1>1. a \in Accounts /\ x \in Nat /\ WorldOK(w) /\ block \in Int
  BY StakingAssumption DEF IInv
<1>2. Tx /\ CanPay(a, typ, x) /\ w' = [t EXCEPT !.rc[a] = @ + 1]
  BY DEF createStaking
<1>3. PICK f : w' = [t EXCEPT !.rc = f]
  BY <1>2, Zenon
<1>4. WorldOK(p) /\ r \in 0..x
  BY <1>1, <1>2, PayKeeps
<1> HIDE DEF p, r
<1>5. CandOK(c)
  <2>1. x - r \in Nat /\ r \in Nat
    BY <1>1, <1>4
  <2> QED BY <1>1, <2>1, NewCandidate, Zenon
<1> HIDE DEF c
<1>6. WorldOK(s)
  BY <1>4, <1>5, SetCandidateKeeps, Zenon
<1> HIDE DEF s
<1>7. WorldOK(t)
  BY <1>6, PowerKeeps
<1> HIDE DEF t
<1>8. WorldOK(w')
  BY <1>3, <1>7, RcKeeps
<1> QED BY <1>2, <1>8, TxKeeps

\* increaseStaking keeps the invariant.
LEMMA IncreaseStakingKeeps ==
    ASSUME IInv, NEW n \in Nodes, NEW x \in Amounts,
           NEW typ \in {FreeVon, RestrictVon}, increaseStaking(n, typ, x)
    PROVE  IInv'
<1> DEFINE c == lazyCalcAmount(Epoch, w.can[n])
           r == FromPlan(c.owner, typ, x)
           p == Pay(c.owner, typ, x)
           d == [c EXCEPT !.epoch = Epoch, !.shares = @ + x,
                          !.releasedHes = @ + (x - r), !.planHes = @ + r]
<1>1. x \in Nat /\ WorldOK(w) /\ CandOK(w.can[n])
  BY StakingAssumption DEF IInv, WorldOK, CansOK
<1>2. Tx /\ w.can[n].on /\ CanPay(c.owner, typ, x) /\ w' = ChangeCandidate(p, n, d)
  BY DEF increaseStaking
<1>3. CandOK(c) /\ c.on
  BY <1>1, <1>2, LazyCandidate
<1> HIDE DEF c
<1>4. c.owner \in Accounts
  BY <1>3 DEF CandOK
<1>5. WorldOK(p) /\ r \in 0..x
  BY <1>1, <1>2, <1>4, PayKeeps
<1> HIDE DEF p, r
<1>6. CandOK(d)
  BY <1>1, <1>3, <1>5 DEF CandOK
<1> HIDE DEF d
<1>7. WorldOK(w')
  BY <1>2, <1>5, <1>6, ChangeKeeps
<1> QED BY <1>2, <1>7, TxKeeps

\* withdrewStaking keeps the invariant: it returns locked money only as far as
\* ReturnLockFunds accepts it.
LEMMA WithdrewStakingKeeps ==
    ASSUME IInv, NEW n \in Nodes, withdrewStaking(n)
    PROVE  IInv'
<1> DEFINE c == lazyCalcAmount(Epoch, w.can[n])
           stays == c.released + c.plan > 0
           left == [c EXCEPT !.epoch = Epoch, !.shares = 0, !.releasedHes = 0, !.planHes = 0,
                             !.status = @ \union {"Invalided", "Withdrew"}]
           d == DelCanPowerStore(w, n)
           paid == Refund(d, c.owner, c.releasedHes, c.planHes)
           noted == IF stays THEN addUnStakeItem(paid, n, c.num) ELSE paid
           e == IF stays THEN left ELSE NoCandidate
           s == SetCandidateStore(noted, n, e)
<1>1. WorldOK(w) /\ CandOK(w.can[n])
  BY DEF IInv, WorldOK, CansOK
<1>2. /\ Tx /\ w.can[n].on /\ CanReturnLockFunds(w, c.owner, c.planHes)
      /\ w' = SubAccountStakeRc(s, c.owner)
  BY DEF withdrewStaking
<1>3. CandOK(c)
  BY <1>1, LazyCandidate
<1> HIDE DEF c
<1>4. c.planHes \in Nat /\ c.num \in Int
  BY <1>3 DEF CandOK
<1>5. CandOK(e)
  <2>1. CandOK(NoCandidate)
    BY NoCandidateOK
  <2>2. CandOK(left)
    <3> DEFINE st == c.status \union {"Invalided", "Withdrew"}
    <3> HIDE DEF st
    <3>1. CandOK([c EXCEPT !.epoch = Epoch, !.shares = 0, !.releasedHes = 0, !.planHes = 0,
                           !.status = st])
      BY <1>3 DEF CandOK
    <3> QED BY <3>1 DEF st
  <2> HIDE DEF left, stays
  <2> QED BY <2>1, <2>2
<1> HIDE DEF e
<1>6. WorldOK(d) /\ d.info = w.info
  BY <1>1, PowerKeeps
<1> HIDE DEF d
<1>7. CanReturnLockFunds(d, c.owner, c.planHes)
  BY <1>2, <1>6 DEF CanReturnLockFunds
<1>8. WorldOK(paid)
  BY <1>4, <1>6, <1>7, RefundKeeps
<1> HIDE DEF paid
<1>9. WorldOK(noted)
  BY <1>4, <1>8, AddItemKeeps, Zenon DEF addUnStakeItem
<1> HIDE DEF noted
<1>10. WorldOK(s)
  BY <1>5, <1>9, SetCandidateKeeps, Zenon
<1> HIDE DEF s
<1>11. WorldOK(w')
  BY <1>2, <1>10, SubRcKeeps
<1> QED BY <1>2, <1>11, TxKeeps

\* delegate keeps the invariant.
LEMMA DelegateKeeps ==
    ASSUME IInv, NEW a \in Accounts, NEW n \in Nodes, NEW x \in Amounts,
           NEW typ \in {FreeVon, RestrictVon}, delegate(a, n, typ, x)
    PROVE  IInv'
<1> DEFINE c == w.can[n]
           k == <<a, n, c.num>>
           o == delegationOf(w, k)
           d == lazyCalcAmount(Epoch, o)
           r == FromPlan(a, typ, x)
           p == Pay(a, typ, x)
           z == [d EXCEPT !.epoch = Epoch, !.releasedHes = @ + (x - r), !.planHes = @ + r]
           s == SetDelegation(p, k, z)
           e == [c EXCEPT !.shares = @ + x]
<1>1. x \in Nat /\ WorldOK(w) /\ CandOK(c) /\ DelsOK(w.del)
  BY StakingAssumption DEF IInv, WorldOK, CansOK
<1>2. Tx /\ CanPay(a, typ, x) /\ w' = ChangeCandidate(s, n, e)
  BY DEF delegate
<1>3. DelOK(o)
  <2>1. DelOK(NoDelegation)
    BY DEF DelOK, NoDelegation
  <2> QED BY <1>1, <2>1 DEF delegationOf, DelsOK
<1> HIDE DEF o
<1>4. DelOK(d)
  BY <1>3, LazyDelegation
<1> HIDE DEF d
<1>5. WorldOK(p) /\ r \in 0..x
  BY <1>1, <1>2, PayKeeps
<1> HIDE DEF p, r
<1>6. DelOK(z)
  BY <1>1, <1>4, <1>5 DEF DelOK
<1> HIDE DEF z, k
<1>7. WorldOK(s)
  BY <1>5, <1>6, SetDelegationKeeps
<1> HIDE DEF s
<1>8. CandOK(e)
  BY <1>1, StatusKeeps, Zenon
<1> HIDE DEF e
<1>9. WorldOK(w')
  BY <1>2, <1>7, <1>8, ChangeKeeps
<1> QED BY <1>2, <1>9, TxKeeps

\* withdrewDelegation keeps the invariant.
LEMMA WithdrewDelegationKeeps ==
    ASSUME IInv, NEW k \in DOMAIN w.del, NEW x \in Amounts, withdrewDelegation(k, x)
    PROVE  IInv'
<1> DEFINE a == k[1]
           n == k[2]
           c == w.can[n]
           d == lazyCalcAmount(Epoch, w.del[k])
           total == calcTotalAmount(d)
           sub == calcRealRefund(total, x)
           part == rufundDelegateFn(d, sub)
           paid == Refund(w, a, part.free, part.plan)
           rest == [part.rest EXCEPT !.epoch = Epoch]
           done == IF sub = total THEN DelDelegateStore(paid, k)
                   ELSE SetDelegation(paid, k, rest)
           mine == c.on /\ c.num = k[3]
           cut == [c EXCEPT !.shares = @ - sub]
<1>1. x \in Nat /\ WorldOK(w) /\ DelsOK(w.del) /\ (n \in Nodes => CandOK(c))
  BY StakingAssumption DEF IInv, WorldOK, CansOK
<1>2. /\ Tx /\ CanReturnLockFunds(w, a, part.plan)
      /\ w' = IF failed' THEN w
              ELSE IF mine /\ IsValid(c) THEN ChangeCandidate(done, n, cut)
              ELSE IF mine /\ c.shares > sub THEN SetCandidateStore(done, n, cut)
              ELSE done
  BY DEF withdrewDelegation
<1>3. DelOK(d)
  BY <1>1, LazyDelegation DEF DelsOK
<1> HIDE DEF d
<1>4. sub \in Nat
  BY <1>1, <1>3 DEF calcRealRefund, calcTotalAmount, DelOK
<1> HIDE DEF sub
<1>5. part.plan \in Nat /\ DelOK(rest)
  BY <1>3, <1>4, RefundParts
<1> HIDE DEF part, rest
<1>6. WorldOK(paid)
  BY <1>1, <1>2, <1>5, RefundKeeps
<1> HIDE DEF paid
<1>7. WorldOK(done)
  BY <1>5, <1>6, SetDelegationKeeps
<1> HIDE DEF done
<1>8. n \in Nodes => CandOK(cut)
  BY <1>1, StatusKeeps, Zenon
<1> HIDE DEF cut
<1>9. WorldOK(ChangeCandidate(done, n, cut)) /\ WorldOK(SetCandidateStore(done, n, cut))
  BY <1>7, <1>8, ChangeKeeps, SetCandidateKeeps, Zenon
<1> HIDE DEF mine, c, n
<1>10. WorldOK(w')
  BY <1>1, <1>2, <1>7, <1>9
<1> QED BY <1>2, <1>10, TxKeeps

\* createRestrictingPlan keeps the invariant.
LEMMA CreatePlanKeeps ==
    ASSUME IInv, NEW from \in Accounts, NEW a \in Accounts, NEW plan \in Plans,
           createRestrictingPlan(from, a, plan)
    PROVE  IInv'
<1>1. /\ Tx /\ CanAddRestrictingRecord(w, from, plan, Epoch)
      /\ w' = AddRestrictingRecord(w, from, a, plan, Epoch)
  BY DEF createRestrictingPlan
<1>2. WorldOK(w) /\ PlansOK(w) /\ Epoch \in Int
  BY EpochInRange DEF IInv, WorldOK
<1>3. PlansOK(w') /\ SameStakes(w, w')
  BY <1>1, <1>2, AddRecordKeeps
<1>4. WorldOK(w')
  BY <1>2, <1>3, StakesKept
<1> QED BY <1>1, <1>4, TxKeeps

\* A report of a double sign, two slashes one after the other, keeps it.
LEMMA SlashKeeps ==
    ASSUME IInv, NEW n \in Nodes, NEW reporter \in Accounts, Slash(n, reporter)
    PROVE  IInv'
<1> DEFINE x == calcCanTotalBalance(w.can[n]) \div FractionDenominator
           toCaller == x \div FractionDenominator
           first == toSlash(w, n, "DuplicateSign", toCaller, reporter)
           last == toSlash(first, n, "DuplicateSign", x - toCaller, RewardPool)
<1>1. WorldOK(w) /\ CandOK(w.can[n]) /\ FractionDenominator \in Nat \ {0}
  BY StakingAssumption DEF IInv, WorldOK, CansOK
<1>2. /\ Tx /\ w.can[n].on
      /\ ~ SlashError(w, n, "DuplicateSign", toCaller)
      /\ ~ SlashError(first, n, "DuplicateSign", x - toCaller)
      /\ w' = IF failed' THEN w ELSE last
  BY DEF Slash, HasServed
<1>3. calcCanTotalBalance(w.can[n]) \in Nat
  BY <1>1, LazyCandidate DEF calcCanTotalBalance, CandOK
<1>4. x \in Nat
  BY <1>1, <1>3, DivideBound
<1> HIDE DEF x
<1>5. toCaller \in Nat /\ x - toCaller \in Nat
  BY <1>1, <1>4, DivideBound
<1> HIDE DEF toCaller
<1>6. WorldOK(first) /\ first.can[n].on
  BY <1>1, <1>2, <1>5, ToSlashKeeps
<1> HIDE DEF first
<1>7. WorldOK(last)
  BY <1>2, <1>5, <1>6, ToSlashKeeps
<1> HIDE DEF last
<1>8. WorldOK(w')
  BY <1>1, <1>2, <1>7
<1> QED BY <1>2, <1>8, TxKeeps

\* The slash of a node that produced no block keeps the invariant, whatever
\* the candidate was in the state committed last.
LEMMA BeginBlockSlashKeeps ==
    ASSUME IInv, NEW n \in Nodes, BeginBlockSlash(n)
    PROVE  IInv'
<1> DEFINE x == checkSlashing(n)
           v == toSlash(w, n, "LowRatio", x, RewardPool)
<1>1. WorldOK(w) /\ CandOK(irr[n])
  BY DEF IInv, WorldOK, CansOK
<1>2. /\ w.can[n].on /\ failed' = (SlashError(w, n, "LowRatio", x) \/ SlashPanic(w, n, "LowRatio", x))
      /\ w' = IF failed' THEN w ELSE v
      /\ phase' = "txs" /\ irr' = w'.can /\ UNCHANGED <<block, index>>
  BY Zenon DEF BeginBlockSlash, HasServed
<1>3. calcCanTotalBalance(irr[n]) \in Nat
  BY <1>1, LazyCandidate DEF calcCanTotalBalance, CandOK
<1>4. x \in Nat
  BY <1>3, StakingAssumption DEF checkSlashing, Lesser
<1> HIDE DEF x
<1>5. WorldOK(w')
  <2>1. CASE failed'
    BY <1>1, <1>2, <2>1
  <2>2. CASE ~ failed'
    <3>1. ~ SlashError(w, n, "LowRatio", x)
      BY <1>2, <2>2, Zenon
    <3>2. WorldOK(v)
      BY <1>1, <1>2, <1>4, <3>1, ToSlashKeeps
    <3> HIDE DEF v
    <3> QED BY <1>2, <2>2, <3>2
  <2> QED BY <2>1, <2>2
<1>6. CansOK(irr')
  BY <1>2, <1>5 DEF WorldOK
<1>7. WorldOK(w)' /\ CansOK(irr)'
  BY <1>5, <1>6, Primes
<1> QED BY <1>2, <1>7 DEF IInv

\* A turn of releaseRestricting's loop keeps the invariant,
LEMMA ReleaseAccountKeeps ==
    ASSUME IInv, ReleaseAccount
    PROVE  IInv'
<1>1. /\ WorldOK(w) /\ PlansOK(w) /\ block \in Nat \ {0} /\ block <= MaxEpoch * EpochSize
      /\ phase = "release" /\ CansOK(irr)
  BY DEF IInv, WorldOK, ReleaseAccount
<1>2. w' = releaseRestricting(w, w.queue[Epoch][index], Epoch)
  BY DEF ReleaseAccount
<1>3. Epoch \in Epochs
  BY <1>1, EpochInRange
<1>4. PlansOK(w') /\ SameStakes(w, w')
  BY <1>1, <1>2, <1>3, ReleaseKeeps
<1>5. WorldOK(w')
  BY <1>1, <1>4, StakesKept
<1>6. WorldOK(w)' /\ CansOK(irr)'
  BY <1>1, <1>5, Primes DEF ReleaseAccount
<1> QED BY <1>1, <1>6 DEF IInv, ReleaseAccount

\* and so does the end of the loop, with the foundation's plan.
LEMMA ReleaseDoneKeeps ==
    ASSUME IInv, ReleaseDone
    PROVE  IInv'
<1> DEFINE v == IF Epoch = YearEnd THEN releaseGenesisRestrictingPlans(w) ELSE w
<1>1. WorldOK(w) /\ PlansOK(w)
  BY DEF IInv, WorldOK
<1>2. w' = [v EXCEPT !.queue[Epoch] = << >>]
  BY DEF ReleaseDone
<1>3. PICK f : w' = [v EXCEPT !.queue = f]
  BY <1>2, Zenon
<1>4. PlansOK(v) /\ SameStakes(w, v)
  BY <1>1, GenesisKeeps DEF SameStakes
<1> HIDE DEF v
<1>5. PlansOK(w') /\ SameStakes(v, w')
  BY <1>3, <1>4, SetQueue
<1>6. SameStakes(w, w')
  BY <1>4, <1>5 DEF SameStakes
<1>7. WorldOK(w')
  BY <1>1, <1>5, <1>6, StakesKept
<1>8. WorldOK(w)' /\ CansOK(irr)'
  BY <1>7, Primes DEF IInv, ReleaseDone
<1> QED BY <1>8 DEF IInv, ReleaseDone

\* handleUnStake returns locked money twice, effective or not, and both times
\* the plans have advanced that much.
LEMMA UnStakeKeeps ==
    ASSUME WorldOK(w), NEW n \in Nodes, w.can[n].on,
           CanReturnLockFunds(w, w.can[n].owner, w.can[n].plan + w.can[n].planHes)
    PROVE  WorldOK(handleUnStake(n))
<1> DEFINE c == lazyCalcAmount(Epoch, w.can[n])
           hes == Refund(w, c.owner, c.releasedHes + c.released, c.planHes)
           v == ReturnLockFunds(hes, c.owner, c.plan)
<1>1. CandOK(w.can[n])
  BY DEF WorldOK, CansOK
<1>2. /\ CandOK(c) /\ c.on /\ c.owner = w.can[n].owner
      /\ c.plan + c.planHes = w.can[n].plan + w.can[n].planHes
  BY <1>1, LazyCandidate
<1>3. handleUnStake(n) = SetCandidateStore(v, n, NoCandidate)
  BY Zenon DEF handleUnStake
<1> HIDE DEF c
<1>4. c.owner \in Accounts /\ c.plan \in Nat /\ c.planHes \in Nat
  BY <1>2 DEF CandOK
<1>5. c.plan + c.planHes = c.planHes + c.plan
  BY <1>4
<1>6. CanReturnLockFunds(w, c.owner, c.planHes + c.plan)
  BY <1>2, <1>5
<1>7. CanReturnLockFunds(w, c.owner, c.planHes)
  <2>1. w.info[c.owner].advance \in Nat
    BY <1>4 DEF WorldOK, PlansOK, Infos
  <2> QED BY <1>4, <1>6, <2>1 DEF CanReturnLockFunds
<1>8. WorldOK(hes) /\ CanReturnLockFunds(hes, c.owner, c.plan)
  BY <1>4, <1>6, <1>7, RefundKeeps
<1> HIDE DEF hes
<1>9. PlansOK(v) /\ SameStakes(hes, v)
  <2>1. PlansOK(hes)
    BY <1>8 DEF WorldOK
  <2> QED BY <1>4, <1>8, <2>1, ReturnKeeps
<1> HIDE DEF v
<1>10. WorldOK(v)
  BY <1>8, <1>9, StakesKept
<1>11. CandOK(NoCandidate)
  BY NoCandidateOK
<1>12. WorldOK(SetCandidateStore(v, n, NoCandidate))
  BY <1>10, <1>11, SetCandidateKeeps, Zenon
<1> QED BY <1>3, <1>12

\* The recovery of a locked candidate moves no money.
LEMMA RecoveryKeeps ==
    ASSUME WorldOK(w), NEW n \in Nodes
    PROVE  WorldOK(handleRecovery(n))
<1> DEFINE c == w.can[n]
           s == SubAccountStakeRc(w, c.owner)
           t == addUnStakeItem(s, n, c.num)
           d == [c EXCEPT !.status = @ \ {"LowRatio"}]
           e == [c EXCEPT !.status = {}]
           v == SetCandidateStore(w, n, e)
<1>1. handleRecovery(n) = IF "DuplicateSign" \in c.status THEN SetCandidateStore(t, n, d)
                          ELSE SetCanPowerStore(v, n)
  BY DEF handleRecovery
<1>2. CandOK(c)
  BY DEF WorldOK, CansOK
<1>3. c.num \in Int
  BY <1>2 DEF CandOK
<1>4. CandOK(d) /\ CandOK(e)
  BY <1>2, StatusKeeps, Zenon
<1> HIDE DEF d, e
<1>5. WorldOK(s)
  BY SubRcKeeps
<1> HIDE DEF s
<1>6. WorldOK(t)
  BY <1>3, <1>5, AddItemKeeps, Zenon DEF addUnStakeItem
<1> HIDE DEF t
<1>7. WorldOK(SetCandidateStore(t, n, d))
  BY <1>4, <1>6, SetCandidateKeeps, Zenon
<1>8. WorldOK(v)
  BY <1>4, SetCandidateKeeps, Zenon
<1> HIDE DEF v
<1>9. WorldOK(SetCanPowerStore(v, n))
  BY <1>8, PowerKeeps
<1> QED BY <1>1, <1>7, <1>9

\* A turn of HandleUnCandidateItem's loop keeps the invariant.
LEMMA HandleItemKeeps ==
    ASSUME IInv, HandleUnCandidateItem
    PROVE  IInv'
<1> DEFINE items == w.items[Epoch]
           item == items[index]
           n == item.node
           c == w.can[n]
           stale == \/ ~ c.on \/ c.num # item.num
                    \/ \E i \in 1..(index - 1) : items[i].node = n /\ items[i].num = item.num
<1>1. /\ WorldOK(w) /\ w.items \in [Epochs -> Seq(ItemSet)] /\ block \in Nat \ {0}
      /\ block <= MaxEpoch * EpochSize /\ index \in Nat \ {0} /\ phase = "unstake"
      /\ CansOK(irr)
  BY Zenon DEF IInv, WorldOK, HandleUnCandidateItem
<1>2. /\ index <= Len(items)
      /\ failed' = (/\ ~ stale /\ ~ item.recovery
                    /\ ~ CanReturnLockFunds(w, c.owner, c.plan + c.planHes))
      /\ w' = IF stale \/ failed' THEN w
              ELSE IF item.recovery THEN handleRecovery(n) ELSE handleUnStake(n)
      /\ index' = index + 1 /\ UNCHANGED <<block, phase, irr>>
  BY Zenon DEF HandleUnCandidateItem
<1>3. n \in Nodes
  <2>1. items \in Seq(ItemSet)
    BY <1>1, EpochInRange
  <2>2. index \in Nat \ {0} /\ index <= Len(items)
    BY <1>1, <1>2, Zenon
  <2> HIDE DEF items
  <2>3. item \in ItemSet
    <3>1. index \in 1..Len(items)
      BY <2>1, <2>2
    <3> QED BY <2>1, <3>1
  <2> HIDE DEF item
  <2> QED BY <2>3 DEF ItemSet
<1>4. WorldOK(w')
  <2>1. CASE stale \/ failed'
    BY <1>1, <1>2, <2>1, Zenon
  <2>2. CASE ~ (stale \/ failed')
    <3>1. c.on
      BY <2>2, Zenon
    <3>2. item.recovery \/ CanReturnLockFunds(w, c.owner, c.plan + c.planHes)
      BY <1>2, <2>2, Zenon
    <3> HIDE DEF stale, n
    <3>3. WorldOK(handleRecovery(n))
      BY <1>1, <1>3, RecoveryKeeps
    <3>4. ~ item.recovery => WorldOK(handleUnStake(n))
      BY <1>1, <1>3, <3>1, <3>2, UnStakeKeeps
    <3> QED BY <1>2, <2>2, <3>3, <3>4
  <2> QED BY <2>1, <2>2, Zenon
<1> HIDE DEF item, n, stale, items
<1>5. WorldOK(w)' /\ CansOK(irr)'
  BY <1>1, <1>2, <1>4, Primes
<1> QED BY <1>1, <1>2, <1>5 DEF IInv

\* The election that ends an epoch keeps the invariant,
LEMMA ElectKeeps ==
    ASSUME IInv, ElectNextVerifierList
    PROVE  IInv'
<1> DEFINE f == [w.items EXCEPT ![Epoch] = << >>]
<1>1. WorldOK(w) /\ w.items \in [Epochs -> Seq(ItemSet)] /\ block \in Nat \ {0}
  BY DEF IInv, WorldOK
<1>2. w' = [w EXCEPT !.items = f]
  BY DEF ElectNextVerifierList
<1>3. f \in [Epochs -> Seq(ItemSet)]
  <2>1. << >> \in Seq(ItemSet)
    OBVIOUS
  <2> QED BY <1>1, <2>1, Zenon
<1> HIDE DEF f
<1>4. WorldOK(w')
  BY <1>1, <1>2, <1>3, ItemsKeep
<1>5. WorldOK(w)' /\ CansOK(irr)'
  BY <1>4, Primes DEF IInv, ElectNextVerifierList
<1> QED BY <1>1, <1>5 DEF IInv, ElectNextVerifierList

\* and so does the end of the transactions of a block.
LEMMA EndBlockKeeps ==
    ASSUME IInv, EndBlock
    PROVE  IInv'
<1>1. /\ block \in Nat \ {0} /\ block <= MaxEpoch * EpochSize
      /\ phase' \in {"release", "begin"} /\ block' \in {block, block + 1}
      /\ phase' = "release" => block' = block
  BY DEF IInv, EndBlock
<1>2. WorldOK(w)' /\ CansOK(irr)'
  BY Primes DEF IInv, EndBlock
<1> QED BY <1>1, <1>2 DEF IInv

-----------------------------------------------------------------------------
(* Theorems *)

\* The first state, without plans, candidates and delegations, satisfies the
\* inductive invariant.
THEOREM InitSound == Init => IInv
<1> SUFFICES ASSUME Init PROVE IInv
  OBVIOUS
<1> DEFINE bal == [h \in Accounts \union {StakingContract, RestrictingContract, RewardPool} |->
                      IF h \in Accounts THEN Balance
                      ELSE IF h = RestrictingContract THEN Total(Genesis) ELSE 0]
           info == [a \in Accounts |-> Absent]
           amount == [e \in Epochs |-> [a \in Accounts |-> 0]]
           none == [e \in Epochs |-> << >>]
           can == [n \in Nodes |-> NoCandidate]
           rc == [a \in Accounts |-> 0]
<1>1. /\ w = [bal |-> bal, info |-> info, amount |-> amount, queue |-> none,
              genesis |-> Genesis, can |-> can, power |-> {}, items |-> none, rc |-> rc,
              del |-> << >>]
      /\ block = 1 /\ phase = "begin" /\ irr = w.can
  BY DEF Init
<1>2. InfoSound(Absent) /\ CandOK(NoCandidate)
  BY NoCandidateOK DEF InfoSound, Infos, Absent
<1>3. /\ info \in [Accounts -> Infos] /\ \A a \in Accounts : InfoSound(info[a])
  BY <1>2 DEF InfoSound
<1>4. amount \in [Epochs -> [Accounts -> Nat]]
  OBVIOUS
<1>5. CansOK(can)
  BY <1>2 DEF CansOK
<1>6. none \in [Epochs -> Seq(ItemSet)]
  <2>1. << >> \in Seq(ItemSet)
    OBVIOUS
  <2> QED BY <2>1
<1>7. DelsOK(<< >>)
  BY DEF DelsOK
<1> HIDE DEF bal, info, amount, none, can, rc
<1>8. /\ w.info = info /\ w.amount = amount /\ w.can = can /\ w.items = none
      /\ w.del = << >> /\ IsWorld(w)
  BY <1>1 DEF IsWorld
<1>9. WorldOK(w)
  BY <1>3, <1>4, <1>5, <1>6, <1>7, <1>8, Zenon DEF WorldOK, PlansOK
<1>10. CansOK(irr)
  BY <1>1, <1>5, <1>8
<1> QED BY <1>1, <1>9, <1>10 DEF IInv

\* Every transaction and every hook of a block preserves the inductive
\* invariant.
THEOREM NextSound == IInv /\ [Next]_vars => IInv'
<1> SUFFICES ASSUME IInv, [Next]_vars PROVE IInv'
  OBVIOUS
<1>1. ASSUME UNCHANGED <<w, block>>, phase' \in {"begin", "txs"}, irr' \in {irr, w.can}
      PROVE  IInv'
  <2>1. WorldOK(w') /\ CansOK(irr')
    BY <1>1 DEF IInv, WorldOK
  <2>2. WorldOK(w)' /\ CansOK(irr)'
    BY <2>1, Primes
  <2> QED BY <1>1, <2>2 DEF IInv
<1>2. CASE StakeTx
  BY <1>2, CreateStakingKeeps, IncreaseStakingKeeps DEF StakeTx
<1>3. CASE DelegateTx
  BY <1>3, DelegateKeeps, WithdrewDelegationKeeps DEF DelegateTx
<1>4. CASE OtherTx
  BY <1>4, WithdrewStakingKeeps, CreatePlanKeeps, SlashKeeps DEF OtherTx
<1>5. CASE BeginBlock \/ Commit \/ \E t \in Thresholds : GovernStakeThreshold(t)
  BY <1>1, <1>5 DEF BeginBlock, Commit, GovernStakeThreshold
<1>6. CASE \E n \in Nodes : BeginBlockSlash(n)
  BY <1>6, BeginBlockSlashKeeps
<1>7. CASE EndBlock
  BY <1>7, EndBlockKeeps
<1>8. CASE ReleaseAccount
  BY <1>8, ReleaseAccountKeeps
<1>9. CASE ReleaseDone
  BY <1>9, ReleaseDoneKeeps
<1>10. CASE HandleUnCandidateItem
  BY <1>10, HandleItemKeeps
<1>11. CASE ElectNextVerifierList
  BY <1>11, ElectKeeps
<1>12. CASE UNCHANGED vars
  <2>1. WorldOK(w') /\ CansOK(irr')
    BY <1>12 DEF IInv, vars
  <2>2. WorldOK(w)' /\ CansOK(irr)'
    BY <2>1, Primes
  <2> QED BY <1>12, <2>2 DEF IInv, vars
<1> QED BY <1>2, <1>3, <1>4, <1>5, <1>6, <1>7, <1>8, <1>9, <1>10, <1>11, <1>12 DEF Next, Hooks

\* The books of the restricting plans are sound in every reachable state, for
\* any accounts, nodes, plans, amounts, thresholds and lengths of epochs: no
\* transaction, slash, release or refund advances or drops more than is
\* locked, and money is owed only when all of it is staked.
THEOREM PlansAlwaysSound == Spec => []PlansSound
<1>1. IInv => PlansSound
  BY DEF IInv, WorldOK, PlansOK, InfoSound, PlansSound, BooksSound
<1> QED BY <1>1, InitSound, NextSound, PTL DEF Spec

=============================================================================
