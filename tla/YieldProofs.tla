---------------------------- MODULE YieldProofs -----------------------------
(***************************************************************************)
(* What holds of the yield vault for every set of depositors, every rate,  *)
(* fee, cap and amount, and every scale of its fixed-point arithmetic: its *)
(* shares add up, every holder can be paid, no round trip gains, and no    *)
(* rate reaches back before it was announced.  And what holds of the       *)
(* backend that follows the chain, for every list of events: its balances  *)
(* are those its rows explain, and no event behind the cursor is missing.  *)
(***************************************************************************)
EXTENDS Yield, SumTheorems, SequenceTheorems, TLAPS

\* The index never falls below its first value: it is why a share never costs
\* less than one asset although deposits and exits are priced differently.
IndexAtLeastOne == pool.index >= PRECISION

\* The rate that is queued was announced a time lock before it may be applied.
QueuedInTime == pool.proposed # NoRate => pool.activation = announcedAt + APY_TIMELOCK

Backed ==
    /\ pool.shares = Sum(sharesOf, Depositors)
    /\ pool.assets = tokens[Vault] /\ pool.shares <= pool.assets

VaultInv == VaultTypeOK /\ IndexAtLeastOne /\ QueuedInTime /\ Backed /\ PrincipalHasShares

-----------------------------------------------------------------------------
(***************************************************************************)
(* Rounding.                                                               *)
(***************************************************************************)

LEMMA ProductMonotone ==
    ASSUME NEW k \in Nat, NEW m \in Nat, NEW n \in Nat, m <= n
    PROVE  k * m <= k * n /\ m * k <= n * k
OBVIOUS

LEMMA QuotientBounds ==
    ASSUME NEW n \in Nat, NEW d \in Nat \ {0}
    PROVE  /\ n \div d \in Nat
           /\ (n \div d) * d <= n
           /\ n < ((n \div d) + 1) * d
OBVIOUS

LEMMA QuotientAtLeast ==
    ASSUME NEW n \in Nat, NEW d \in Nat \ {0}, NEW q \in Nat, q * d <= n
    PROVE  q <= n \div d
<1> DEFINE r == n \div d
<1>1. r \in Nat /\ n < (r + 1) * d
  BY QuotientBounds
<1> HIDE DEF r
<1>2. ASSUME r + 1 <= q PROVE FALSE
  <2>1. (r + 1) * d <= q * d
    BY <1>1, <1>2, ProductMonotone
  <2> QED
    BY <1>1, <2>1
<1> QED
  BY <1>1, <1>2 DEF r

LEMMA QuotientAtMost ==
    ASSUME NEW n \in Nat, NEW d \in Nat \ {0}, NEW q \in Nat, n <= q * d
    PROVE  n \div d <= q
<1> DEFINE r == n \div d
<1>1. r \in Nat /\ r * d <= n
  BY QuotientBounds
<1> HIDE DEF r
<1>2. ASSUME q + 1 <= r PROVE FALSE
  <2>1. (q + 1) * d <= r * d
    BY <1>1, <1>2, ProductMonotone
  <2>2. (q + 1) * d = q * d + d
    OBVIOUS
  <2> QED
    BY <1>1, <2>1, <2>2
<1> QED
  BY <1>1, <1>2 DEF r

\* A deposit of a into a pool of S shares and A assets, with V virtual shares
\* and P virtual assets, P >= V: it buys no more shares than assets.
LEMMA SharesBought ==
    ASSUME NEW S \in Nat, NEW A \in Nat, NEW V \in Nat \ {0}, NEW P \in Nat, NEW a \in Nat,
           S <= A, V <= P
    PROVE  LET sh == (a * (S + V)) \div (A + P)
           IN  sh \in Nat /\ sh <= a /\ sh * (A + V) <= a * (S + V)
<1> DEFINE n == a * (S + V)
           sh == n \div (A + P)
<1>1. n \in Nat /\ A + P \in Nat \ {0}
  OBVIOUS
<1>2. n <= a * (A + P)
  BY ProductMonotone
<1>3. sh \in Nat /\ sh * (A + P) <= n
  BY <1>1, QuotientBounds
<1>4. sh <= a
  BY <1>1, <1>2, QuotientAtMost
<1>5. sh * (A + V) <= sh * (A + P)
  BY <1>3, ProductMonotone
<1>6. sh * (A + V) <= n
  BY <1>3, <1>5
<1> QED
  BY <1>3, <1>4, <1>6

\* Taking it out at once: rounding is against the caller both times.
LEMMA RoundTrip ==
    ASSUME NEW S \in Nat, NEW A \in Nat, NEW V \in Nat \ {0}, NEW a \in Nat, NEW sh \in Nat,
           sh * (A + V) <= a * (S + V)
    PROVE  (sh * (A + a + V)) \div (S + sh + V) <= a
<1>1. sh * (A + a + V) = sh * (A + V) + sh * a
  OBVIOUS
<1>2. a * (S + sh + V) = a * (S + V) + sh * a
  OBVIOUS
<1>3. sh * (A + a + V) <= a * (S + sh + V)
  <2>1. sh * (A + V) \in Nat /\ sh * a \in Nat /\ a * (S + V) \in Nat
    OBVIOUS
  <2> QED
    BY <1>1, <1>2, <2>1
<1>4. sh * (A + a + V) \in Nat /\ S + sh + V \in Nat \ {0}
  OBVIOUS
<1> QED
  BY <1>3, <1>4, QuotientAtMost

\* An exit of s of S shares: it pays at least s and leaves the others as many
\* assets as they have shares.
LEMMA AssetsPaid ==
    ASSUME NEW S \in Nat, NEW A \in Nat, NEW V \in Nat \ {0}, NEW s \in Nat, s <= S, S <= A
    PROVE  LET x == (s * (A + V)) \div (S + V)
           IN  x \in Nat /\ s <= x /\ x <= A /\ S - s <= A - x
<1> DEFINE n == s * (A + V)
           x == n \div (S + V)
           k == A - S
<1>1. n \in Nat /\ S + V \in Nat \ {0} /\ k \in Nat /\ A = S + k
  OBVIOUS
<1>2. x \in Nat
  BY <1>1, QuotientBounds
<1>3. s * (S + V) <= n
  BY ProductMonotone
<1>4. s <= x
  BY <1>1, <1>3, QuotientAtLeast
<1>5. n <= (s + k) * (S + V)
  <2>1. n = s * (S + V) + s * k
    BY <1>1
  <2>2. (s + k) * (S + V) = s * (S + V) + k * (S + V)
    BY <1>1
  <2>3. s * k <= k * (S + V)
    BY <1>1, ProductMonotone
  <2>4. s * (S + V) \in Nat /\ s * k \in Nat /\ k * (S + V) \in Nat
    BY <1>1
  <2> QED
    BY <2>1, <2>2, <2>3, <2>4
<1>6. x <= s + k
  BY <1>1, <1>5, QuotientAtMost
<1> QED
  BY <1>1, <1>2, <1>4, <1>6

\* The part of a principal d that goes with s of n shares.
LEMMA PrincipalLeft ==
    ASSUME NEW d \in Nat, NEW n \in Nat \ {0}, NEW s \in Nat, s <= n
    PROVE  LET left == d - (d * s) \div n
           IN  /\ left \in Nat
               /\ s = n => left = 0
               /\ s < n /\ d > 0 => left > 0
<1> DEFINE q == (d * s) \div n
<1>1. d * s \in Nat
  OBVIOUS
<1>2. q \in Nat /\ q * n <= d * s /\ d * s < (q + 1) * n
  BY <1>1, QuotientBounds
<1>3. d * s <= d * n
  BY ProductMonotone
<1>4. q <= d
  BY <1>1, <1>3, QuotientAtMost
<1>5. s = n => q = d
  BY <1>1, <1>4, QuotientAtLeast
<1>6. ASSUME s < n, d > 0, q = d PROVE FALSE
  <2>1. d * s < d * n
    BY <1>6
  <2> QED
    BY <1>2, <1>6, <2>1
<1> QED
  BY <1>2, <1>4, <1>5, <1>6

-----------------------------------------------------------------------------
(***************************************************************************)
(* The pool's record and its prices.                                       *)
(***************************************************************************)
PoolAt(n) == [shares : Nat, assets : Nat, index : Nat, indexAt : 0..n, apy : Nat,
              maxApy : 0..MAX_APY_CAP_BPS, proposed : Nat \cup {NoRate}, activation : Nat,
              paused : BOOLEAN, cap : Nat, exitFee : 0..MAX_EXIT_FEE_BPS, treasury : Treasuries]

LEMMA PoolNumbers ==
    ASSUME VaultTypeOK
    PROVE  /\ pool \in PoolAt(sequence)
           /\ pool.shares \in Nat /\ pool.assets \in Nat /\ pool.index \in Nat /\ pool.apy \in Nat
           /\ pool.indexAt \in Nat /\ pool.indexAt <= sequence /\ sequence \in Nat
           /\ pool.exitFee \in Nat /\ pool.exitFee <= FeeScale
           /\ pool.treasury \in Treasuries
<1>1. pool \in PoolAt(sequence) /\ sequence \in 0..MaxSequence
  BY DEF VaultTypeOK, PoolAt
<1>2. pool.indexAt \in 0..sequence /\ pool.exitFee \in 0..MAX_EXIT_FEE_BPS /\ pool.treasury \in Treasuries
      /\ pool.shares \in Nat /\ pool.assets \in Nat /\ pool.index \in Nat /\ pool.apy \in Nat
  BY <1>1 DEF PoolAt
<1> QED
  BY <1>1, <1>2, VaultConstants

\* Growth since the index was stored is not negative.
LEMMA IndexGrows ==
    ASSUME VaultTypeOK
    PROVE  CurrentIndex \in Nat /\ pool.index <= CurrentIndex
<1>1. sequence - pool.indexAt \in Nat
  BY PoolNumbers
<1>2. pool.index * pool.apy * (sequence - pool.indexAt) \in Nat
  BY <1>1, PoolNumbers
<1>3. (pool.index * pool.apy * (sequence - pool.indexAt)) \div RateScale \in Nat
  BY <1>2, QuotientBounds, VaultConstants
<1> QED
  BY <1>3, PoolNumbers DEF CurrentIndex

\* The virtual assets of a deposit are at least the virtual shares.
LEMMA VirtualAssets ==
    ASSUME VaultTypeOK, IndexAtLeastOne
    PROVE  LET P == (VIRTUAL_OFFSET * CurrentIndex) \div PRECISION
           IN  P \in Nat /\ VIRTUAL_OFFSET <= P
<1>1. CurrentIndex \in Nat /\ PRECISION <= CurrentIndex /\ VIRTUAL_OFFSET \in Nat /\ PRECISION \in Nat \ {0}
  BY IndexGrows, PoolNumbers, VaultConstants DEF IndexAtLeastOne
<1>2. VIRTUAL_OFFSET * PRECISION <= VIRTUAL_OFFSET * CurrentIndex /\ VIRTUAL_OFFSET * CurrentIndex \in Nat
  BY <1>1, ProductMonotone
<1> QED
  BY <1>1, <1>2, QuotientAtLeast, QuotientBounds

LEMMA DepositBuys ==
    ASSUME VaultTypeOK, IndexAtLeastOne, pool.shares <= pool.assets, NEW a \in Nat
    PROVE  /\ SharesFor(a) \in Nat /\ SharesFor(a) <= a
           /\ SharesFor(a) * (pool.assets + VIRTUAL_OFFSET) <= a * (pool.shares + VIRTUAL_OFFSET)
<1> DEFINE P == (VIRTUAL_OFFSET * CurrentIndex) \div PRECISION
<1>1. P \in Nat /\ VIRTUAL_OFFSET <= P
  BY VirtualAssets
<1>2. SharesFor(a) = (a * (pool.shares + VIRTUAL_OFFSET)) \div (pool.assets + P)
  BY DEF SharesFor
<1> HIDE DEF P
<1>3. pool.shares \in Nat /\ pool.assets \in Nat /\ VIRTUAL_OFFSET \in Nat \ {0}
  BY PoolNumbers, VaultConstants
<1> DEFINE S == pool.shares
           A == pool.assets
           sh == (a * (S + VIRTUAL_OFFSET)) \div (A + P)
<1>4. sh \in Nat /\ sh <= a /\ sh * (A + VIRTUAL_OFFSET) <= a * (S + VIRTUAL_OFFSET)
  <2> HIDE DEF S, A
  <2>1. S \in Nat /\ A \in Nat /\ S <= A
    BY <1>3 DEF S, A
  <2> QED
    BY <1>1, <1>3, <2>1, SharesBought
<1> HIDE DEF sh
<1>5. SharesFor(a) = sh
  BY <1>2 DEF sh
<1> QED
  BY <1>4, <1>5

LEMMA ExitPays ==
    ASSUME VaultTypeOK, pool.shares <= pool.assets, NEW s \in Nat, s <= pool.shares
    PROVE  /\ AssetsFor(s) \in Nat /\ s <= AssetsFor(s) /\ AssetsFor(s) <= pool.assets
           /\ pool.shares - s <= pool.assets - AssetsFor(s)
<1> QED
  BY AssetsPaid, PoolNumbers, VaultConstants DEF AssetsFor

\* Nobody holds more shares than there are.
LEMMA SharesOfTotal ==
    ASSUME VaultTypeOK, Backed, NEW u \in Depositors
    PROVE  sharesOf[u] \in Nat /\ sharesOf[u] <= pool.shares
<1>1. IsFiniteSet(Depositors) /\ \A v \in Depositors : sharesOf[v] \in Nat
  BY VaultConstants DEF VaultTypeOK
<1> QED
  BY <1>1, SumBounds DEF Backed

\* Shares of one user change.
LEMMA SharesChange ==
    ASSUME VaultTypeOK, NEW u \in Depositors, NEW n \in Nat
    PROVE  Sum([sharesOf EXCEPT ![u] = n], Depositors) = Sum(sharesOf, Depositors) - sharesOf[u] + n
<1>1. IsFiniteSet(Depositors) /\ sharesOf \in [Depositors -> Int]
  BY VaultConstants DEF VaultTypeOK
<1> DEFINE new == [sharesOf EXCEPT ![u] = n]
<1>2. new \in [Depositors -> Int] /\ new[u] = n /\ \A v \in Depositors \ {u} : new[v] = sharesOf[v]
  BY <1>1
<1> HIDE DEF new
<1>3. Sum(new, Depositors) = Sum(sharesOf, Depositors) - sharesOf[u] + new[u]
  BY <1>1, <1>2, SumChange
<1> QED
  BY <1>2, <1>3 DEF new

LEMMA MaxOfZero == ASSUME NEW n \in Nat PROVE Max({0, n}) = n
<1>1. \A x \in {0, n} : (\A y \in {0, n} : x >= y) <=> x = n
  OBVIOUS
<1> QED
  BY <1>1 DEF Max

-----------------------------------------------------------------------------
(***************************************************************************)
(* The checkpoint.                                                         *)
(***************************************************************************)
LEMMA CheckpointKeeps ==
    ASSUME VaultTypeOK, IndexAtLeastOne
    PROVE  /\ Checkpointed \in PoolAt(sequence)
           /\ Checkpointed.index = CurrentIndex /\ Checkpointed.indexAt = sequence
           /\ Checkpointed.index >= PRECISION
           /\ Checkpointed.shares = pool.shares /\ Checkpointed.assets = pool.assets
           /\ Checkpointed.apy = pool.apy /\ Checkpointed.proposed = pool.proposed
           /\ Checkpointed.activation = pool.activation
<1>1. pool \in PoolAt(sequence) /\ CurrentIndex \in Nat /\ sequence \in 0..sequence
  BY PoolNumbers, IndexGrows
<1>2. CurrentIndex >= PRECISION
  BY IndexGrows, PoolNumbers, VaultConstants DEF IndexAtLeastOne
<1> QED
  BY <1>1, <1>2 DEF Checkpointed, PoolAt

-----------------------------------------------------------------------------
(***************************************************************************)
(* Money moves.                                                            *)
(***************************************************************************)
LEMMA HoldersDiffer ==
    ASSUME NEW u \in Depositors, NEW t \in Treasuries
    PROVE  u # Vault /\ t # Vault /\ u # t /\ u \in Holders /\ t \in Holders /\ Vault \in Holders
BY VaultConstants DEF Vault, Holders

\* Whoever leaves takes along what the shares are worth, and the others' stay
\* covered; how the payment is split is left open.
LEMMA ExitStep ==
    ASSUME VaultInv, NEW u \in Depositors, NEW s \in Nat, s <= sharesOf[u],
           NEW d \in Nat, sharesOf[u] - s = 0 <=> d = 0,
           pool' = PoolLess(s, AssetsFor(s)),
           sharesOf' = [sharesOf EXCEPT ![u] = sharesOf[u] - s],
           depositOf' = [depositOf EXCEPT ![u] = d],
           tokens' \in [Holders -> Nat], tokens'[Vault] = tokens[Vault] - AssetsFor(s),
           UNCHANGED <<stray, sequence, announcedAt, settings>>
    PROVE  VaultInv'
<1> DEFINE x == AssetsFor(s)
<1>1. VaultTypeOK /\ IndexAtLeastOne /\ QueuedInTime /\ Backed /\ PrincipalHasShares
  BY DEF VaultInv
<1>2. pool.shares \in Nat /\ pool.assets \in Nat /\ sharesOf[u] \in Nat /\ sharesOf[u] <= pool.shares
      /\ pool.shares <= pool.assets
  BY <1>1, PoolNumbers, SharesOfTotal DEF Backed
<1>3. x \in Nat /\ s <= x /\ x <= pool.assets /\ pool.shares - s <= pool.assets - x
  <2>1. s <= pool.shares
    BY <1>2
  <2> QED
    BY <1>1, <1>2, <2>1, ExitPays
<1> HIDE DEF x
<1>4. Checkpointed \in PoolAt(sequence) /\ Checkpointed.index >= PRECISION
      /\ Checkpointed.shares = pool.shares /\ Checkpointed.assets = pool.assets
      /\ Checkpointed.proposed = pool.proposed /\ Checkpointed.activation = pool.activation
  BY <1>1, CheckpointKeeps
<1>5. Max({0, pool.shares - s}) = pool.shares - s /\ Max({0, pool.assets - x}) = pool.assets - x
  BY <1>2, <1>3, MaxOfZero
<1>6. pool' = [Checkpointed EXCEPT !.shares = Max({0, Checkpointed.shares - s}),
                                   !.assets = Max({0, Checkpointed.assets - x})]
  BY DEF PoolLess, x
<1>7. pool' = [Checkpointed EXCEPT !.shares = pool.shares - s, !.assets = pool.assets - x]
  BY <1>4, <1>5, <1>6
<1>8. /\ pool' \in PoolAt(sequence) /\ pool'.index >= PRECISION
      /\ pool'.shares = pool.shares - s /\ pool'.assets = pool.assets - x
      /\ pool'.proposed = pool.proposed /\ pool'.activation = pool.activation
  <2>1. pool.shares - s \in Nat /\ pool.assets - x \in Nat
    BY <1>2, <1>3
  <2> QED
    BY <1>4, <1>7, <2>1 DEF PoolAt
<1>9. VaultTypeOK'
  <2>1. sharesOf' \in [Depositors -> Nat]
    BY <1>1, <1>2 DEF VaultTypeOK
  <2>2. depositOf' \in [Depositors -> Nat]
    BY <1>1 DEF VaultTypeOK
  <2>3. pool' \in PoolAt(sequence')
    BY <1>8
  <2> QED
    BY <1>1, <2>1, <2>2, <2>3 DEF VaultTypeOK, PoolAt, Holders, Vault
<1>10. Backed'
  <2>1. Sum(sharesOf', Depositors) = Sum(sharesOf, Depositors) - s
    <3>1. sharesOf[u] - s \in Nat /\ pool.shares = Sum(sharesOf, Depositors)
      BY <1>1, <1>2 DEF Backed
    <3> DEFINE n == sharesOf[u] - s
    <3>2. n \in Nat
      BY <3>1
    <3>3. sharesOf' = [sharesOf EXCEPT ![u] = n]
      OBVIOUS
    <3> HIDE DEF n
    <3>4. Sum(sharesOf', Depositors) = Sum(sharesOf, Depositors) - sharesOf[u] + n
      BY <1>1, <3>2, <3>3, SharesChange
    <3> QED
      BY <1>2, <3>1, <3>4 DEF n
  <2>2. pool.assets = tokens[Vault] /\ pool.shares = Sum(sharesOf, Depositors)
    BY <1>1 DEF Backed
  <2>3. tokens'[Vault] = tokens[Vault] - x
    BY DEF x
  <2> QED
    BY <1>2, <1>3, <1>8, <2>1, <2>2, <2>3 DEF Backed, Vault
<1>11. PrincipalHasShares'
  <2>1. \A v \in Depositors : sharesOf'[v] = 0 <=> depositOf'[v] = 0
    BY <1>1 DEF PrincipalHasShares, VaultTypeOK
  <2> QED
    BY <2>1 DEF PrincipalHasShares
<1>12. IndexAtLeastOne' /\ QueuedInTime'
  BY <1>1, <1>8 DEF IndexAtLeastOne, QueuedInTime
<1> QED
  BY <1>9, <1>10, <1>11, <1>12 DEF VaultInv

\* What is left of the principal is a number, and zero only when nothing of the
\* shares is left.
LEMMA ReducedStep ==
    ASSUME VaultTypeOK, PrincipalHasShares, NEW u \in Depositors, NEW s \in 1..sharesOf[u]
    PROVE  \E d \in Nat : /\ sharesOf[u] - s = 0 <=> d = 0
                          /\ DepositReduced(u, s) = [depositOf EXCEPT ![u] = d]
<1> DEFINE d == depositOf[u] - (depositOf[u] * s) \div sharesOf[u]
<1>1. depositOf[u] \in Nat /\ sharesOf[u] \in Nat \ {0} /\ s \in Nat /\ s <= sharesOf[u]
  BY DEF VaultTypeOK
<1>2. depositOf[u] > 0
  BY <1>1 DEF PrincipalHasShares
<1>3. d \in Nat /\ (s = sharesOf[u] => d = 0) /\ (s < sharesOf[u] /\ depositOf[u] > 0 => d > 0)
  BY <1>1, PrincipalLeft
<1>4. DepositReduced(u, s) = [depositOf EXCEPT ![u] = d]
  BY DEF DepositReduced, VaultTypeOK
<1> HIDE DEF d
<1>5. sharesOf[u] - s = 0 <=> d = 0
  BY <1>1, <1>2, <1>3
<1> QED
  BY <1>3, <1>4, <1>5

-----------------------------------------------------------------------------
(***************************************************************************)
(* One lemma per call.                                                     *)
(***************************************************************************)
LEMMA DepositStep ==
    ASSUME VaultInv, NEW u \in Depositors, NEW a \in Amounts, NEW least, Deposit(u, a, least)
    PROVE  VaultInv'
<1> DEFINE sh == SharesFor(a)
<1>1. VaultTypeOK /\ IndexAtLeastOne /\ QueuedInTime /\ Backed /\ PrincipalHasShares
  BY DEF VaultInv
<1>2. pool.shares \in Nat /\ pool.assets \in Nat /\ sharesOf[u] \in Nat /\ depositOf[u] \in Nat
      /\ pool.shares <= pool.assets /\ a \in Nat /\ a > 0
  BY <1>1, PoolNumbers, VaultConstants DEF Backed, VaultTypeOK
<1>3. sh \in Nat /\ sh <= a
  BY <1>1, <1>2, DepositBuys
<1>4. Checkpointed \in PoolAt(sequence) /\ Checkpointed.index >= PRECISION
      /\ Checkpointed.shares = pool.shares /\ Checkpointed.assets = pool.assets
      /\ Checkpointed.proposed = pool.proposed /\ Checkpointed.activation = pool.activation
  BY <1>1, CheckpointKeeps
<1>5. /\ sh > 0 /\ tokens[u] >= a
      /\ tokens' = [tokens EXCEPT ![u] = @ - a, ![Vault] = @ + a]
      /\ sharesOf' = [sharesOf EXCEPT ![u] = @ + sh]
      /\ depositOf' = [depositOf EXCEPT ![u] = @ + a]
      /\ pool' = [Checkpointed EXCEPT !.shares = @ + sh, !.assets = @ + a]
      /\ UNCHANGED <<stray, sequence, announcedAt, settings>>
  BY DEF Deposit, Transferred
<1> HIDE DEF sh
<1>6. /\ pool' \in PoolAt(sequence) /\ pool'.index >= PRECISION
      /\ pool'.shares = pool.shares + sh /\ pool'.assets = pool.assets + a
      /\ pool'.proposed = pool.proposed /\ pool'.activation = pool.activation
  <2>1. pool' = [Checkpointed EXCEPT !.shares = pool.shares + sh, !.assets = pool.assets + a]
    BY <1>4, <1>5
  <2>2. pool.shares + sh \in Nat /\ pool.assets + a \in Nat
    BY <1>2, <1>3
  <2> QED
    BY <1>4, <2>1, <2>2 DEF PoolAt
<1>7. tokens' \in [Holders -> Nat] /\ tokens'[Vault] = tokens[Vault] + a
  <2>1. u # Vault /\ u \in Holders /\ Vault \in Holders
    BY VaultConstants, HoldersDiffer
  <2>2. tokens \in [Holders -> Nat]
    BY <1>1 DEF VaultTypeOK
  <2>3. tokens[u] - a \in Nat /\ tokens[Vault] + a \in Nat
    BY <1>2, <1>5, <2>1, <2>2
  <2> QED
    BY <1>5, <2>1, <2>2, <2>3
<1>8. VaultTypeOK'
  <2>1. sharesOf' \in [Depositors -> Nat] /\ depositOf' \in [Depositors -> Nat]
    BY <1>1, <1>2, <1>3, <1>5 DEF VaultTypeOK
  <2> QED
    BY <1>1, <1>5, <1>6, <1>7, <2>1 DEF VaultTypeOK, PoolAt, Holders, Vault
<1>9. Backed'
  <2> DEFINE n == sharesOf[u] + sh
  <2>1. n \in Nat /\ sharesOf' = [sharesOf EXCEPT ![u] = n]
    BY <1>2, <1>3, <1>5
  <2> HIDE DEF n
  <2>2. Sum(sharesOf', Depositors) = Sum(sharesOf, Depositors) - sharesOf[u] + n
    BY <1>1, <2>1, SharesChange
  <2>3. pool.assets = tokens[Vault] /\ pool.shares = Sum(sharesOf, Depositors)
    BY <1>1 DEF Backed
  <2> QED
    BY <1>2, <1>3, <1>6, <1>7, <2>2, <2>3 DEF Backed, Vault, n
<1>10. PrincipalHasShares'
  <2>1. sharesOf[u] + sh # 0 /\ depositOf[u] + a # 0
    BY <1>2, <1>3, <1>5
  <2>2. \A v \in Depositors : sharesOf'[v] = 0 <=> depositOf'[v] = 0
    BY <1>1, <1>5, <2>1 DEF PrincipalHasShares, VaultTypeOK
  <2> QED
    BY <2>2 DEF PrincipalHasShares
<1>11. IndexAtLeastOne' /\ QueuedInTime'
  BY <1>1, <1>5, <1>6 DEF IndexAtLeastOne, QueuedInTime
<1> QED
  BY <1>8, <1>9, <1>10, <1>11 DEF VaultInv

\* withdraw: the fee is a part of what is paid.
LEMMA WithdrawStep ==
    ASSUME VaultInv, NEW u \in Depositors, NEW s \in 1..sharesOf[u], Withdraw(u, s)
    PROVE  VaultInv'
<1> DEFINE x == AssetsFor(s)
           fee == (x * pool.exitFee) \div FeeScale
<1>1. VaultTypeOK /\ PrincipalHasShares /\ Backed
  BY DEF VaultInv
<1>2. sharesOf[u] \in Nat /\ s \in Nat /\ s <= sharesOf[u] /\ tokens \in [Holders -> Nat]
  BY <1>1 DEF VaultTypeOK
<1>3. /\ x \in 1..tokens[Vault]
      /\ tokens' = [tokens EXCEPT ![Vault] = @ - x, ![u] = @ + x - fee, ![pool.treasury] = @ + fee]
      /\ sharesOf' = [sharesOf EXCEPT ![u] = @ - s]
      /\ depositOf' = DepositReduced(u, s)
      /\ pool' = PoolLess(s, x)
      /\ UNCHANGED <<stray, sequence, announcedAt, settings>>
  BY DEF Withdraw
<1>4. x \in Nat /\ x <= tokens[Vault] /\ tokens[Vault] \in Nat
  BY <1>2, <1>3 DEF Holders
<1>5. fee \in Nat /\ fee <= x
  <2>1. pool.exitFee \in Nat /\ pool.exitFee <= FeeScale /\ FeeScale \in Nat \ {0}
    BY <1>1, PoolNumbers, VaultConstants
  <2> HIDE DEF x
  <2>2. x * pool.exitFee \in Nat /\ x * pool.exitFee <= x * FeeScale
    BY <1>4, <2>1, ProductMonotone
  <2> QED
    BY <1>4, <2>1, <2>2, QuotientBounds, QuotientAtMost
<1>6. tokens' \in [Holders -> Nat] /\ tokens'[Vault] = tokens[Vault] - x
  <2> HIDE DEF x, fee
  <2> DEFINE t == pool.treasury
  <2>1. u # Vault /\ t # Vault /\ u # t /\ u \in Holders /\ t \in Holders /\ Vault \in Holders
    BY <1>1, PoolNumbers, HoldersDiffer
  <2> HIDE DEF t
  <2>2. tokens' = [tokens EXCEPT ![Vault] = @ - x, ![u] = @ + x - fee, ![t] = @ + fee]
    BY <1>3 DEF t
  <2>3. tokens[u] + x - fee \in Nat /\ tokens[t] + fee \in Nat /\ tokens[Vault] - x \in Nat
    BY <1>2, <1>4, <1>5, <2>1
  <2> QED
    BY <1>2, <2>1, <2>2, <2>3
<1>7. PICK d \in Nat : /\ sharesOf[u] - s = 0 <=> d = 0
                       /\ DepositReduced(u, s) = [depositOf EXCEPT ![u] = d]
  BY <1>1, ReducedStep
<1> QED
  BY <1>2, <1>3, <1>6, <1>7, ExitStep

LEMMA PaidFromVault ==
    ASSUME VaultTypeOK, NEW u \in Depositors, NEW x \in 1..tokens[Vault]
    PROVE  Transferred(Vault, u, x) \in [Holders -> Nat] /\ Transferred(Vault, u, x)[Vault] = tokens[Vault] - x
<1>1. u # Vault /\ u \in Holders /\ Vault \in Holders /\ tokens \in [Holders -> Nat]
  BY VaultConstants, HoldersDiffer DEF VaultTypeOK
<1>2. x \in Nat /\ tokens[Vault] - x \in Nat /\ tokens[u] + x \in Nat
  BY <1>1
<1> QED
  BY <1>1, <1>2 DEF Transferred

LEMMA EmergencyWithdrawStep ==
    ASSUME VaultInv, NEW u \in Depositors, NEW s \in 1..sharesOf[u], EmergencyWithdraw(u, s)
    PROVE  VaultInv'
<1> DEFINE x == AssetsFor(s)
<1>1. VaultTypeOK /\ PrincipalHasShares /\ Backed
  BY DEF VaultInv
<1>2. sharesOf[u] \in Nat /\ s \in Nat /\ s <= sharesOf[u] /\ tokens \in [Holders -> Nat]
  BY <1>1 DEF VaultTypeOK
<1>3. /\ x \in 1..tokens[Vault]
      /\ tokens' = Transferred(Vault, u, x)
      /\ sharesOf' = [sharesOf EXCEPT ![u] = @ - s]
      /\ depositOf' = DepositReduced(u, s)
      /\ pool' = PoolLess(s, x)
      /\ UNCHANGED <<stray, sequence, announcedAt, settings>>
  BY DEF EmergencyWithdraw
<1>4. tokens' \in [Holders -> Nat] /\ tokens'[Vault] = tokens[Vault] - x
  BY <1>1, <1>2, <1>3, PaidFromVault
<1>5. PICK d \in Nat : /\ sharesOf[u] - s = 0 <=> d = 0
                       /\ DepositReduced(u, s) = [depositOf EXCEPT ![u] = d]
  BY <1>1, ReducedStep
<1> QED
  BY <1>2, <1>3, <1>4, <1>5, ExitStep

LEMMA EmergencyExitStep ==
    ASSUME VaultInv, NEW u \in Depositors, EmergencyExit(u)
    PROVE  VaultInv'
<1> DEFINE s == sharesOf[u]
           x == AssetsFor(s)
<1>1. VaultTypeOK /\ PrincipalHasShares /\ Backed
  BY DEF VaultInv
<1>2. s \in Nat /\ s <= sharesOf[u] /\ tokens \in [Holders -> Nat] /\ sharesOf[u] - s = 0
  BY <1>1 DEF VaultTypeOK
<1>3. /\ x \in 1..tokens[Vault]
      /\ tokens' = Transferred(Vault, u, x)
      /\ sharesOf' = [sharesOf EXCEPT ![u] = sharesOf[u] - s]
      /\ depositOf' = [depositOf EXCEPT ![u] = 0]
      /\ pool' = PoolLess(s, x)
      /\ UNCHANGED <<stray, sequence, announcedAt, settings>>
  BY <1>2 DEF EmergencyExit, PrincipalCleared
<1>4. tokens' \in [Holders -> Nat] /\ tokens'[Vault] = tokens[Vault] - x
  BY <1>1, <1>2, <1>3, PaidFromVault
<1> DEFINE d == 0
<1>5. d \in Nat /\ (sharesOf[u] - s = 0 <=> d = 0) /\ depositOf' = [depositOf EXCEPT ![u] = d]
  BY <1>2, <1>3
<1> HIDE DEF s, d
<1> QED
  BY <1>2, <1>3, <1>4, <1>5, ExitStep

\* A call that moves no money leaves the books alone.
LEMMA BooksStay ==
    ASSUME VaultInv, UNCHANGED <<sharesOf, depositOf, tokens>>,
           pool'.shares = pool.shares, pool'.assets = pool.assets
    PROVE  Backed' /\ PrincipalHasShares'
BY DEF VaultInv, Backed, PrincipalHasShares, Vault

LEMMA RateStep ==
    ASSUME VaultInv, NEW next \in PoolAt(sequence), Rate(next), announcedAt' \in 0..sequence,
           next.shares = pool.shares, next.assets = pool.assets, next.index >= PRECISION,
           next.proposed # NoRate => next.activation = announcedAt' + APY_TIMELOCK
    PROVE  VaultInv'
<1>1. pool' = next /\ UNCHANGED <<sharesOf, depositOf, tokens, stray, sequence, settings>>
  BY DEF Rate
<1>2. VaultTypeOK'
  BY <1>1 DEF VaultInv, VaultTypeOK, PoolAt, Holders, Vault
<1>3. Backed' /\ PrincipalHasShares'
  BY <1>1, BooksStay
<1> QED
  BY <1>1, <1>2, <1>3 DEF VaultInv, IndexAtLeastOne, QueuedInTime

LEMMA SettingStep ==
    ASSUME VaultInv, NEW next \in PoolAt(sequence), Setting(next),
           next.shares = pool.shares, next.assets = pool.assets, next.index = pool.index,
           next.proposed = pool.proposed, next.activation = pool.activation
    PROVE  VaultInv'
<1>1. /\ settings < MaxSettings /\ settings' = settings + 1 /\ pool' = next
      /\ UNCHANGED <<sharesOf, depositOf, tokens, stray, sequence, announcedAt>>
  BY DEF Setting
<1>2. VaultTypeOK'
  <2>1. settings' \in 0..MaxSettings
    BY <1>1, VaultConstants DEF VaultInv, VaultTypeOK
  <2> QED
    BY <1>1, <2>1 DEF VaultInv, VaultTypeOK, PoolAt, Holders, Vault
<1>3. Backed' /\ PrincipalHasShares'
  BY <1>1, BooksStay
<1> QED
  BY <1>1, <1>2, <1>3 DEF VaultInv, IndexAtLeastOne, QueuedInTime

\* Queueing, cancelling and applying a rate, and accrue_yield.
LEMMA RateCalls ==
    ASSUME VaultInv, (\E r \in Rates : UpdateApy(r)) \/ CancelApy \/ ApplyApy \/ AccrueYield
    PROVE  VaultInv'
<1>1. VaultTypeOK /\ IndexAtLeastOne /\ QueuedInTime
  BY DEF VaultInv
<1>2. pool \in PoolAt(sequence) /\ sequence \in Nat /\ announcedAt \in 0..sequence /\ APY_TIMELOCK \in Nat
  BY <1>1, PoolNumbers, VaultConstants DEF VaultTypeOK
<1>3. Checkpointed \in PoolAt(sequence) /\ Checkpointed.index >= PRECISION
      /\ Checkpointed.shares = pool.shares /\ Checkpointed.assets = pool.assets
      /\ Checkpointed.proposed = pool.proposed /\ Checkpointed.activation = pool.activation
  BY <1>1, CheckpointKeeps
<1>4. ASSUME NEW r \in Rates, UpdateApy(r) PROVE VaultInv'
  <2> DEFINE next == [pool EXCEPT !.proposed = r, !.activation = Activation]
  <2>1. Rate(next) /\ announcedAt' = sequence
    BY <1>4 DEF UpdateApy
  <2>2. Activation \in Nat /\ Activation = sequence + APY_TIMELOCK /\ r \in Nat
    BY <1>2, VaultConstants DEF Activation
  <2>3. /\ next \in PoolAt(sequence) /\ next.shares = pool.shares /\ next.assets = pool.assets
        /\ next.index = pool.index /\ next.activation = sequence + APY_TIMELOCK
    BY <1>2, <2>2 DEF PoolAt
  <2> HIDE DEF next
  <2> QED
    BY <1>1, <1>2, <2>1, <2>3, RateStep DEF IndexAtLeastOne
<1>5. CASE CancelApy
  <2> DEFINE next == [pool EXCEPT !.proposed = NoRate, !.activation = 0]
  <2>1. Rate(next) /\ announcedAt' = announcedAt
    BY <1>5 DEF CancelApy
  <2>2. /\ next \in PoolAt(sequence) /\ next.shares = pool.shares /\ next.assets = pool.assets
        /\ next.index = pool.index /\ next.proposed = NoRate
    BY <1>2 DEF PoolAt
  <2> HIDE DEF next
  <2> QED
    BY <1>1, <1>2, <2>1, <2>2, RateStep DEF IndexAtLeastOne
<1>6. CASE ApplyApy
  <2> DEFINE next == [Checkpointed EXCEPT !.apy = pool.proposed, !.proposed = NoRate, !.activation = 0]
  <2>1. Rate(next) /\ announcedAt' = announcedAt /\ pool.proposed # NoRate
    BY <1>6 DEF ApplyApy
  <2>2. pool.proposed \in Nat
    BY <1>2, <2>1 DEF PoolAt
  <2>3. /\ next \in PoolAt(sequence) /\ next.shares = pool.shares /\ next.assets = pool.assets
        /\ next.index >= PRECISION /\ next.proposed = NoRate
    BY <1>3, <2>2 DEF PoolAt
  <2> HIDE DEF next
  <2> QED
    BY <1>2, <2>1, <2>3, RateStep
<1>7. CASE AccrueYield
  <2>1. Rate(Checkpointed) /\ announcedAt' = announcedAt
    BY <1>7 DEF AccrueYield
  <2>2. Checkpointed.proposed # NoRate => Checkpointed.activation = announcedAt' + APY_TIMELOCK
    BY <1>1, <1>3, <2>1 DEF QueuedInTime
  <2> QED
    BY <1>2, <1>3, <2>1, <2>2, RateStep
<1> QED
  BY <1>4, <1>5, <1>6, <1>7

\* The owner's settings.
LEMMA SettingCalls ==
    ASSUME VaultInv,
           \/ \E b \in BOOLEAN : SetPaused(b)
           \/ \E c \in UserCaps : SetMaxUserCap(c)
           \/ \E r \in Rates : SetMaxApy(r)
           \/ \E t \in Treasuries : SetTreasury(t)
           \/ \E f \in ExitFees : SetExitFeeBps(f)
    PROVE  VaultInv'
<1>1. pool \in PoolAt(sequence)
  BY PoolNumbers DEF VaultInv
<1> DEFINE Kept(next) ==
      /\ next \in PoolAt(sequence)
      /\ next.shares = pool.shares /\ next.assets = pool.assets /\ next.index = pool.index
      /\ next.proposed = pool.proposed /\ next.activation = pool.activation
<1>2. ASSUME NEW b \in BOOLEAN, SetPaused(b) PROVE VaultInv'
  <2> DEFINE next == [pool EXCEPT !.paused = b]
  <2>1. Setting(next) /\ b \in BOOLEAN
    BY <1>2, VaultConstants DEF SetPaused
  <2>2. Kept(next)
    BY <1>1, <2>1 DEF PoolAt
  <2> HIDE DEF next
  <2> QED
    BY <2>1, <2>2, SettingStep
<1>3. ASSUME NEW c \in UserCaps, SetMaxUserCap(c) PROVE VaultInv'
  <2> DEFINE next == [pool EXCEPT !.cap = c]
  <2>1. Setting(next) /\ c \in Nat
    BY <1>3, VaultConstants DEF SetMaxUserCap
  <2>2. Kept(next)
    BY <1>1, <2>1 DEF PoolAt
  <2> HIDE DEF next
  <2> QED
    BY <2>1, <2>2, SettingStep
<1>4. ASSUME NEW r \in Rates, SetMaxApy(r) PROVE VaultInv'
  <2> DEFINE next == [pool EXCEPT !.maxApy = r]
  <2>1. Setting(next) /\ r \in 0..MAX_APY_CAP_BPS
    BY <1>4, VaultConstants DEF SetMaxApy
  <2>2. Kept(next)
    BY <1>1, <2>1 DEF PoolAt
  <2> HIDE DEF next
  <2> QED
    BY <2>1, <2>2, SettingStep
<1>5. ASSUME NEW t \in Treasuries, SetTreasury(t) PROVE VaultInv'
  <2> DEFINE next == [pool EXCEPT !.treasury = t]
  <2>1. Setting(next) /\ t \in Treasuries
    BY <1>5, VaultConstants DEF SetTreasury
  <2>2. Kept(next)
    BY <1>1, <2>1 DEF PoolAt
  <2> HIDE DEF next
  <2> QED
    BY <2>1, <2>2, SettingStep
<1>6. ASSUME NEW f \in ExitFees, SetExitFeeBps(f) PROVE VaultInv'
  <2> DEFINE next == [pool EXCEPT !.exitFee = f]
  <2>1. Setting(next) /\ f \in 0..MAX_EXIT_FEE_BPS
    BY <1>6, VaultConstants DEF SetExitFeeBps
  <2>2. Kept(next)
    BY <1>1, <2>1 DEF PoolAt
  <2> HIDE DEF next
  <2> QED
    BY <2>1, <2>2, SettingStep
<1> QED
  BY <1>2, <1>3, <1>4, <1>5, <1>6

\* salvage_token never touches the vault's own token; ledgers close.
LEMMA OtherCalls ==
    ASSUME VaultInv, SalvageToken \/ CloseVaultLedger
    PROVE  VaultInv'
<1>1. CASE SalvageToken
  <2>1. /\ stray' = 0 /\ settings < MaxSettings /\ settings' = settings + 1
        /\ UNCHANGED <<pool, sharesOf, depositOf, tokens, sequence, announcedAt>>
    BY <1>1 DEF SalvageToken
  <2>2. settings' \in 0..MaxSettings
    BY <2>1, VaultConstants DEF VaultInv, VaultTypeOK
  <2> QED
    BY <2>1, <2>2, BooksStay DEF VaultInv, VaultTypeOK, IndexAtLeastOne, QueuedInTime, Holders, Vault
<1>2. CASE CloseVaultLedger
  <2>1. /\ sequence < MaxSequence /\ sequence' = sequence + 1
        /\ UNCHANGED <<pool, sharesOf, depositOf, tokens, stray, announcedAt, settings>>
    BY <1>2 DEF CloseVaultLedger
  <2>2. /\ sequence' \in 0..MaxSequence /\ 0..sequence \subseteq 0..sequence' /\ announcedAt' \in 0..sequence'
    BY <2>1, VaultConstants DEF VaultInv, VaultTypeOK
  <2>3. pool' \in PoolAt(sequence')
    BY <2>1, <2>2, PoolNumbers DEF VaultInv, PoolAt
  <2>4. VaultTypeOK'
    BY <2>1, <2>2, <2>3 DEF VaultInv, VaultTypeOK, PoolAt, Holders, Vault
  <2> QED
    BY <2>1, <2>4, BooksStay DEF VaultInv, IndexAtLeastOne, QueuedInTime
<1> QED
  BY <1>1, <1>2

-----------------------------------------------------------------------------
LEMMA VaultStarts == ASSUME VaultInit PROVE VaultInv
<1>1. PICK rate \in {r \in Rates : r <= MAX_APY_CAP_BPS} :
        pool = [shares |-> 0, assets |-> 0, index |-> PRECISION, indexAt |-> 0,
                apy |-> rate, maxApy |-> MAX_APY_CAP_BPS, proposed |-> NoRate, activation |-> 0,
                paused |-> FALSE, cap |-> 0, exitFee |-> DEFAULT_EXIT_FEE_BPS, treasury |-> Owner]
  BY DEF VaultInit
<1>2. /\ sharesOf = [u \in Depositors |-> 0] /\ depositOf = [u \in Depositors |-> 0]
      /\ tokens = [h \in Holders |-> IF h \in Depositors THEN Purse ELSE 0]
      /\ stray = 1 /\ sequence = 0 /\ announcedAt = 0 /\ settings = 0
  BY DEF VaultInit
<1>3. pool \in PoolAt(sequence)
  <2>1. /\ rate \in Nat /\ MAX_APY_CAP_BPS \in 0..MAX_APY_CAP_BPS /\ PRECISION \in Nat
        /\ DEFAULT_EXIT_FEE_BPS \in 0..MAX_EXIT_FEE_BPS /\ Owner \in Treasuries /\ 0 \in 0..sequence
    BY <1>2, VaultConstants
  <2> QED
    BY <1>1, <2>1 DEF PoolAt
<1>4. VaultTypeOK
  <2>1. tokens \in [Holders -> Nat]
    BY <1>2, VaultConstants
  <2>2. sequence \in 0..MaxSequence /\ announcedAt \in 0..sequence /\ settings \in 0..MaxSettings
    BY <1>2, VaultConstants
  <2> QED
    BY <1>2, <1>3, <2>1, <2>2 DEF VaultTypeOK, PoolAt
<1>5. Backed
  <2>1. Sum(sharesOf, Depositors) = 0
    BY <1>2, SumZero, VaultConstants
  <2>2. tokens[Vault] = 0
    BY <1>2, VaultConstants DEF Holders, Vault
  <2> QED
    BY <1>1, <2>1, <2>2 DEF Backed
<1> QED
  BY <1>1, <1>2, <1>4, <1>5, VaultConstants DEF VaultInv, IndexAtLeastOne, QueuedInTime, PrincipalHasShares

LEMMA VaultStep == ASSUME VaultInv, [VaultNext]_vaultVars PROVE VaultInv'
<1>1. CASE UNCHANGED vaultVars
  BY <1>1 DEF vaultVars, VaultInv, VaultTypeOK, IndexAtLeastOne, QueuedInTime, Backed,
              PrincipalHasShares, Holders, Vault
<1>2. CASE VaultNext
  BY <1>2, DepositStep, WithdrawStep, EmergencyWithdrawStep, EmergencyExitStep, RateCalls,
     SettingCalls, OtherCalls DEF VaultNext
<1> QED
  BY <1>1, <1>2

\* Every step of the two sides is one of the vault's, or leaves it alone.
LEMMA VaultSide == ASSUME [Next]_vars PROVE [VaultNext]_vaultVars
BY DEF Next, vars

LEMMA VaultHolds == Spec => []VaultInv
<1>1. Init => VaultInv
  BY VaultStarts DEF Init
<1>2. VaultInv /\ [Next]_vars => VaultInv'
  BY VaultSide, VaultStep
<1> QED
  BY <1>1, <1>2, PTL DEF Spec

-----------------------------------------------------------------------------
LEMMA VaultBalanced == ASSUME VaultInv PROVE VaultBalances
<1>1. VaultTypeOK /\ IndexAtLeastOne /\ Backed /\ PrincipalHasShares
  BY DEF VaultInv
<1>2. SharesAddUp
  BY <1>1, MapIsSum, VaultConstants DEF SharesAddUp, Backed, VaultTypeOK
<1>3. VaultIsSolvent
  <2>1. ASSUME NEW u \in Depositors, sharesOf[u] > 0
        PROVE  AssetsFor(sharesOf[u]) \in 1..tokens[Vault]
    <3>1. sharesOf[u] \in Nat /\ sharesOf[u] <= pool.shares /\ pool.shares <= pool.assets
          /\ pool.assets = tokens[Vault]
      BY <1>1, SharesOfTotal DEF Backed
    <3>2. AssetsFor(sharesOf[u]) \in Nat /\ sharesOf[u] <= AssetsFor(sharesOf[u])
          /\ AssetsFor(sharesOf[u]) <= pool.assets
      BY <1>1, <3>1, ExitPays
    <3> QED
      BY <1>1, <2>1, <3>1, <3>2, PoolNumbers
  <2> QED
    BY <1>1, <2>1 DEF VaultIsSolvent, Backed
<1>4. RoundTripLoses
  <2> SUFFICES ASSUME NEW a \in Amounts PROVE RoundTripPays(a) <= a
    BY DEF RoundTripLoses
  <2> DEFINE sh == SharesFor(a)
  <2>1. a \in Nat /\ pool.shares \in Nat /\ pool.assets \in Nat /\ VIRTUAL_OFFSET \in Nat \ {0}
    BY <1>1, PoolNumbers, VaultConstants
  <2>2. sh \in Nat /\ sh * (pool.assets + VIRTUAL_OFFSET) <= a * (pool.shares + VIRTUAL_OFFSET)
    BY <1>1, <2>1, DepositBuys DEF Backed
  <2>3. RoundTripPays(a) = (sh * (pool.assets + a + VIRTUAL_OFFSET)) \div (pool.shares + sh + VIRTUAL_OFFSET)
    BY DEF RoundTripPays
  <2> HIDE DEF sh
  <2> QED
    BY <2>1, <2>2, <2>3, RoundTrip
<1> QED
  BY <1>1, <1>2, <1>3, <1>4 DEF VaultBalances

\* deposit, withdraw, emergency_exit and emergency_withdraw, each with its own
\* rounding: for every number of depositors, every amount, rate, fee and scale
\* the shares of all add up to the total, every holder can be paid in full, a
\* deposit taken out at once gains nothing, and principal goes with the shares.
THEOREM BooksAlwaysBalance == Spec => []VaultBalances
<1>1. VaultInv => VaultBalances
  BY VaultBalanced
<1> QED
  BY <1>1, VaultHolds, PTL

-----------------------------------------------------------------------------
(***************************************************************************)
(* The rate and the index.                                                 *)
(***************************************************************************)

\* A call leaves the rate and its origin alone, or starts anew from the index
\* of its own ledger; only apply_apy then changes the rate.
IndexStays == pool'.index = pool.index /\ pool'.indexAt = pool.indexAt /\ pool'.apy = pool.apy
IndexRestarts == pool'.index = CurrentIndex /\ pool'.indexAt = sequence /\ sequence' = sequence

LEMMA IndexMoves ==
    ASSUME VaultInv, VaultNext
    PROVE  /\ IndexStays \/ IndexRestarts
           /\ ApplyApy \/ pool'.apy = pool.apy
<1>1. pool \in PoolAt(sequence)
  BY PoolNumbers DEF VaultInv
<1>2. /\ Checkpointed \in PoolAt(sequence) /\ Checkpointed.index = CurrentIndex
      /\ Checkpointed.indexAt = sequence /\ Checkpointed.apy = pool.apy
  BY CheckpointKeeps DEF VaultInv
<1> DEFINE Anew == IndexRestarts /\ pool'.apy = pool.apy
<1>3. ASSUME NEW u \in Depositors, NEW a \in Amounts, NEW least \in {0, a}, Deposit(u, a, least)
      PROVE  Anew
  <2>1. /\ pool' = [Checkpointed EXCEPT !.shares = @ + SharesFor(a), !.assets = @ + a]
        /\ sequence' = sequence
    BY <1>3 DEF Deposit
  <2> QED
    BY <1>2, <2>1 DEF PoolAt, IndexRestarts
<1>4. ASSUME NEW s, NEW x, pool' = PoolLess(s, x), sequence' = sequence PROVE Anew
  BY <1>2, <1>4 DEF PoolLess, PoolAt, IndexRestarts
<1>5. ASSUME NEW u \in Depositors,
             (\E s \in 1..sharesOf[u] : Withdraw(u, s) \/ EmergencyWithdraw(u, s)) \/ EmergencyExit(u)
      PROVE  Anew
  BY <1>4, <1>5 DEF Withdraw, EmergencyWithdraw, EmergencyExit
<1>6. ASSUME NEW r \in Rates, UpdateApy(r) PROVE IndexStays
  <2>1. pool' = [pool EXCEPT !.proposed = r, !.activation = Activation]
    BY <1>6 DEF UpdateApy, Rate
  <2> QED
    BY <1>1, <2>1 DEF PoolAt, IndexStays
<1>7. ASSUME CancelApy PROVE IndexStays
  BY <1>1, <1>7 DEF CancelApy, Rate, PoolAt, IndexStays
<1>8. ASSUME ApplyApy PROVE IndexRestarts
  BY <1>2, <1>8 DEF ApplyApy, Rate, PoolAt, IndexRestarts
<1>9. ASSUME AccrueYield PROVE Anew
  BY <1>2, <1>9 DEF AccrueYield, Rate, IndexRestarts
<1>10. ASSUME SalvageToken \/ CloseVaultLedger PROVE IndexStays
  BY <1>10 DEF SalvageToken, CloseVaultLedger, IndexStays
<1>11. ASSUME NEW b \in BOOLEAN, SetPaused(b) PROVE IndexStays
  BY <1>1, <1>11 DEF SetPaused, Setting, PoolAt, IndexStays
<1>12. ASSUME NEW c \in UserCaps, SetMaxUserCap(c) PROVE IndexStays
  BY <1>1, <1>12 DEF SetMaxUserCap, Setting, PoolAt, IndexStays
<1>13. ASSUME NEW r \in Rates, SetMaxApy(r) PROVE IndexStays
  BY <1>1, <1>13 DEF SetMaxApy, Setting, PoolAt, IndexStays
<1>14. ASSUME NEW t \in Treasuries, SetTreasury(t) PROVE IndexStays
  BY <1>1, <1>14 DEF SetTreasury, Setting, PoolAt, IndexStays
<1>15. ASSUME NEW f \in ExitFees, SetExitFeeBps(f) PROVE IndexStays
  BY <1>1, <1>15 DEF SetExitFeeBps, Setting, PoolAt, IndexStays
<1>16. IndexStays => pool'.apy = pool.apy
  BY DEF IndexStays
<1> HIDE DEF Anew
<1>17. Anew => IndexRestarts /\ pool'.apy = pool.apy
  BY DEF Anew
<1> QED
  BY <1>3, <1>5, <1>6, <1>7, <1>8, <1>9, <1>10, <1>11, <1>12, <1>13, <1>14, <1>15, <1>16, <1>17
     DEF VaultNext

\* The index of the ledger a call runs in is the same after the call.
LEMMA NoJump ==
    ASSUME VaultInv, VaultInv', [VaultNext]_vaultVars, sequence' = sequence
    PROVE  CurrentIndex' = CurrentIndex
<1>1. CASE UNCHANGED vaultVars
  BY <1>1 DEF vaultVars, CurrentIndex
<1>2. CASE IndexStays
  BY <1>2 DEF IndexStays, CurrentIndex
<1>3. CASE IndexRestarts
  <2>1. CurrentIndex' = pool'.index + (pool'.index * pool'.apy * (sequence' - pool'.indexAt)) \div RateScale
    BY DEF CurrentIndex
  <2>2. CurrentIndex \in Nat /\ sequence \in Nat
    BY IndexGrows, PoolNumbers DEF VaultInv
  <2>3. pool'.apy \in Nat
    BY DEF VaultInv, VaultTypeOK
  <2>4. pool'.index * pool'.apy * (sequence' - pool'.indexAt) = 0
    BY <1>3, <2>2, <2>3 DEF IndexRestarts
  <2>5. 0 \div RateScale = 0
    BY VaultConstants
  <2> QED
    BY <1>3, <2>1, <2>2, <2>4, <2>5 DEF IndexRestarts
<1> QED
  BY <1>1, <1>2, <1>3, IndexMoves

LEMMA NoSurprise ==
    ASSUME VaultInv, [VaultNext]_vaultVars, pool'.apy # pool.apy
    PROVE  sequence >= announcedAt + APY_TIMELOCK
<1>1. ApplyApy
  BY IndexMoves DEF vaultVars
<1> QED
  BY <1>1 DEF ApplyApy, VaultInv, QueuedInTime

\* update_apy, cancel_apy and apply_apy in any order with money moving between
\* them: a rate takes effect a whole time lock after it was last announced, and
\* no call changes what the index is in its own ledger.
THEOREM RateIsAlwaysHonest == Spec => RateIsHonest
<1>1. VaultInv /\ VaultInv' /\ [Next]_vars => [pool'.apy # pool.apy => sequence >= announcedAt + APY_TIMELOCK]_vaultVars
  BY VaultSide, NoSurprise
<1>2. VaultInv /\ VaultInv' /\ [Next]_vars => [sequence' = sequence => CurrentIndex' = CurrentIndex]_vaultVars
  BY VaultSide, NoJump
<1> QED
  BY <1>1, <1>2, VaultHolds, PTL DEF Spec, RateIsHonest, RateWasAnnounced, IndexIsContinuous

-----------------------------------------------------------------------------
(***************************************************************************)
(* The backend.  What its loops over events compute is shown without       *)
(* induction, by looking at a smallest index that would be an exception.   *)
(***************************************************************************)

LEMMA Smallest ==
    ASSUME NEW B, B \subseteq Nat, B # {}
    PROVE  \E n \in B : \A m \in B : n <= m
<1>1. PICK n \in B : \A m \in B : ~ (<<m, n>> \in OpToRel(<, Nat))
  BY NatLessThanWellFounded, WFMin
<1>2. ASSUME NEW m \in B PROVE n <= m
  <2>1. ~ (m < n)
    BY <1>1 DEF OpToRel
  <2> QED
    BY <2>1
<1> QED
  BY <1>2

-----------------------------------------------------------------------------
(* Totals of rows. *)

Amounted(rows) == IsFiniteSet(rows) /\ \A r \in rows : r.amount \in Nat

LEMMA TotalIsSum == ASSUME NEW rows PROVE Total(rows) = Sum([r \in rows |-> r.amount], rows)
BY DEF Total, Sum

LEMMA TotalNat == ASSUME NEW rows, Amounted(rows) PROVE Total(rows) \in Nat
<1> DEFINE f == [r \in rows |-> r.amount]
<1>1. \A r \in rows : f[r] \in Nat
  BY DEF Amounted
<1> HIDE DEF f
<1>2. Sum(f, rows) \in Nat
  BY <1>1, SumNat DEF Amounted
<1> QED
  BY <1>2, TotalIsSum DEF f

\* A row that is new adds its amount.
LEMMA TotalAdd ==
    ASSUME NEW rows, Amounted(rows), NEW r, r \notin rows, r.amount \in Nat
    PROVE  Total(rows \cup {r}) = Total(rows) + r.amount
<1> DEFINE all == rows \cup {r}
           f == [x \in all |-> x.amount]
           g == [x \in rows |-> x.amount]
<1>1. IsFiniteSet(all) /\ r \in all /\ all \ {r} = rows
  BY FS_AddElement DEF Amounted
<1>2. (\A x \in all : f[x] \in Int) /\ f[r] = r.amount /\ (\A x \in rows : f[x] = g[x])
  BY DEF Amounted
<1>3. Total(all) = Sum(f, all) /\ Total(rows) = Sum(g, rows)
  BY TotalIsSum
<1> HIDE DEF all, f, g
<1>4. Sum(f, all) = f[r] + Sum(f, all \ {r})
  BY <1>1, <1>2, SumRemove
<1>5. Sum(f, rows) = Sum(g, rows)
  BY <1>2, SumSame DEF Amounted
<1>6. Total(rows) \in Nat
  BY TotalNat
<1>7. Total(all) = r.amount + Total(rows)
  BY <1>1, <1>2, <1>3, <1>4, <1>5
<1> QED
  BY <1>6, <1>7 DEF all

LEMMA PartAmounted == ASSUME NEW rows, Amounted(rows), NEW part \in SUBSET rows PROVE Amounted(part)
BY FS_Subset DEF Amounted

-----------------------------------------------------------------------------
(* The database's tables, and what one statement does to them. *)

Kinds == {"deposit", "withdraw", "payment", "register", "salvage", "add", "remove"}
Hashes == {"tx", "api", "sweep"} \X Nat
Events == [kind : Kinds, user : People, amount : Nat, ledger : Nat, hash : Hashes]
Rows == [hash : Hashes, user : Savers, type : {"DEPOSIT", "SWEEP", "WITHDRAW"}, amount : Nat]
Statuses == {"none", "PENDING", "ACCEPTED", "REJECTED"}
Tables ==
    [cursor : Nat, rows : SUBSET Rows, payments : SUBSET Hashes, friends : [Pairs -> Statuses],
     available : [Savers -> Nat], earning : [Savers -> Nat]]

\* The rows the endpoints have written are numbered below n.
Numbered(d, n) == \A r \in d.rows : r.hash[1] = "api" => r.hash[2] < n

Booked(d) == d \in Tables /\ IsFiniteSet(d.rows) /\ AddsUp(d)

LEMMA RowsAmounted ==
    ASSUME NEW d, Booked(d)
    PROVE  /\ Amounted(d.rows)
           /\ \A u, types : Amounted(RowsOf(d, u, types))
           /\ \A u : Amounted(BookedOff(d, u))
<1>1. Amounted(d.rows)
  BY DEF Booked, Tables, Rows, Amounted
<1>2. ASSUME NEW u, NEW types PROVE Amounted(RowsOf(d, u, types))
  BY <1>1, PartAmounted DEF RowsOf
<1>3. ASSUME NEW u PROVE Amounted(BookedOff(d, u))
  BY <1>1, PartAmounted DEF BookedOff
<1> QED
  BY <1>1, <1>2, <1>3

\* A table e has the rows of d and one more, r.
Adds1(d, e, r) == d \in Tables /\ e \in Tables /\ r \in Rows /\ r \notin d.rows /\ e.rows = d.rows \cup {r}

LEMMA OneRow ==
    ASSUME NEW d, Booked(d), NEW e, NEW r, Adds1(d, e, r), NEW u, NEW types
    PROVE  /\ Total(RowsOf(e, u, types)) =
                 Total(RowsOf(d, u, types)) + (IF r.user = u /\ r.type \in types THEN r.amount ELSE 0)
           /\ Total(BookedOff(e, u)) =
                 Total(BookedOff(d, u)) +
                 (IF r.user = u /\ (r.type = "SWEEP" \/ (r.type = "DEPOSIT" /\ r.hash[1] = "api")) THEN r.amount ELSE 0)
           /\ Total(RowsOf(d, u, types)) \in Nat /\ Total(BookedOff(d, u)) \in Nat
<1> DEFINE A == RowsOf(d, u, types)
           B == BookedOff(d, u)
<1>1. r.amount \in Nat /\ r \notin A /\ r \notin B
  BY DEF Adds1, Rows, RowsOf, BookedOff
<1>2. Amounted(A) /\ Amounted(B)
  BY RowsAmounted
<1>3. Total(A) \in Nat /\ Total(B) \in Nat
  BY <1>2, TotalNat
<1>4. RowsOf(e, u, types) = IF r.user = u /\ r.type \in types THEN A \cup {r} ELSE A
  BY DEF Adds1, RowsOf
<1>5. BookedOff(e, u) =
        IF r.user = u /\ (r.type = "SWEEP" \/ (r.type = "DEPOSIT" /\ r.hash[1] = "api")) THEN B \cup {r} ELSE B
  BY DEF Adds1, BookedOff
<1> HIDE DEF A, B
<1>6. Total(A \cup {r}) = Total(A) + r.amount /\ Total(B \cup {r}) = Total(B) + r.amount
  BY <1>1, <1>2, TotalAdd
<1>7. Total(RowsOf(e, u, types)) = Total(A) + (IF r.user = u /\ r.type \in types THEN r.amount ELSE 0)
  BY <1>1, <1>3, <1>4, <1>6
<1>8. Total(BookedOff(e, u)) =
        Total(B) + (IF r.user = u /\ (r.type = "SWEEP" \/ (r.type = "DEPOSIT" /\ r.hash[1] = "api")) THEN r.amount ELSE 0)
  BY <1>1, <1>3, <1>5, <1>6
<1> QED
  BY <1>3, <1>7, <1>8 DEF A, B

-----------------------------------------------------------------------------
(* Each statement that books money keeps the books. *)

\* Row r is new in d, and u's balances move by as much.
Books(d, e, r, available, earning) ==
    /\ Adds1(d, e, r)
    /\ e.available = [d.available EXCEPT ![r.user] = @ + available]
    /\ e.earning = [d.earning EXCEPT ![r.user] = @ + earning]
    /\ available = IF r.type = "WITHDRAW" THEN r.amount
                   ELSE IF r.type = "SWEEP" \/ r.hash[1] = "api" THEN 0 - r.amount ELSE 0
    /\ earning = IF r.type = "WITHDRAW" THEN 0 - r.amount ELSE r.amount

LEMMA BooksKept ==
    ASSUME NEW d, Booked(d), NEW e, NEW r, NEW a, NEW b, Books(d, e, r, a, b)
    PROVE  Booked(e)
<1>1. e \in Tables /\ r \in Rows /\ d \in Tables /\ Adds1(d, e, r)
  BY DEF Books, Adds1
<1>2. IsFiniteSet(e.rows)
  BY FS_AddElement DEF Books, Adds1, Booked
<1>3. ASSUME NEW u \in Savers
      PROVE  /\ e.earning[u] = Total(RowsOf(e, u, {"DEPOSIT", "SWEEP"})) - Total(RowsOf(e, u, {"WITHDRAW"}))
             /\ e.available[u] = Start - Total(BookedOff(e, u)) + Total(RowsOf(e, u, {"WITHDRAW"}))
  <2> DEFINE In == Total(RowsOf(d, u, {"DEPOSIT", "SWEEP"}))
             Out == Total(RowsOf(d, u, {"WITHDRAW"}))
             Off == Total(BookedOff(d, u))
  <2>1. /\ Total(RowsOf(e, u, {"DEPOSIT", "SWEEP"})) =
             In + (IF r.user = u /\ r.type \in {"DEPOSIT", "SWEEP"} THEN r.amount ELSE 0)
        /\ In \in Nat
    BY <1>1, OneRow
  <2>2. /\ Total(RowsOf(e, u, {"WITHDRAW"})) = Out + (IF r.user = u /\ r.type \in {"WITHDRAW"} THEN r.amount ELSE 0)
        /\ Out \in Nat
    <3>1. PICK types : types = {"WITHDRAW"}
      OBVIOUS
    <3>2. /\ Total(RowsOf(e, u, types)) =
                 Total(RowsOf(d, u, types)) + (IF r.user = u /\ r.type \in types THEN r.amount ELSE 0)
          /\ Total(RowsOf(d, u, types)) \in Nat
      BY <1>1, OneRow
    <3> QED
      BY <3>1, <3>2
  <2>3. /\ Total(BookedOff(e, u)) =
             Off + (IF r.user = u /\ (r.type = "SWEEP" \/ (r.type = "DEPOSIT" /\ r.hash[1] = "api")) THEN r.amount ELSE 0)
        /\ Off \in Nat
    <3>1. PICK types : types = {"SWEEP"}
      OBVIOUS
    <3>2. /\ Total(RowsOf(d, u, types)) \in Nat
          /\ Total(BookedOff(e, u)) =
               Off + (IF r.user = u /\ (r.type = "SWEEP" \/ (r.type = "DEPOSIT" /\ r.hash[1] = "api")) THEN r.amount ELSE 0)
          /\ Off \in Nat
      BY <1>1, OneRow
    <3> QED
      BY <3>2
  <2>4. d.earning[u] = In - Out /\ d.available[u] = Start - Off + Out
    BY DEF Booked, AddsUp
  <2>5. /\ r.user \in Savers /\ r.amount \in Nat /\ r.type \in {"DEPOSIT", "SWEEP", "WITHDRAW"}
        /\ d.available \in [Savers -> Nat] /\ d.earning \in [Savers -> Nat]
    BY <1>1 DEF Rows, Tables
  <2>6. /\ e.available[u] = IF r.user = u THEN d.available[u] + a ELSE d.available[u]
        /\ e.earning[u] = IF r.user = u THEN d.earning[u] + b ELSE d.earning[u]
    BY <2>5 DEF Books
  <2> HIDE DEF In, Out, Off
  <2>7. Start \in Nat
    BY SyncConstants
  <2>8. CASE r.user # u
    BY <2>1, <2>2, <2>3, <2>4, <2>6, <2>7, <2>8
  <2>9. CASE r.user = u /\ r.type = "WITHDRAW"
    <3>1. a = r.amount /\ b = 0 - r.amount
      BY <2>9 DEF Books
    <3> QED
      BY <2>1, <2>2, <2>3, <2>4, <2>5, <2>6, <2>7, <2>9, <3>1
  <2>10. CASE r.user = u /\ r.type # "WITHDRAW"
    <3>1. b = r.amount /\ a = IF r.type = "SWEEP" \/ r.hash[1] = "api" THEN 0 - r.amount ELSE 0
      BY <2>10 DEF Books
    <3> QED
      BY <2>1, <2>2, <2>3, <2>4, <2>5, <2>6, <2>7, <2>10, <3>1
  <2> QED
    BY <2>8, <2>9, <2>10
<1> QED
  BY <1>1, <1>2, <1>3 DEF Booked, AddsUp

\* A statement that leaves yield's tables alone.
LEMMA BooksUntouched ==
    ASSUME NEW d, Booked(d), NEW e \in Tables, e.rows = d.rows, e.available = d.available, e.earning = d.earning
    PROVE  Booked(e)
BY DEF Booked, AddsUp, RowsOf, BookedOff

LEMMA DepositBooks ==
    ASSUME NEW d, Booked(d), NEW u \in Savers, NEW a \in Nat, NEW h \in Hashes, h[1] # "api",
           NEW e \in DepositTx(d, u, a, h)
    PROVE  /\ Booked(e) /\ e.cursor = d.cursor /\ e.payments = d.payments /\ e.friends = d.friends
           /\ e.rows = d.rows \cup {Row(h, u, "DEPOSIT", a)}
<1> DEFINE r == Row(h, u, "DEPOSIT", a)
<1>1. /\ e = [d EXCEPT !.rows = @ \cup {r}, !.earning[u] = @ + a]
      /\ \A x \in d.rows : x.hash # h
  BY DEF DepositTx, If, Unique
<1>2. d \in Tables /\ r \in Rows /\ r.user = u /\ r.hash = h /\ r.amount = a /\ r.type = "DEPOSIT" /\ r \notin d.rows
  BY <1>1 DEF Row, Rows, Booked
<1> HIDE DEF r
<1>3. /\ e.rows = d.rows \cup {r} /\ e.available = d.available /\ e.cursor = d.cursor
      /\ e.payments = d.payments /\ e.friends = d.friends /\ e.earning = [d.earning EXCEPT ![u] = @ + a]
  BY <1>1, <1>2 DEF Tables
<1>4. e.earning \in [Savers -> Nat]
  BY <1>2, <1>3 DEF Tables
<1>5. e \in Tables
  BY <1>1, <1>2, <1>3, <1>4 DEF Tables
<1>6. d.available = [d.available EXCEPT ![u] = @ + 0]
  BY <1>2 DEF Tables
<1>7. Books(d, e, r, 0, a)
  BY <1>2, <1>3, <1>5, <1>6 DEF Books, Adds1
<1>8. Booked(e)
  BY <1>7, BooksKept
<1> QED
  BY <1>3, <1>8 DEF r

LEMMA WithdrawalBooks ==
    ASSUME NEW d, Booked(d), NEW u \in Savers, NEW a \in Nat, NEW h \in Hashes,
           NEW e \in WithdrawalTx(d, u, a, h)
    PROVE  /\ Booked(e) /\ e.cursor = d.cursor /\ e.payments = d.payments /\ e.friends = d.friends
           /\ e.rows = d.rows \cup {Row(h, u, "WITHDRAW", a)}
<1> DEFINE r == Row(h, u, "WITHDRAW", a)
<1>1. /\ e = [d EXCEPT !.rows = @ \cup {r}, !.earning[u] = @ - a, !.available[u] = @ + a]
      /\ (\A x \in d.rows : x.hash # h) /\ d.earning[u] >= a
  BY DEF WithdrawalTx, If, Unique
<1>2. d \in Tables /\ r \in Rows /\ r.user = u /\ r.hash = h /\ r.amount = a /\ r.type = "WITHDRAW" /\ r \notin d.rows
  BY <1>1 DEF Row, Rows, Booked
<1> HIDE DEF r
<1>3. /\ e.rows = d.rows \cup {r} /\ e.available = [d.available EXCEPT ![u] = @ + a] /\ e.cursor = d.cursor
      /\ e.payments = d.payments /\ e.friends = d.friends /\ e.earning = [d.earning EXCEPT ![u] = @ - a]
  BY <1>1, <1>2 DEF Tables
<1>4. e.earning \in [Savers -> Nat] /\ e.available \in [Savers -> Nat]
  BY <1>1, <1>2, <1>3 DEF Tables
<1>5. e \in Tables
  BY <1>1, <1>2, <1>3, <1>4 DEF Tables
<1>6. e.earning = [d.earning EXCEPT ![u] = @ + (0 - a)]
  BY <1>2, <1>3 DEF Tables
<1>7. Books(d, e, r, a, 0 - a)
  BY <1>2, <1>3, <1>5, <1>6 DEF Books, Adds1
<1>8. Booked(e)
  BY <1>7, BooksKept
<1> QED
  BY <1>3, <1>8 DEF r

\* What a sweep and the deposit endpoint write: the amount changes sides.
Moved(d, u, a, h, t) == [d EXCEPT !.rows = @ \cup {Row(h, u, t, a)}, !.available[u] = @ - a, !.earning[u] = @ + a]

LEMMA MoveBooks ==
    ASSUME NEW d, Booked(d), NEW u \in Savers, NEW a \in Nat, NEW h \in Hashes, NEW t \in {"SWEEP", "DEPOSIT"},
           t = "SWEEP" \/ h[1] = "api", Row(h, u, t, a) \notin d.rows, d.available[u] >= a
    PROVE  LET e == Moved(d, u, a, h, t)
           IN  /\ Booked(e) /\ e.cursor = d.cursor /\ e.payments = d.payments /\ e.friends = d.friends
               /\ e.rows = d.rows \cup {Row(h, u, t, a)}
<1> DEFINE r == Row(h, u, t, a)
<1>0. PICK e : e = Moved(d, u, a, h, t)
  OBVIOUS
<1>1. e = [d EXCEPT !.rows = @ \cup {r}, !.available[u] = @ - a, !.earning[u] = @ + a]
  BY <1>0 DEF Moved
<1>2. d \in Tables /\ r \in Rows /\ r.user = u /\ r.hash = h /\ r.amount = a /\ r.type = t /\ r \notin d.rows
  BY DEF Row, Rows, Booked
<1> HIDE DEF r
<1>3. /\ e.rows = d.rows \cup {r} /\ e.available = [d.available EXCEPT ![u] = @ - a] /\ e.cursor = d.cursor
      /\ e.payments = d.payments /\ e.friends = d.friends /\ e.earning = [d.earning EXCEPT ![u] = @ + a]
  BY <1>1, <1>2 DEF Tables
<1>4. e.earning \in [Savers -> Nat] /\ e.available \in [Savers -> Nat]
  BY <1>1, <1>2, <1>3 DEF Tables
<1>5. e \in Tables
  BY <1>1, <1>2, <1>3, <1>4 DEF Tables
<1>6. e.available = [d.available EXCEPT ![u] = @ + (0 - a)]
  BY <1>2, <1>3 DEF Tables
<1>7. Books(d, e, r, 0 - a, a)
  BY <1>2, <1>3, <1>5, <1>6 DEF Books, Adds1
<1>8. Booked(e)
  BY <1>7, BooksKept
<1> QED
  BY <1>0, <1>3, <1>8 DEF r

-----------------------------------------------------------------------------
(* A batch. *)

AfterEvent(batch, i, ds) == UNION {ProcessEvent(d, batch[i]) : d \in ds}

\* g is the tables that processing the first members of a batch may leave.
IsAfter(g, first, batch, n) ==
    g = [i \in 0..n |-> IF i = 0 THEN {first} ELSE AfterEvent(batch, i, g[i - 1])]
Afters(first, batch) == CHOOSE g : IsAfter(g, first, batch, Len(batch))

LEMMA AfterExists ==
    ASSUME NEW first, NEW batch, Len(batch) \in Nat
    PROVE  IsAfter(Afters(first, batch), first, batch, Len(batch))
<1> DEFINE B == {n \in Nat : \A g : ~IsAfter(g, first, batch, n)}
<1>1. B = {}
  <2> SUFFICES ASSUME B # {} PROVE FALSE
    OBVIOUS
  <2>1. PICK n \in B : \A m \in B : n <= m
    <3> HIDE DEF B
    <3>1. B \subseteq Nat
      BY DEF B
    <3> QED
      BY <3>1, Smallest
  <2>2. n \in Nat /\ \A g : ~IsAfter(g, first, batch, n)
    BY <2>1
  <2>3. CASE n = 0
    <3> DEFINE h == [i \in 0..0 |-> {first}]
    <3>1. IsAfter(h, first, batch, 0)
      BY DEF IsAfter
    <3> QED
      BY <2>2, <2>3, <3>1
  <2>4. CASE n > 0
    <3>1. n - 1 \in Nat /\ n - 1 \notin B
      BY <2>1, <2>2, <2>4
    <3>2. PICK g : IsAfter(g, first, batch, n - 1)
      BY <3>1
    <3> DEFINE h == [i \in 0..n |-> IF i = n THEN AfterEvent(batch, n, g[n - 1]) ELSE g[i]]
    <3>3. ASSUME NEW i \in 0..n
          PROVE  h[i] = IF i = 0 THEN {first} ELSE AfterEvent(batch, i, h[i - 1])
      <4>1. CASE i = n
        <5>1. h[n - 1] = g[n - 1]
          BY <2>2, <2>4
        <5> QED
          BY <2>4, <4>1, <5>1
      <4>2. CASE i # n
        <5>1. i \in 0..(n - 1) /\ h[i] = g[i] /\ (i # 0 => h[i - 1] = g[i - 1])
          BY <2>2, <4>2
        <5>2. g[i] = IF i = 0 THEN {first} ELSE AfterEvent(batch, i, g[i - 1])
          BY <3>2, <5>1 DEF IsAfter
        <5> QED
          BY <5>1, <5>2
      <4> QED
        BY <4>1, <4>2
    <3>4. IsAfter(h, first, batch, n)
      BY <3>3 DEF IsAfter
    <3> QED
      BY <2>2, <3>4
  <2> QED
    BY <2>2, <2>3, <2>4
<1>2. \E g : IsAfter(g, first, batch, Len(batch))
  BY <1>1
<1> QED
  BY <1>2 DEF Afters

LEMMA AfterAt ==
    ASSUME NEW first, NEW batch, NEW g, NEW n \in Nat, IsAfter(g, first, batch, n), NEW i \in 0..n
    PROVE  g[i] = IF i = 0 THEN {first} ELSE AfterEvent(batch, i, g[i - 1])
BY DEF IsAfter

LEMMA BatchIsChoice == ASSUME NEW batch PROVE ProcessBatch(batch) = Afters(db, batch)[Len(batch)]
BY DEF ProcessBatch, Afters, IsAfter, AfterEvent

-----------------------------------------------------------------------------
(* A page. *)

WithEvent(list, S, i, s) == IF i \in S THEN Append(s, list[i]) ELSE s

\* g is what the node returns of the first members of a list.
IsUpTo(g, list, S, n) ==
    g = [i \in 0..n |-> IF i = 0 THEN <<>> ELSE WithEvent(list, S, i, g[i - 1])]
UpTos(list, S) == CHOOSE g : IsUpTo(g, list, S, Len(list))

LEMMA UpToExists ==
    ASSUME NEW list, NEW S, Len(list) \in Nat
    PROVE  IsUpTo(UpTos(list, S), list, S, Len(list))
<1> DEFINE B == {n \in Nat : \A g : ~IsUpTo(g, list, S, n)}
<1>1. B = {}
  <2> SUFFICES ASSUME B # {} PROVE FALSE
    OBVIOUS
  <2>1. PICK n \in B : \A m \in B : n <= m
    <3> HIDE DEF B
    <3>1. B \subseteq Nat
      BY DEF B
    <3> QED
      BY <3>1, Smallest
  <2>2. n \in Nat /\ \A g : ~IsUpTo(g, list, S, n)
    BY <2>1
  <2>3. CASE n = 0
    <3> DEFINE h == [i \in 0..0 |-> <<>>]
    <3>1. IsUpTo(h, list, S, 0)
      BY DEF IsUpTo
    <3> QED
      BY <2>2, <2>3, <3>1
  <2>4. CASE n > 0
    <3>1. n - 1 \in Nat /\ n - 1 \notin B
      BY <2>1, <2>2, <2>4
    <3>2. PICK g : IsUpTo(g, list, S, n - 1)
      BY <3>1
    <3> DEFINE h == [i \in 0..n |-> IF i = n THEN WithEvent(list, S, n, g[n - 1]) ELSE g[i]]
    <3>3. ASSUME NEW i \in 0..n
          PROVE  h[i] = IF i = 0 THEN <<>> ELSE WithEvent(list, S, i, h[i - 1])
      <4>1. CASE i = n
        <5>1. h[n - 1] = g[n - 1]
          BY <2>2, <2>4
        <5> QED
          BY <2>4, <4>1, <5>1
      <4>2. CASE i # n
        <5>1. i \in 0..(n - 1) /\ h[i] = g[i] /\ (i # 0 => h[i - 1] = g[i - 1])
          BY <2>2, <4>2
        <5>2. g[i] = IF i = 0 THEN <<>> ELSE WithEvent(list, S, i, g[i - 1])
          BY <3>2, <5>1 DEF IsUpTo
        <5> QED
          BY <5>1, <5>2
      <4> QED
        BY <4>1, <4>2
    <3>4. IsUpTo(h, list, S, n)
      BY <3>3 DEF IsUpTo
    <3> QED
      BY <2>2, <3>4
  <2> QED
    BY <2>2, <2>3, <2>4
<1>2. \E g : IsUpTo(g, list, S, Len(list))
  BY <1>1
<1> QED
  BY <1>2 DEF UpTos

LEMMA UpToAt ==
    ASSUME NEW list, NEW S, NEW g, NEW n \in Nat, IsUpTo(g, list, S, n), NEW i \in 0..n
    PROVE  g[i] = IF i = 0 THEN <<>> ELSE WithEvent(list, S, i, g[i - 1])
BY DEF IsUpTo

LEMMA VisibleIsChoice == Visible = UpTos(emitted, Returned)[Len(emitted)]
BY DEF Visible, UpTos, IsUpTo, WithEvent

-----------------------------------------------------------------------------
(* One event, and then a batch of them. *)

FriendKinds == {"add", "remove"}
SaverKinds == {"deposit", "withdraw", "add", "remove"}
\* An event of the chain, as the indexer gets it.
Sound(e) == e \in Events /\ e.hash[1] = "tx" /\ (e.kind \in SaverKinds => e.user \in Savers)
HasEvent(d, e) ==
    /\ e.kind \in YieldKinds => \E r \in d.rows : r.hash = e.hash
    /\ e.kind = "payment" => e.hash \in d.payments
    /\ e.kind # "salvage" /\ ~Clashes(e)
Grows(d, e) ==
    /\ d.cursor = e.cursor /\ d.rows \subseteq e.rows /\ d.payments \subseteq e.payments
    /\ \A r \in e.rows : r \in d.rows \/ r.hash[1] = "tx"

LEMMA PairExists == ASSUME NEW u \in Savers PROVE PairOf(u) \in Pairs /\ PairOf(u)[1] = u
<1>1. \E p \in Pairs : p[1] = u
  <2>1. PICK v \in People : v # u
    BY SyncConstants
  <2>2. <<u, v>> \in Pairs /\ <<u, v>>[1] = u
    BY <2>1, SyncConstants DEF Pairs
  <2> QED
    BY <2>2
<1> QED
  BY <1>1 DEF PairOf

LEMMA EventKeeps ==
    ASSUME NEW d, Booked(d), NEW e, Sound(e), NEW after \in ProcessEvent(d, e)
    PROVE  /\ Booked(after) /\ Grows(d, after) /\ HasEvent(after, e)
           /\ e.kind = "add" => after.friends[PairOf(e.user)] = "ACCEPTED"
           /\ e.kind \notin FriendKinds => after.friends = d.friends
<1>0. e \in Events /\ e.hash[1] = "tx" /\ (e.kind \in SaverKinds => e.user \in Savers) /\ e.kind \in Kinds /\ d \in Tables
      /\ e.hash \in Hashes /\ e.amount \in Nat
  BY DEF Sound, Booked, Events
<1> USE DEF SaverKinds
<1>1. CASE e.kind = "deposit"
  <2>1. after \in DepositTx(d, e.user, e.amount, e.hash)
    BY <1>1 DEF ProcessEvent
  <2>2. /\ Booked(after) /\ after.cursor = d.cursor /\ after.payments = d.payments /\ after.friends = d.friends
        /\ after.rows = d.rows \cup {Row(e.hash, e.user, "DEPOSIT", e.amount)}
    BY <1>0, <1>1, <2>1, DepositBooks
  <2>3. Row(e.hash, e.user, "DEPOSIT", e.amount).hash = e.hash
    BY DEF Row
  <2>4. Grows(d, after)
    BY <1>0, <2>2, <2>3 DEF Grows
  <2>5. HasEvent(after, e)
    BY <1>1, <2>2, <2>3 DEF HasEvent, Clashes
  <2> QED
    BY <1>1, <2>2, <2>4, <2>5 DEF FriendKinds
<1>2. CASE e.kind = "withdraw"
  <2>1. after \in WithdrawalTx(d, e.user, e.amount, e.hash)
    BY <1>2 DEF ProcessEvent
  <2>2. /\ Booked(after) /\ after.cursor = d.cursor /\ after.payments = d.payments /\ after.friends = d.friends
        /\ after.rows = d.rows \cup {Row(e.hash, e.user, "WITHDRAW", e.amount)}
    BY <1>0, <1>2, <2>1, WithdrawalBooks
  <2>3. Row(e.hash, e.user, "WITHDRAW", e.amount).hash = e.hash
    BY DEF Row
  <2>4. Grows(d, after)
    BY <1>0, <2>2, <2>3 DEF Grows
  <2>5. HasEvent(after, e)
    BY <1>2, <2>2, <2>3 DEF HasEvent, Clashes
  <2> QED
    BY <1>2, <2>2, <2>4, <2>5 DEF FriendKinds
<1>3. CASE e.kind = "payment"
  <2>1. after = [d EXCEPT !.payments = @ \cup {e.hash}]
    BY <1>3 DEF ProcessEvent, PaymentTx
  <2>2. after \in Tables /\ after.rows = d.rows /\ after.available = d.available /\ after.earning = d.earning
        /\ after.cursor = d.cursor /\ after.friends = d.friends /\ after.payments = d.payments \cup {e.hash}
    BY <1>0, <2>1 DEF Tables
  <2>3. Booked(after)
    BY <2>2, BooksUntouched
  <2> QED
    BY <1>3, <2>2, <2>3 DEF Grows, HasEvent, Clashes, YieldKinds, FriendKinds
<1>4. CASE e.kind = "add"
  <2> DEFINE p == PairOf(e.user)
  <2>1. after = [d EXCEPT !.friends[p] = "ACCEPTED"]
    BY <1>4 DEF ProcessEvent, FriendAddedTx
  <2>2. p \in Pairs
    BY <1>0, <1>4, PairExists
  <2> HIDE DEF p
  <2>3. after \in Tables /\ after.rows = d.rows /\ after.available = d.available /\ after.earning = d.earning
        /\ after.cursor = d.cursor /\ after.payments = d.payments /\ after.friends[p] = "ACCEPTED"
    BY <1>0, <2>1, <2>2 DEF Tables, Statuses
  <2>4. Booked(after)
    BY <2>3, BooksUntouched
  <2> QED
    BY <1>4, <2>3, <2>4 DEF Grows, HasEvent, Clashes, YieldKinds, FriendKinds, p
<1>5. CASE e.kind = "remove"
  <2> DEFINE p == PairOf(e.user)
             q == Swapped(p)
  <2>1. after = [d EXCEPT !.friends[p] = "none", !.friends[q] = "none"]
    BY <1>5 DEF ProcessEvent, FriendRemovedTx
  <2> HIDE DEF p, q
  <2>2. after \in Tables /\ after.rows = d.rows /\ after.available = d.available /\ after.earning = d.earning
        /\ after.cursor = d.cursor /\ after.payments = d.payments
    BY <1>0, <2>1 DEF Tables, Statuses
  <2>3. Booked(after)
    BY <2>2, BooksUntouched
  <2> QED
    BY <1>5, <2>2, <2>3 DEF Grows, HasEvent, Clashes, YieldKinds, FriendKinds
<1>6. CASE e.kind = "register"
  <2>1. e.user = NameHolder /\ after = d
    BY <1>6 DEF ProcessEvent, RegisterTx, If
  <2> QED
    BY <1>6, <2>1 DEF Grows, HasEvent, Clashes, YieldKinds, FriendKinds
<1>7. CASE e.kind = "salvage"
  BY <1>7 DEF ProcessEvent, SalvageTx
<1> QED
  BY <1>0, <1>1, <1>2, <1>3, <1>4, <1>5, <1>6, <1>7 DEF Kinds

\* The tables d after the first n events of a batch, processed from the tables c.
Done(c, d, batch, n) ==
    /\ Booked(d) /\ Grows(c, d)
    /\ \A j \in 1..n : HasEvent(d, batch[j])
    /\ \A j \in 1..n : batch[j].kind = "add" /\ (\A k \in j + 1..n : batch[k].kind \notin FriendKinds)
          => d.friends[PairOf(batch[j].user)] = "ACCEPTED"
    /\ (\A k \in 1..n : batch[k].kind \notin FriendKinds) => d.friends = c.friends

LEMMA DoneOne ==
    ASSUME NEW batch, NEW c, NEW n \in Nat \ {0}, Sound(batch[n]), NEW d, Done(c, d, batch, n - 1),
           NEW after \in ProcessEvent(d, batch[n])
    PROVE  Done(c, after, batch, n)
<1> DEFINE e == batch[n]
<1>1. /\ Booked(after) /\ Grows(d, after) /\ HasEvent(after, e)
      /\ e.kind = "add" => after.friends[PairOf(e.user)] = "ACCEPTED"
      /\ e.kind \notin FriendKinds => after.friends = d.friends
  BY EventKeeps DEF Done
<1>2. Grows(c, after)
  BY <1>1 DEF Done, Grows
<1>3. ASSUME NEW j \in 1..n PROVE HasEvent(after, batch[j])
  <2>1. CASE j = n
    BY <1>1, <2>1
  <2>2. CASE j # n
    <3>1. HasEvent(d, batch[j])
      BY <2>2 DEF Done
    <3> QED
      BY <1>1, <3>1 DEF HasEvent, Grows
  <2> QED
    BY <2>1, <2>2
<1>4. ASSUME NEW j \in 1..n, batch[j].kind = "add", \A k \in j + 1..n : batch[k].kind \notin FriendKinds
      PROVE  after.friends[PairOf(batch[j].user)] = "ACCEPTED"
  <2>1. CASE j = n
    BY <1>1, <1>4, <2>1
  <2>2. CASE j # n
    <3>1. j \in 1..n - 1 /\ n \in j + 1..n /\ \A k \in j + 1..n - 1 : k \in j + 1..n
      BY <2>2
    <3>2. d.friends[PairOf(batch[j].user)] = "ACCEPTED"
      BY <1>4, <3>1 DEF Done
    <3> QED
      BY <1>1, <1>4, <3>1, <3>2
  <2> QED
    BY <2>1, <2>2
<1>5. ASSUME \A k \in 1..n : batch[k].kind \notin FriendKinds PROVE after.friends = c.friends
  <2>1. n \in 1..n /\ \A k \in 1..n - 1 : k \in 1..n
    OBVIOUS
  <2> QED
    BY <1>1, <1>5, <2>1 DEF Done
<1> QED
  BY <1>1, <1>2, <1>3, <1>4, <1>5 DEF Done

LEMMA BatchDone ==
    ASSUME Booked(db), NEW batch \in Seq(Events), \A j \in 1..Len(batch) : Sound(batch[j]),
           NEW d \in ProcessBatch(batch)
    PROVE  Done(db, d, batch, Len(batch))
<1> DEFINE g == Afters(db, batch)
           B == {n \in 0..Len(batch) : \E x \in g[n] : ~Done(db, x, batch, n)}
<1>1. Len(batch) \in Nat
  BY LenProperties
<1>2. IsAfter(g, db, batch, Len(batch))
  BY <1>1, AfterExists
<1>3. ProcessBatch(batch) = g[Len(batch)]
  BY BatchIsChoice
<1> HIDE DEF g
<1>4. B = {}
  <2> SUFFICES ASSUME B # {} PROVE FALSE
    OBVIOUS
  <2>1. PICK n \in B : \A m \in B : n <= m
    <3> HIDE DEF B
    <3>1. B \subseteq Nat
      BY <1>1 DEF B
    <3> QED
      BY <3>1, Smallest
  <2>2. PICK x \in g[n] : ~Done(db, x, batch, n)
    BY <2>1
  <2>3. n \in 0..Len(batch)
    BY <2>1
  <2>4. g[n] = IF n = 0 THEN {db} ELSE AfterEvent(batch, n, g[n - 1])
    BY <1>2, <2>3 DEF IsAfter
  <2>5. CASE n = 0
    <3>1. x = db
      BY <2>2, <2>4, <2>5
    <3>2. Done(db, db, batch, 0)
      BY DEF Done, Grows
    <3> QED
      BY <2>2, <2>5, <3>1, <3>2
  <2>6. CASE n # 0
    <3>1. n \in Nat \ {0} /\ n \in 1..Len(batch) /\ n - 1 \in 0..Len(batch) /\ ~(n <= n - 1)
      BY <1>1, <2>3, <2>6
    <3>2. PICK y \in g[n - 1] : x \in ProcessEvent(y, batch[n])
      BY <2>2, <2>4, <2>6 DEF AfterEvent
    <3>3. n - 1 \notin B
      <4> HIDE DEF B
      <4> QED
        BY <2>1, <3>1
    <3>4. Done(db, y, batch, n - 1)
      BY <3>1, <3>2, <3>3
    <3> QED
      BY <2>2, <3>1, <3>2, <3>4, DoneOne
  <2> QED
    BY <2>5, <2>6
<1>5. Len(batch) \in 0..Len(batch)
  BY <1>1
<1> QED
  BY <1>3, <1>4, <1>5

-----------------------------------------------------------------------------
(***************************************************************************)
(* The inductive invariant.  When pages are "whole", what the indexer      *)
(* holds is all the chain has between its cursor and a ledger L that was   *)
(* closed when it read, in the chain's order, so a commit leaves no gap    *)
(* behind the new cursor and ends with the last friend event, whether it   *)
(* was read before or not.  When pages may be "cut" it holds only events   *)
(* of the chain, which is enough for the balances.                         *)
(***************************************************************************)
ChainInv ==
    /\ emitted \in Seq(Events) /\ Len(emitted) <= MaxEvents
    /\ latest \in 1..MaxLedger /\ staked \in [Savers -> Nat]
    /\ \A i \in 1..Len(emitted) :
          /\ Sound(emitted[i]) /\ emitted[i].hash = <<"tx", i>>
          /\ emitted[i].ledger \in 2..MaxLedger /\ emitted[i].ledger <= latest + 1
    /\ \A i, j \in 1..Len(emitted) : i <= j => emitted[i].ledger <= emitted[j].ledger

AllWritten(pages) ==
    \A i \in 1..Len(emitted) : pages = "whole" /\ emitted[i].ledger < db.cursor => HasEvent(db, emitted[i])
IsLastFriend(i) == emitted[i].kind \in FriendKinds /\ \A k \in i + 1..Len(emitted) : emitted[k].kind \notin FriendKinds
FriendsFollow(pages) == \A i \in 1..Len(emitted) :
    pages = "whole" /\ IsLastFriend(i) /\ emitted[i].kind = "add" /\ emitted[i].ledger < db.cursor
        => db.friends[PairOf(emitted[i].user)] = "ACCEPTED"
TablesInv(pages) ==
    Booked(db) /\ Numbered(db, api) /\ db.cursor <= latest + 1 /\ AllWritten(pages) /\ FriendsFollow(pages)

Ordered(s) == \A j, k \in 1..Len(s) : j < k => s[j].hash[2] < s[k].hash[2]
HoldsUpTo(L, pages) ==
    /\ L <= latest /\ ix.cursor <= L /\ ix.next = IF L > ix.cursor THEN L ELSE ix.cursor + 1
    /\ Ordered(ix.batch)
    /\ \A j \in 1..Len(ix.batch) :
          \E i \in 1..Len(emitted) : emitted[i].ledger \in ix.cursor..L /\ ix.batch[j] = emitted[i]
    /\ \A i \in 1..Len(emitted) :
          pages = "whole" /\ emitted[i].ledger \in ix.cursor..L => \E j \in 1..Len(ix.batch) : ix.batch[j] = emitted[i]
IndexerInv(pages) ==
    /\ ix \in [phase : {"idle", "read"}, cursor : Nat, batch : Seq(Events), next : Nat]
    /\ ix.cursor <= db.cursor
    /\ ix.phase = "read" => \E L \in Nat : HoldsUpTo(L, pages)

SweepInv ==
    /\ sw \in [phase : {"idle", "sweeping", "sent"}, todo : SUBSET Savers, amounts : [Savers -> Nat],
               user : Savers \cup {""}, hash : Hashes \cup {<<>>}]
    /\ sw.phase = "sent" => sw.user \in Savers /\ sw.hash \in Hashes /\ sw.hash[1] # "api"

CountersInv ==
    /\ autoEarn \subseteq Savers /\ backoff \subseteq Savers /\ configured \in BOOLEAN
    /\ api \in 0..MaxApi /\ faults \in 0..MaxFaults

SyncInv(pages) == ChainInv /\ TablesInv(pages) /\ IndexerInv(pages) /\ SweepInv /\ CountersInv

LEMMA VisibleHas ==
    ASSUME ChainInv
    PROVE  /\ Visible \in Seq(Events) /\ Len(Visible) <= Len(emitted) /\ Ordered(Visible)
           /\ \A j \in 1..Len(Visible) : \E i \in Returned : Visible[j] = emitted[i]
           /\ \A i \in Returned : \E j \in 1..Len(Visible) : Visible[j] = emitted[i]
<1> DEFINE g == UpTos(emitted, Returned)
           Good(n) == /\ g[n] \in Seq(Events) /\ Len(g[n]) <= n /\ Ordered(g[n])
                      /\ \A j \in 1..Len(g[n]) : \E i \in Returned : i <= n /\ g[n][j] = emitted[i]
                      /\ \A i \in Returned : i <= n => \E j \in 1..Len(g[n]) : g[n][j] = emitted[i]
           B == {n \in 0..Len(emitted) : ~Good(n)}
<1>1. Len(emitted) \in Nat /\ \A i \in 1..Len(emitted) : emitted[i] \in Events
  BY LenProperties, ElementOfSeq DEF ChainInv
<1>2. IsUpTo(g, emitted, Returned, Len(emitted))
  BY <1>1, UpToExists
<1>3. Visible = g[Len(emitted)]
  BY VisibleIsChoice
<1>4. Returned \subseteq 1..Len(emitted)
  BY DEF Returned
<1> HIDE DEF g
<1>5. B = {}
  <2> SUFFICES ASSUME B # {} PROVE FALSE
    OBVIOUS
  <2>1. PICK n \in B : \A m \in B : n <= m
    <3> HIDE DEF B
    <3>1. B \subseteq Nat
      BY <1>1 DEF B
    <3> QED
      BY <3>1, Smallest
  <2>2. n \in 0..Len(emitted) /\ ~Good(n)
    BY <2>1
  <2>3. g[n] = IF n = 0 THEN <<>> ELSE WithEvent(emitted, Returned, n, g[n - 1])
    BY <1>2, <2>2 DEF IsUpTo
  <2>4. n # 0
    <3> SUFFICES ASSUME n = 0 PROVE FALSE
      OBVIOUS
    <3>1. g[0] = <<>>
      BY <2>3
    <3>2. Good(0)
      BY <1>4, <3>1 DEF Ordered
    <3> HIDE DEF Good
    <3> QED
      BY <2>2, <3>2
  <2>5. n - 1 \in 0..Len(emitted) /\ n - 1 \notin B /\ n \in 1..Len(emitted)
    <3>1. n - 1 \in 0..Len(emitted) /\ ~(n <= n - 1) /\ n \in 1..Len(emitted)
      BY <1>1, <2>2, <2>4
    <3> HIDE DEF B
    <3> QED
      BY <2>1, <3>1
  <2>6. Good(n - 1)
    BY <2>5
  <2> DEFINE s == g[n - 1]
             t == Append(s, emitted[n])
  <2>7. CASE n \notin Returned
    <3>1. g[n] = g[n - 1]
      BY <2>3, <2>4, <2>7 DEF WithEvent
    <3>2. \A i \in Returned : i <= n => i <= n - 1
      BY <1>4, <2>5, <2>7
    <3>3. s \in Seq(Events) /\ Len(s) <= n - 1 /\ Ordered(s)
      BY <2>6
    <3>4. /\ \A j \in 1..Len(s) : \E i \in Returned : i <= n - 1 /\ s[j] = emitted[i]
          /\ \A i \in Returned : i <= n - 1 => \E j \in 1..Len(s) : s[j] = emitted[i]
      BY <2>6
    <3>5. g[n] = s
      BY <3>1
    <3> HIDE DEF s, t
    <3>6. Len(s) <= n
      BY <2>5, <3>3, LenProperties
    <3>7. \A j \in 1..Len(s) : \E i \in Returned : i <= n /\ s[j] = emitted[i]
      BY <1>4, <2>5, <3>4
    <3>8. \A i \in Returned : i <= n => \E j \in 1..Len(s) : s[j] = emitted[i]
      BY <3>2, <3>4
    <3>9. Good(n)
      BY <3>3, <3>5, <3>6, <3>7, <3>8
    <3> HIDE DEF Good
    <3> QED
      BY <2>2, <3>9
  <2>8. CASE n \in Returned
    <3>1. g[n] = t
      BY <2>3, <2>4, <2>8 DEF WithEvent
    <3>2. s \in Seq(Events) /\ Len(s) <= n - 1 /\ Ordered(s) /\ emitted[n] \in Events
      BY <1>1, <2>5, <2>6
    <3>3. /\ \A j \in 1..Len(s) : \E i \in Returned : i <= n - 1 /\ s[j] = emitted[i]
          /\ \A i \in Returned : i <= n - 1 => \E j \in 1..Len(s) : s[j] = emitted[i]
      BY <2>6
    <3> HIDE DEF s, Good
    <3>4. /\ t \in Seq(Events) /\ Len(t) = Len(s) + 1 /\ Len(s) \in Nat
          /\ (\A j \in 1..Len(s) : t[j] = s[j]) /\ t[Len(s) + 1] = emitted[n]
      BY <3>2, AppendProperties, LenProperties
    <3> HIDE DEF t
    <3>5. \A j \in 1..Len(t) : j = Len(s) + 1 \/ j \in 1..Len(s)
      BY <3>4
    <3>6. \A j \in 1..Len(s) : s[j].hash[2] < n
      <4>1. \A i \in Returned : emitted[i].hash = <<"tx", i>> /\ i \in Nat
        BY <1>1, <1>4 DEF ChainInv
      <4>2. \A i \in Returned : emitted[i].hash[2] = i
        BY <4>1
      <4>3. ASSUME NEW j \in 1..Len(s) PROVE s[j].hash[2] < n
        <5>1. PICK i \in Returned : i <= n - 1 /\ s[j] = emitted[i]
          BY <3>3
        <5>2. s[j].hash[2] = i /\ i \in Nat
          BY <4>1, <4>2, <5>1
        <5> QED
          BY <2>5, <5>1, <5>2
      <4> QED
        BY <4>3
    <3>7. emitted[n].hash[2] = n
      BY <2>5 DEF ChainInv
    <3>8. Ordered(t)
      <4> SUFFICES ASSUME NEW j \in 1..Len(t), NEW k \in 1..Len(t), j < k PROVE t[j].hash[2] < t[k].hash[2]
        BY DEF Ordered
      <4>1. j \in 1..Len(s) /\ t[j] = s[j]
        BY <3>4
      <4>2. CASE k = Len(s) + 1
        BY <3>4, <3>6, <3>7, <4>1, <4>2
      <4>3. CASE k # Len(s) + 1
        <5>1. k \in 1..Len(s) /\ t[k] = s[k]
          BY <3>4, <3>5, <4>3
        <5> QED
          BY <3>2, <4>1, <5>1 DEF Ordered
      <4> QED
        BY <4>2, <4>3
    <3>9. \A j \in 1..Len(t) : \E i \in Returned : i <= n /\ t[j] = emitted[i]
      <4> SUFFICES ASSUME NEW j \in 1..Len(t) PROVE \E i \in Returned : i <= n /\ t[j] = emitted[i]
        OBVIOUS
      <4>1. CASE j = Len(s) + 1
        BY <2>5, <2>8, <3>4, <4>1
      <4>2. CASE j \in 1..Len(s)
        <5>1. PICK i \in Returned : i <= n - 1 /\ s[j] = emitted[i]
          BY <3>3, <4>2
        <5>2. i <= n /\ t[j] = emitted[i]
          BY <1>4, <2>5, <3>4, <4>2, <5>1
        <5> QED
          BY <5>2
      <4> QED
        BY <3>5, <4>1, <4>2
    <3>10. \A i \in Returned : i <= n => \E j \in 1..Len(t) : t[j] = emitted[i]
      <4> SUFFICES ASSUME NEW i \in Returned, i <= n PROVE \E j \in 1..Len(t) : t[j] = emitted[i]
        OBVIOUS
      <4>1. CASE i = n
        BY <3>4, <4>1
      <4>2. CASE i # n
        <5>1. i <= n - 1
          BY <1>4, <2>5, <4>2
        <5>2. PICK j \in 1..Len(s) : s[j] = emitted[i]
          BY <3>3, <5>1
        <5>3. j \in 1..Len(t) /\ t[j] = emitted[i]
          BY <3>4, <5>2
        <5> QED
          BY <5>3
      <4> QED
        BY <4>1, <4>2
    <3>11. Len(t) <= n
      BY <2>5, <3>2, <3>4
    <3>12. Good(n)
      BY <3>1, <3>4, <3>8, <3>9, <3>10, <3>11 DEF Good
    <3> QED
      BY <2>2, <3>12
  <2> QED
    BY <2>7, <2>8
<1>6. Good(Len(emitted))
  <2> HIDE DEF Good
  <2> QED
    BY <1>1, <1>5
<1>7. PICK m \in 0..Len(emitted) : m = Len(emitted)
  BY <1>1
<1>8. Visible = g[m] /\ Good(m)
  <2> HIDE DEF Good
  <2> QED
    BY <1>3, <1>6, <1>7
<1>9. /\ Visible \in Seq(Events) /\ Len(Visible) <= m /\ Ordered(Visible)
      /\ \A j \in 1..Len(Visible) : \E i \in Returned : i <= m /\ Visible[j] = emitted[i]
      /\ \A i \in Returned : i <= m => \E j \in 1..Len(Visible) : Visible[j] = emitted[i]
  BY <1>8
<1>10. \A i \in Returned : i <= m
  BY <1>1, <1>4, <1>7
<1> QED
  BY <1>7, <1>9, <1>10

-----------------------------------------------------------------------------
(* The steps of the chain. *)

LEMMA SyncStarts == ASSUME NEW pages, SyncInit PROVE SyncInv(pages)
<1> USE DEF SyncInit
<1>1. ChainInv
  BY SyncConstants DEF ChainInv, Events
<1>2. db \in Tables
  <2>1. FirstRows \in [Pairs -> Statuses]
    BY DEF FirstRows, Statuses
  <2> QED
    BY <2>1, SyncConstants DEF Tables
<1>3. AddsUp(db)
  <2>1. \A u : \A types : RowsOf(db, u, types) = {}
    BY DEF RowsOf
  <2>2. \A u : BookedOff(db, u) = {}
    BY DEF BookedOff
  <2>3. Total({}) = 0
    BY TotalIsSum, SumEmpty
  <2>4. ASSUME NEW u \in Savers
        PROVE  /\ db.earning[u] = Total(RowsOf(db, u, {"DEPOSIT", "SWEEP"})) - Total(RowsOf(db, u, {"WITHDRAW"}))
               /\ db.available[u] = Start - Total(BookedOff(db, u)) + Total(RowsOf(db, u, {"WITHDRAW"}))
    <3>1. db.earning[u] = 0 /\ db.available[u] = Start /\ Start \in Nat
      BY SyncConstants
    <3>2. /\ Total(RowsOf(db, u, {"DEPOSIT", "SWEEP"})) = 0 /\ Total(RowsOf(db, u, {"WITHDRAW"})) = 0
          /\ Total(BookedOff(db, u)) = 0
      BY <2>1, <2>2, <2>3
    <3> QED
      BY <3>1, <3>2
  <2> QED
    BY <2>4 DEF AddsUp
<1>4. Booked(db)
  BY <1>2, <1>3, FS_EmptySet DEF Booked
<1>5. TablesInv(pages)
  BY <1>4 DEF TablesInv, Numbered, AllWritten, FriendsFollow
<1>6. IndexerInv(pages)
  BY DEF IndexerInv
<1>7. SweepInv
  BY SyncConstants DEF SweepInv, NoSweep
<1>8. CountersInv
  BY SyncConstants DEF CountersInv
<1> QED
  BY <1>1, <1>5, <1>6, <1>7, <1>8 DEF SyncInv

LEMMA ChainTypes ==
    ASSUME ChainInv
    PROVE  Len(emitted) \in Nat /\ latest \in Nat /\ MaxLedger \in Nat /\ \A i \in 1..Len(emitted) : emitted[i] \in Events
BY LenProperties, ElementOfSeq, SyncConstants DEF ChainInv

\* A new event is in a ledger that nobody has read.
LEMMA EmitKeeps ==
    ASSUME NEW pages, ChainInv, TablesInv(pages), IndexerInv(pages), UNCHANGED <<latest, db, ix, api>>,
           NEW k \in Kinds, NEW u \in People, NEW a \in Nat, Emit(Event(k, u, a)),
           k \in SaverKinds => u \in Savers, k = "withdraw" => staked[u] >= a
    PROVE  /\ ChainInv' /\ TablesInv(pages)' /\ IndexerInv(pages)'
           /\ Last(emitted').hash \in Hashes /\ Last(emitted').hash[1] = "tx"
<1> DEFINE e == Event(k, u, a)
           n == Len(emitted)
<1>1. /\ n \in Nat /\ latest \in Nat /\ MaxLedger \in Nat /\ latest' = latest /\ db' = db /\ ix' = ix /\ api' = api
      /\ \A i \in 1..n : emitted[i] \in Events
  BY ChainTypes
<1>2. /\ n < MaxEvents /\ latest < MaxLedger /\ emitted' = Append(emitted, e)
      /\ staked' = CASE e.kind = "deposit" -> [staked EXCEPT ![e.user] = @ + e.amount]
                     [] e.kind = "withdraw" -> [staked EXCEPT ![e.user] = @ - e.amount]
                     [] OTHER -> staked
  BY DEF Emit, CanEmit
<1>3. /\ e \in Events /\ e.hash = <<"tx", n + 1>> /\ e.ledger = latest + 1 /\ e.kind = k /\ e.user = u /\ e.amount = a
      /\ e.hash[1] = "tx"
  BY <1>1 DEF Event, Events, Hashes
<1>4. Sound(e)
  BY <1>3 DEF Sound
<1>5. staked' \in [Savers -> Nat]
  <2>1. staked \in [Savers -> Nat]
    BY DEF ChainInv
  <2> HIDE DEF e
  <2>2. CASE k = "deposit"
    BY <1>2, <1>3, <2>1, <2>2 DEF SaverKinds
  <2>3. CASE k = "withdraw"
    <3>1. staked' = [staked EXCEPT ![u] = @ - a] /\ u \in Savers /\ staked[u] >= a
      BY <1>2, <1>3, <2>3 DEF SaverKinds
    <3> QED
      BY <2>1, <3>1
  <2>4. CASE k \notin {"deposit", "withdraw"}
    BY <1>2, <1>3, <2>1, <2>4
  <2> QED
    BY <2>2, <2>3, <2>4
<1> HIDE DEF e
<1>6. /\ emitted' \in Seq(Events) /\ Len(emitted') = n + 1 /\ (\A i \in 1..n : emitted'[i] = emitted[i])
      /\ emitted'[n + 1] = e
  BY <1>2, <1>3, AppendProperties DEF ChainInv
<1>7. \A i \in 1..n + 1 : i = n + 1 \/ i \in 1..n
  BY <1>1
<1> HIDE DEF n
<1>8. ASSUME NEW i \in 1..n + 1
      PROVE  /\ Sound(emitted'[i]) /\ emitted'[i].hash = <<"tx", i>>
             /\ emitted'[i].ledger \in 2..MaxLedger /\ emitted'[i].ledger <= latest + 1
  <2>1. CASE i = n + 1
    <3>1. latest >= 1 /\ latest + 1 \in 2..MaxLedger
      BY <1>1, <1>2 DEF ChainInv
    <3> QED
      BY <1>1, <1>3, <1>4, <1>6, <2>1, <3>1
  <2>2. CASE i \in 1..n
    BY <1>6, <2>2 DEF ChainInv, n
  <2> QED
    BY <1>7, <2>1, <2>2
<1>9. ASSUME NEW i \in 1..n + 1, NEW j \in 1..n + 1, i <= j PROVE emitted'[i].ledger <= emitted'[j].ledger
  <2>1. CASE j = n + 1
    BY <1>1, <1>3, <1>6, <1>8, <2>1
  <2>2. CASE j \in 1..n
    <3>1. i \in 1..n
      BY <1>1, <1>9, <2>2
    <3> QED
      BY <1>6, <1>9, <2>2, <3>1 DEF ChainInv, n
  <2> QED
    BY <1>7, <2>1, <2>2
<1>10. ChainInv'
  <2>1. Len(emitted') <= MaxEvents
    BY <1>1, <1>2, <1>6, SyncConstants DEF n
  <2> QED
    BY <1>1, <1>5, <1>6, <1>8, <1>9, <2>1 DEF ChainInv
<1>11. TablesInv(pages)'
  <2>1. db.cursor \in Nat /\ db.cursor <= latest + 1
    BY DEF TablesInv, Booked, Tables
  <2>2. e.ledger < db.cursor => FALSE
    BY <1>1, <1>3, <2>1
  <2>3. AllWritten(pages)'
    <3> SUFFICES ASSUME NEW i \in 1..n + 1, pages = "whole", emitted'[i].ledger < db.cursor
                 PROVE  HasEvent(db, emitted'[i])
      BY <1>1, <1>6 DEF AllWritten
    <3>1. i \in 1..n
      BY <1>6, <1>7, <2>2
    <3> QED
      BY <1>6, <3>1 DEF TablesInv, AllWritten, n
  <2>4. FriendsFollow(pages)'
    <3> SUFFICES ASSUME NEW i \in 1..n + 1, pages = "whole", emitted'[i].kind = "add", emitted'[i].ledger < db.cursor,
                        \A m \in i + 1..n + 1 : emitted'[m].kind \notin FriendKinds
                 PROVE  db.friends[PairOf(emitted'[i].user)] = "ACCEPTED"
      BY <1>1, <1>6 DEF FriendsFollow, IsLastFriend
    <3>1. i \in 1..n
      BY <1>6, <1>7, <2>2
    <3>2. \A m \in i + 1..n : m \in i + 1..n + 1 /\ m \in 1..n
      BY <1>1, <3>1
    <3>3. \A m \in i + 1..n : emitted[m].kind \notin FriendKinds
      BY <1>6, <3>2
    <3>4. emitted[i].kind = "add" /\ emitted[i].ledger < db.cursor /\ emitted'[i] = emitted[i]
      BY <1>6, <3>1
    <3> QED
      BY <3>1, <3>3, <3>4 DEF TablesInv, FriendsFollow, IsLastFriend, FriendKinds, n
  <2> QED
    BY <1>1, <2>3, <2>4 DEF TablesInv, Numbered, Booked, AddsUp, RowsOf, BookedOff
<1>12. IndexerInv(pages)'
  <2>1. ASSUME NEW L \in Nat, HoldsUpTo(L, pages) PROVE HoldsUpTo(L, pages)'
    <3>1. L <= latest
      BY <2>1 DEF HoldsUpTo
    <3>2. emitted'[n + 1].ledger \notin ix.cursor..L
      BY <1>1, <1>3, <1>6, <3>1
    <3>3. ASSUME NEW j \in 1..Len(ix.batch)
          PROVE  \E i \in 1..n + 1 : emitted'[i].ledger \in ix.cursor..L /\ ix.batch[j] = emitted'[i]
      <4>1. PICK i \in 1..n : emitted[i].ledger \in ix.cursor..L /\ ix.batch[j] = emitted[i]
        BY <2>1 DEF HoldsUpTo, n
      <4>2. i \in 1..n + 1 /\ emitted'[i] = emitted[i]
        BY <1>1, <1>6
      <4> QED
        BY <4>1, <4>2
    <3>4. ASSUME NEW i \in 1..n + 1, pages = "whole", emitted'[i].ledger \in ix.cursor..L
          PROVE  \E j \in 1..Len(ix.batch) : ix.batch[j] = emitted'[i]
      <4>1. i \in 1..n /\ emitted'[i] = emitted[i]
        BY <1>6, <1>7, <3>2, <3>4
      <4> QED
        BY <2>1, <3>4, <4>1 DEF HoldsUpTo, n
    <3> QED
      BY <1>1, <1>6, <2>1, <3>3, <3>4 DEF HoldsUpTo, Ordered
  <2> QED
    BY <1>1, <2>1 DEF IndexerInv
<1>13. Last(emitted') = e
  BY <1>6 DEF Last
<1> QED
  BY <1>3, <1>10, <1>11, <1>12, <1>13 DEF Events

LEMMA CloseKeeps == ASSUME NEW pages, SyncInv(pages), CloseLedger PROVE SyncInv(pages)'
<1>1. /\ latest < MaxLedger /\ latest' = latest + 1
      /\ UNCHANGED <<emitted, staked, db, ix, autoEarn, backoff, configured, sw, api, faults>>
  BY DEF CloseLedger
<1>2. /\ latest \in 1..MaxLedger /\ MaxLedger \in Nat /\ db.cursor \in Nat
      /\ ChainInv /\ TablesInv(pages) /\ IndexerInv(pages)
  BY SyncConstants DEF SyncInv, ChainInv, TablesInv, Booked, Tables
<1>3. ChainInv'
  <2>1. \A i \in 1..Len(emitted) : emitted[i].ledger \in 2..MaxLedger /\ emitted[i].ledger <= latest + 1
    BY <1>2 DEF ChainInv
  <2>2. \A i \in 1..Len(emitted) : emitted[i].ledger <= latest' + 1
    BY <1>1, <1>2, <2>1
  <2>3. latest' \in 1..MaxLedger
    BY <1>1, <1>2
  <2> QED
    BY <1>1, <1>2, <2>1, <2>2, <2>3 DEF ChainInv
<1>4. TablesInv(pages)'
  <2>1. Booked(db)' /\ Numbered(db, api)'
    BY <1>1, <1>2 DEF TablesInv, Booked, AddsUp, RowsOf, BookedOff, Numbered
  <2>2. (db.cursor <= latest + 1)'
    BY <1>1, <1>2 DEF TablesInv
  <2>3. AllWritten(pages)' /\ FriendsFollow(pages)'
    BY <1>1, <1>2 DEF TablesInv, AllWritten, FriendsFollow, IsLastFriend
  <2> QED
    BY <2>1, <2>2, <2>3 DEF TablesInv
<1>5. IndexerInv(pages)'
  <2>1. ASSUME NEW L \in Nat, HoldsUpTo(L, pages) PROVE HoldsUpTo(L, pages)'
    <3>1. L <= latest'
      BY <1>1, <1>2, <2>1 DEF HoldsUpTo
    <3> QED
      BY <1>1, <2>1, <3>1 DEF HoldsUpTo, Ordered
  <2> QED
    BY <1>1, <1>2, <2>1 DEF IndexerInv
<1>6. SweepInv' /\ CountersInv'
  BY <1>1 DEF SyncInv, SweepInv, CountersInv
<1> QED
  BY <1>3, <1>4, <1>5, <1>6 DEF SyncInv

-----------------------------------------------------------------------------
(* The steps of the indexer. *)

\* A request of the indexer gets all there is.
PagesHold == Len(Visible) <= PageSize

\* What it gets is the beginning of that, in any case.
LEMMA PageHas ==
    ASSUME ChainInv
    PROVE  /\ Page \in Seq(Events) /\ Ordered(Page)
           /\ \A j \in 1..Len(Page) : \E i \in Returned : Page[j] = emitted[i]
           /\ PagesHold => Page = Visible
<1> DEFINE n == Len(Visible)
<1>1. /\ Visible \in Seq(Events) /\ n \in Nat /\ PageSize \in Nat \ {0} /\ Ordered(Visible)
      /\ \A j \in 1..n : \E i \in Returned : Visible[j] = emitted[i]
  BY VisibleHas, LenProperties, SyncConstants
<1>2. PICK p \in Nat, l \in Nat : p = PageSize /\ l = n
  BY <1>1
<1>3. PICK m \in Nat : m = (IF p <= l THEN p ELSE l)
  BY <1>2
<1>4. m \in 0..l /\ (l <= p => m = l)
  BY <1>2, <1>3
<1>5. Min({p, l}) = m
  <2>1. \A x \in {p, l} : (\A y \in {p, l} : x =< y) <=> x = m
    BY <1>2, <1>3
  <2>2. m \in {p, l}
    BY <1>3
  <2> QED
    BY <2>1, <2>2 DEF Min
<1>6. Page = SubSeq(Visible, 1, m)
  BY <1>2, <1>5 DEF Page
<1>7. \A j \in 1..m : Visible[j] \in Events /\ j \in 1..n
  BY <1>1, <1>2, <1>4, ElementOfSeq
<1>8. PICK v : v = Visible
  OBVIOUS
<1>9. /\ SubSeq(v, 1, m) \in Seq(Events)
      /\ Len(SubSeq(v, 1, m)) = IF 1 <= m THEN m - 1 + 1 ELSE 0
      /\ \A j \in 1..m - 1 + 1 : SubSeq(v, 1, m)[j] = v[1 + j - 1]
  BY <1>4, <1>7, <1>8, SubSeqProperties
<1>10. Page \in Seq(Events) /\ Len(Page) = m /\ \A j \in 1..m : Page[j] = Visible[j]
  BY <1>4, <1>6, <1>8, <1>9
<1>11. Ordered(Page)
  BY <1>1, <1>7, <1>10 DEF Ordered
<1>12. \A j \in 1..Len(Page) : \E i \in Returned : Page[j] = emitted[i]
  BY <1>1, <1>7, <1>10
<1>13. PagesHold => Page = Visible
  <2> SUFFICES ASSUME PagesHold PROVE Page = Visible
    OBVIOUS
  <2>1. m = Len(Visible)
    BY <1>2, <1>4 DEF PagesHold
  <2> QED
    BY <1>1, <1>6, <2>1, SubSeqFull
<1> QED
  BY <1>10, <1>11, <1>12, <1>13

LEMMA TablesRest == ASSUME NEW pages, TablesInv(pages), UNCHANGED <<emitted, latest, db, api>> PROVE TablesInv(pages)'
<1>1. Booked(db)' /\ Numbered(db, api)'
  BY DEF TablesInv, Booked, AddsUp, RowsOf, BookedOff, Numbered
<1>2. (db.cursor <= latest + 1)' /\ AllWritten(pages)' /\ FriendsFollow(pages)'
  BY DEF TablesInv, AllWritten, FriendsFollow, IsLastFriend
<1> QED
  BY <1>1, <1>2 DEF TablesInv

LEMMA ChainRests == ASSUME ChainInv, UNCHANGED <<emitted, latest, staked>> PROVE ChainInv'
BY DEF ChainInv

LEMMA IndexerRests ==
    ASSUME NEW pages, IndexerInv(pages), UNCHANGED <<emitted, latest, ix>>, db'.cursor = db.cursor
    PROVE  IndexerInv(pages)'
BY DEF IndexerInv, HoldsUpTo, Ordered

LEMMA OthersRest ==
    ASSUME NEW pages, SyncInv(pages), UNCHANGED <<sw, autoEarn, backoff, configured, api, faults>>
    PROVE  SweepInv' /\ CountersInv'
BY DEF SyncInv, SweepInv, CountersInv

LEMMA PollKeeps == ASSUME NEW pages, SyncInv(pages), pages = "whole" => PagesHold, Poll PROVE SyncInv(pages)'
<1> USE DEF SyncInv
<1>1. /\ ix.phase = "idle" /\ ix.cursor <= latest
      /\ ix' = [ix EXCEPT !.phase = "read", !.batch = Page, !.next = NextCursor]
      /\ UNCHANGED <<emitted, latest, staked, db, autoEarn, backoff, configured, sw, api, faults>>
  BY DEF Poll
<1>2. ix \in [phase : {"idle", "read"}, cursor : Nat, batch : Seq(Events), next : Nat] /\ ix.cursor <= db.cursor
      /\ latest \in Nat
  BY ChainTypes DEF IndexerInv
<1>3. /\ Page \in Seq(Events) /\ Ordered(Page)
      /\ \A j \in 1..Len(Page) : \E i \in Returned : Page[j] = emitted[i]
      /\ pages = "whole" => \A i \in Returned : \E j \in 1..Len(Page) : Page[j] = emitted[i]
  BY PageHas, VisibleHas
<1>4. NextCursor \in Nat /\ NextCursor = IF latest > ix.cursor THEN latest ELSE ix.cursor + 1
  BY <1>2 DEF NextCursor
<1>5. /\ ix' \in [phase : {"idle", "read"}, cursor : Nat, batch : Seq(Events), next : Nat]
      /\ ix'.cursor = ix.cursor /\ ix'.batch = Page /\ ix'.next = NextCursor
  BY <1>1, <1>2, <1>3, <1>4
<1>6. HoldsUpTo(latest, pages)'
  <2>1. \A i \in 1..Len(emitted) : emitted[i].ledger \in ix.cursor..latest <=> i \in Returned
    BY DEF Returned
  <2>2. Returned \subseteq 1..Len(emitted)
    BY DEF Returned
  <2> QED
    BY <1>1, <1>2, <1>3, <1>4, <1>5, <2>1, <2>2 DEF HoldsUpTo, Ordered
<1>7. IndexerInv(pages)'
  BY <1>1, <1>2, <1>5, <1>6 DEF IndexerInv
<1> QED
  BY <1>1, <1>7, ChainRests, TablesRest, OthersRest

LEMMA RollbackKeeps == ASSUME NEW pages, SyncInv(pages), Rollback PROVE SyncInv(pages)'
<1> USE DEF SyncInv
<1>1. /\ ix' = Idle(ix.cursor) /\ db' = db
      /\ UNCHANGED <<emitted, latest, staked, autoEarn, backoff, configured, sw, api, faults>>
  BY DEF Rollback, RolledBack
<1>2. ix.cursor \in Nat /\ ix.cursor <= db.cursor
  BY DEF IndexerInv
<1>3. IndexerInv(pages)'
  BY <1>1, <1>2 DEF IndexerInv, Idle
<1> QED
  BY <1>1, <1>3, ChainRests, TablesRest, OthersRest

\* After a commit the tables have all that is behind the new cursor.
LEMMA CommitKeeps == ASSUME NEW pages, SyncInv(pages), NEW heard \in BOOLEAN, Commit(heard) PROVE SyncInv(pages)'
<1> USE DEF SyncInv
<1>1. PICK d \in ProcessBatch(ix.batch) : db' = [d EXCEPT !.cursor = ix.next]
  BY DEF Commit
<1>2. /\ ix.phase = "read" /\ ix' = Idle(IF heard THEN ix.next ELSE ix.cursor)
      /\ UNCHANGED <<emitted, latest, staked, autoEarn, backoff, configured, sw, api>>
      /\ faults' = faults \/ (faults < MaxFaults /\ faults' = faults + 1)
  BY DEF Commit, Fault
<1>3. PICK L \in Nat : HoldsUpTo(L, pages)
  BY <1>2 DEF IndexerInv
<1>4. /\ ix \in [phase : {"idle", "read"}, cursor : Nat, batch : Seq(Events), next : Nat]
      /\ ix.cursor <= db.cursor /\ latest \in Nat /\ Booked(db) /\ db.cursor \in Nat
      /\ ix.batch \in Seq(Events) /\ Len(ix.batch) \in Nat
  BY ChainTypes, LenProperties DEF IndexerInv, TablesInv, Booked, Tables
<1>5. L <= latest /\ ix.cursor <= L /\ ix.next = (IF L > ix.cursor THEN L ELSE ix.cursor + 1) /\ ix.next \in Nat
  BY <1>3, <1>4 DEF HoldsUpTo
<1>6. ix.cursor <= ix.next /\ ix.next <= latest + 1 /\ ix.next <= L + 1
  BY <1>4, <1>5
<1>7. \A j \in 1..Len(ix.batch) : Sound(ix.batch[j])
  BY <1>3 DEF HoldsUpTo, ChainInv
<1>8. Done(db, d, ix.batch, Len(ix.batch))
  BY <1>1, <1>4, <1>7, BatchDone
<1>9. /\ Booked(d) /\ Grows(db, d) /\ d \in Tables
      /\ \A j \in 1..Len(ix.batch) : HasEvent(d, ix.batch[j])
  BY <1>8 DEF Done, Booked
<1>10. /\ db' \in Tables /\ db'.cursor = ix.next /\ db'.rows = d.rows /\ db'.payments = d.payments
       /\ db'.friends = d.friends /\ db'.available = d.available /\ db'.earning = d.earning
  BY <1>1, <1>4, <1>9 DEF Tables
<1>11. PICK after : after = db'
  OBVIOUS
<1>12. Booked(after)
  BY <1>9, <1>10, <1>11, BooksUntouched
<1>13. Booked(db)' /\ Numbered(db, api)'
  <2>1. \A r \in d.rows : r.hash[1] = "api" => r.hash[2] < api
    BY <1>9 DEF Grows, TablesInv, Numbered
  <2> QED
    BY <1>2, <1>10, <1>11, <1>12, <2>1 DEF Numbered, Booked, AddsUp, RowsOf, BookedOff
<1>14. \A i \in 1..Len(emitted) : emitted[i].ledger \in Nat
  BY ChainTypes DEF Events
<1>15. AllWritten(pages)'
  <2> SUFFICES ASSUME NEW i \in 1..Len(emitted), pages = "whole", emitted[i].ledger < ix.next
               PROVE  HasEvent(after, emitted[i])
    BY <1>2, <1>10, <1>11 DEF AllWritten, HasEvent, Clashes
  <2>1. CASE emitted[i].ledger < ix.cursor
    <3>1. HasEvent(db, emitted[i])
      BY <1>4, <1>14, <2>1 DEF TablesInv, AllWritten
    <3> QED
      BY <1>9, <1>10, <1>11, <3>1 DEF HasEvent, Grows
  <2>2. CASE ~(emitted[i].ledger < ix.cursor)
    <3>1. emitted[i].ledger \in ix.cursor..L
      BY <1>4, <1>5, <1>6, <1>14, <2>2
    <3>2. PICK j \in 1..Len(ix.batch) : ix.batch[j] = emitted[i]
      BY <1>3, <3>1 DEF HoldsUpTo
    <3>3. HasEvent(d, emitted[i])
      BY <1>9, <3>2
    <3> QED
      BY <1>10, <1>11, <3>3 DEF HasEvent
  <2> QED
    BY <2>1, <2>2
<1>16. FriendsFollow(pages)'
  <2> SUFFICES ASSUME NEW i \in 1..Len(emitted), pages = "whole", IsLastFriend(i), emitted[i].kind = "add",
                      emitted[i].ledger < ix.next
               PROVE  d.friends[PairOf(emitted[i].user)] = "ACCEPTED"
    BY <1>2, <1>10 DEF FriendsFollow, IsLastFriend
  <2>1. ASSUME NEW m \in 1..Len(emitted), emitted[m].kind \in FriendKinds PROVE m <= i
    <3>1. m \notin i + 1..Len(emitted)
      BY <2>1 DEF IsLastFriend
    <3> QED
      BY <3>1, ChainTypes
  <2>2. CASE emitted[i].ledger < ix.cursor
    <3>1. db.friends[PairOf(emitted[i].user)] = "ACCEPTED"
      BY <1>4, <1>14, <2>2 DEF TablesInv, FriendsFollow
    <3>2. ASSUME NEW j \in 1..Len(ix.batch), ix.batch[j].kind \in FriendKinds PROVE FALSE
      <4>1. PICK m \in 1..Len(emitted) : emitted[m].ledger \in ix.cursor..L /\ ix.batch[j] = emitted[m]
        BY <1>3 DEF HoldsUpTo
      <4>2. m <= i
        BY <2>1, <3>2, <4>1
      <4>3. emitted[m].ledger <= emitted[i].ledger
        BY <4>2 DEF ChainInv
      <4> QED
        BY <1>4, <1>14, <2>2, <4>1, <4>3
    <3> QED
      BY <1>8, <3>1, <3>2 DEF Done
  <2>3. CASE ~(emitted[i].ledger < ix.cursor)
    <3>1. emitted[i].ledger \in ix.cursor..L
      BY <1>4, <1>5, <1>6, <1>14, <2>3
    <3>2. PICK j \in 1..Len(ix.batch) : ix.batch[j] = emitted[i]
      BY <1>3, <3>1 DEF HoldsUpTo
    <3>3. ASSUME NEW k \in j + 1..Len(ix.batch), ix.batch[k].kind \in FriendKinds PROVE FALSE
      <4>1. k \in 1..Len(ix.batch) /\ j < k
        BY <1>4
      <4>2. PICK m \in 1..Len(emitted) : ix.batch[k] = emitted[m]
        BY <1>3, <4>1 DEF HoldsUpTo
      <4>3. m <= i
        BY <2>1, <3>3, <4>2
      <4>4. emitted[i].hash = <<"tx", i>> /\ emitted[m].hash = <<"tx", m>>
        BY DEF ChainInv
      <4>5. emitted[i].hash[2] = i /\ emitted[m].hash[2] = m
        BY <4>4
      <4>6. ix.batch[j].hash[2] < ix.batch[k].hash[2]
        BY <1>3, <4>1 DEF HoldsUpTo, Ordered
      <4> QED
        BY <3>2, <4>2, <4>3, <4>5, <4>6
    <3> QED
      BY <1>8, <3>2, <3>3 DEF Done
  <2> QED
    BY <2>2, <2>3
<1>17. TablesInv(pages)'
  BY <1>2, <1>6, <1>10, <1>13, <1>15, <1>16 DEF TablesInv
<1>18. IndexerInv(pages)'
  BY <1>2, <1>4, <1>5, <1>6, <1>10 DEF IndexerInv, Idle
<1>19. SweepInv' /\ CountersInv'
  <2>1. faults' \in 0..MaxFaults
    BY <1>2, SyncConstants DEF CountersInv
  <2>2. CountersInv'
    BY <1>2, <2>1 DEF CountersInv
  <2> QED
    BY <1>2, <2>2 DEF SweepInv
<1> QED
  BY <1>2, <1>17, <1>18, <1>19, ChainRests

-----------------------------------------------------------------------------
(* The steps of the sweep. *)

LEMMA SweepTypes ==
    ASSUME NEW pages, SyncInv(pages)
    PROVE  /\ db.available \in [Savers -> Nat] /\ sw.amounts \in [Savers -> Nat] /\ sw.todo \subseteq Savers
           /\ Savers \subseteq People /\ ChainInv /\ TablesInv(pages) /\ IndexerInv(pages) /\ Booked(db) /\ db \in Tables
BY SyncConstants DEF SyncInv, TablesInv, SweepInv, Booked, Tables

LEMMA PastTyped ==
    ASSUME SweepInv, NEW u \in Savers
    PROVE  /\ Past(u) \in [phase : {"idle", "sweeping", "sent"}, todo : SUBSET Savers, amounts : [Savers -> Nat],
                           user : Savers \cup {""}, hash : Hashes \cup {<<>>}]
           /\ Past(u).phase = "sweeping"
BY DEF SweepInv, Past, Skipped

LEMMA SweepStartKeeps == ASSUME NEW pages, SyncInv(pages), SweepStarts PROVE SyncInv(pages)'
<1>1. /\ sw' = [sw EXCEPT !.phase = "sweeping", !.todo = Candidates, !.amounts = db.available]
      /\ UNCHANGED <<emitted, latest, staked, db, ix, autoEarn, backoff, configured, api, faults>>
  BY DEF SweepStarts
<1>2. Candidates \subseteq Savers
  BY DEF SyncInv, CountersInv, Candidates
<1>3. SweepInv'
  BY <1>1, <1>2, SweepTypes DEF SyncInv, SweepInv
<1>4. CountersInv'
  BY <1>1 DEF SyncInv, CountersInv
<1> QED
  BY <1>1, <1>3, <1>4, ChainRests, TablesRest, IndexerRests DEF SyncInv

LEMMA SubmitKeeps == ASSUME NEW pages, SyncInv(pages), NEW u \in Savers, Submit(u) PROVE SyncInv(pages)'
<1>1. /\ IF configured THEN Emit(Event("deposit", u, sw.amounts[u])) ELSE UNCHANGED <<emitted, staked>>
      /\ sw' = [sw EXCEPT !.phase = "sent", !.user = u,
                          !.hash = IF configured THEN Last(emitted').hash ELSE <<"sweep", Cardinality(db.rows)>>]
      /\ UNCHANGED <<latest, db, ix, autoEarn, backoff, configured, api, faults>>
  BY DEF Submit
<1>2. sw.amounts[u] \in Nat /\ u \in People /\ "deposit" \in Kinds
  BY SweepTypes DEF Kinds
<1>3. CASE configured
  <2>1. Emit(Event("deposit", u, sw.amounts[u]))
    BY <1>1, <1>3
  <2>2. /\ ChainInv' /\ TablesInv(pages)' /\ IndexerInv(pages)'
        /\ Last(emitted').hash \in Hashes /\ Last(emitted').hash[1] = "tx"
    BY <1>1, <1>2, <2>1, EmitKeeps, SweepTypes
  <2>3. SweepInv'
    BY <1>1, <1>3, <2>2 DEF SyncInv, SweepInv
  <2>4. CountersInv'
    BY <1>1 DEF SyncInv, CountersInv
  <2> QED
    BY <2>2, <2>3, <2>4 DEF SyncInv
<1>4. CASE ~configured
  <2>1. PICK h : h = <<"sweep", Cardinality(db.rows)>>
    OBVIOUS
  <2>2. Cardinality(db.rows) \in Nat
    BY SweepTypes, FS_CardinalityType DEF Booked
  <2>3. h \in Hashes /\ h[1] # "api"
    BY <2>1, <2>2 DEF Hashes
  <2>4. SweepInv'
    BY <1>1, <1>4, <2>1, <2>3 DEF SyncInv, SweepInv
  <2>5. CountersInv'
    BY <1>1 DEF SyncInv, CountersInv
  <2> QED
    BY <1>1, <1>4, <2>4, <2>5, ChainRests, TablesRest, IndexerRests, SweepTypes DEF SyncInv
<1> QED
  BY <1>3, <1>4

LEMMA SubmitFailKeeps == ASSUME NEW pages, SyncInv(pages), NEW u \in Savers, SubmitFails(u) PROVE SyncInv(pages)'
<1>1. /\ \/ UNCHANGED <<emitted, staked, faults>>
         \/ Emit(Event("deposit", u, sw.amounts[u])) /\ faults < MaxFaults /\ faults' = faults + 1
      /\ sw' = Past(u) /\ backoff' = backoff \cup {u}
      /\ UNCHANGED <<latest, db, ix, autoEarn, configured, api>>
  BY DEF SubmitFails, Failed, Fault
<1>2. sw.amounts[u] \in Nat /\ u \in People /\ "deposit" \in Kinds
  BY SweepTypes DEF Kinds
<1>3. SweepInv'
  BY <1>1, PastTyped DEF SyncInv, SweepInv
<1>4. CountersInv'
  <2>1. faults' \in 0..MaxFaults
    BY <1>1, SyncConstants DEF SyncInv, CountersInv
  <2> QED
    BY <1>1, <2>1 DEF SyncInv, CountersInv
<1>5. CASE UNCHANGED <<emitted, staked, faults>>
  BY <1>1, <1>3, <1>4, <1>5, ChainRests, TablesRest, IndexerRests, SweepTypes DEF SyncInv
<1>6. CASE Emit(Event("deposit", u, sw.amounts[u]))
  <2>1. ChainInv' /\ TablesInv(pages)' /\ IndexerInv(pages)'
    BY <1>1, <1>2, <1>6, EmitKeeps, SweepTypes
  <2> QED
    BY <1>3, <1>4, <2>1 DEF SyncInv
<1> QED
  BY <1>1, <1>5, <1>6

\* A row more in the tables, under the same cursor, for friends as they were.
LEMMA TablesGrow ==
    ASSUME NEW pages, TablesInv(pages), UNCHANGED <<emitted, latest>>, Booked(db'), db'.cursor = db.cursor,
           db'.payments = db.payments,
           db'.friends = db.friends, NEW r, db'.rows = db.rows \cup {r}, api \in Nat, api' \in Nat, api <= api',
           r.hash[1] = "api" => r.hash[2] < api'
    PROVE  TablesInv(pages)'
<1>1. AllWritten(pages)'
  BY DEF TablesInv, AllWritten, HasEvent, Clashes
<1>2. FriendsFollow(pages)'
  BY DEF TablesInv, FriendsFollow, IsLastFriend
<1>3. Numbered(db, api)'
  <2> SUFFICES ASSUME NEW x \in db'.rows, x.hash[1] = "api" PROVE x.hash[2] < api'
    BY DEF Numbered
  <2>1. CASE x = r
    BY <2>1
  <2>2. CASE x \in db.rows
    <3>1. x.hash[2] < api /\ x.hash \in Hashes
      BY <2>2 DEF TablesInv, Numbered, Booked, Tables, Rows
    <3>2. x.hash[2] \in Nat
      BY <3>1 DEF Hashes
    <3> QED
      BY <3>1, <3>2
  <2> QED
    BY <2>1, <2>2
<1>4. Booked(db)'
  BY DEF Booked, AddsUp, RowsOf, BookedOff
<1> QED
  BY <1>1, <1>2, <1>3, <1>4 DEF TablesInv

LEMMA BookKeeps == ASSUME NEW pages, SyncInv(pages), Book PROVE SyncInv(pages)'
<1> DEFINE u == sw.user
           a == sw.amounts[u]
           h == sw.hash
           r == Row(h, u, "SWEEP", a)
<1>1. /\ sw.phase = "sent"
      /\ \/ Failed(u) /\ UNCHANGED db
         \/ /\ Unique(db, h) /\ sw' = Past(u)
            /\ \/ UNCHANGED <<db, backoff>>
               \/ \E d \in SweepTx(db, u, a, h) : db' = d /\ backoff' = backoff \ {u}
      /\ UNCHANGED <<emitted, latest, staked, ix, autoEarn, configured, api, faults>>
  BY DEF Book
<1>2. u \in Savers /\ a \in Nat /\ h \in Hashes /\ h[1] # "api"
  BY <1>1, SweepTypes DEF SyncInv, SweepInv
<1>3. sw' = Past(u) /\ (backoff' = backoff \cup {u} \/ backoff' = backoff \/ backoff' = backoff \ {u})
  BY <1>1 DEF Failed
<1>4. SweepInv'
  BY <1>2, <1>3, PastTyped DEF SyncInv, SweepInv
<1>5. CountersInv'
  BY <1>1, <1>2, <1>3 DEF SyncInv, CountersInv
<1>6. CASE UNCHANGED db
  BY <1>1, <1>4, <1>5, <1>6, ChainRests, TablesRest, IndexerRests, SweepTypes DEF SyncInv
<1>7. CASE Unique(db, h) /\ \E d \in SweepTx(db, u, a, h) : db' = d
  <2>1. /\ db.available[u] >= a
        /\ db' = [db EXCEPT !.rows = @ \cup {r}, !.available[u] = @ - a, !.earning[u] = @ + a]
    BY <1>7 DEF SweepTx, If
  <2>2. r \notin db.rows /\ r.hash = h
    BY <1>7 DEF Unique, Row
  <2> HIDE DEF u, a, h
  <2>3. PICK d : d = db'
    OBVIOUS
  <2>4. /\ Booked(d) /\ d.cursor = db.cursor /\ d.payments = db.payments /\ d.friends = db.friends
        /\ d.rows = db.rows \cup {r}
    <3>1. PICK t \in {"SWEEP", "DEPOSIT"} : t = "SWEEP"
      OBVIOUS
    <3>2. /\ d = Moved(db, u, a, h, t)
          /\ Row(h, u, t, a) = r /\ Row(h, u, t, a) \notin db.rows
      BY <2>1, <2>2, <2>3, <3>1 DEF Moved
    <3>3. /\ Booked(d) /\ d.cursor = db.cursor /\ d.payments = db.payments /\ d.friends = db.friends
          /\ d.rows = db.rows \cup {Row(h, u, t, a)}
      BY <1>2, <2>1, <3>1, <3>2, MoveBooks, SweepTypes
    <3> QED
      BY <3>2, <3>3
  <2>5. api \in Nat
    BY DEF SyncInv, CountersInv
  <2>6. TablesInv(pages)'
    BY <1>1, <1>2, <2>2, <2>3, <2>4, <2>5, TablesGrow, SweepTypes
  <2> QED
    BY <1>1, <1>4, <1>5, <2>3, <2>4, <2>6, ChainRests, IndexerRests, SweepTypes DEF SyncInv
<1> QED
  BY <1>1, <1>6, <1>7

LEMMA SweepEndKeeps == ASSUME NEW pages, SyncInv(pages), SweepEnds PROVE SyncInv(pages)'
<1>1. sw' = NoSweep /\ UNCHANGED <<emitted, latest, staked, db, ix, autoEarn, backoff, configured, api, faults>>
  BY DEF SweepEnds
<1>2. SweepInv'
  BY <1>1 DEF SweepInv, NoSweep
<1>3. CountersInv'
  BY <1>1 DEF SyncInv, CountersInv
<1> QED
  BY <1>1, <1>2, <1>3, ChainRests, TablesRest, IndexerRests DEF SyncInv

LEMMA BackoffKeeps == ASSUME NEW pages, SyncInv(pages), NEW u \in Savers, BackoffEnds(u) PROVE SyncInv(pages)'
<1>1. backoff' = backoff \ {u} /\ UNCHANGED <<emitted, latest, staked, db, ix, autoEarn, configured, sw, api, faults>>
  BY DEF BackoffEnds
<1>2. SweepInv' /\ CountersInv'
  BY <1>1 DEF SyncInv, SweepInv, CountersInv
<1> QED
  BY <1>1, <1>2, ChainRests, TablesRest, IndexerRests DEF SyncInv

-----------------------------------------------------------------------------
(* The steps of the endpoints, and a restart. *)

\* What every call leaves alone.
CallRests == UNCHANGED <<emitted, latest, staked, ix, backoff, configured, sw, faults>>

LEMMA CallKeeps ==
    ASSUME NEW pages, SyncInv(pages), Call, CallRests, autoEarn' \subseteq Savers, TablesInv(pages)',
           db'.cursor = db.cursor
    PROVE  SyncInv(pages)'
<1>1. api' = api + 1 /\ api < MaxApi /\ UNCHANGED <<emitted, latest, staked, ix, backoff, configured, sw, faults>>
  BY DEF Call, CallRests
<1>2. api' \in 0..MaxApi
  BY <1>1, SyncConstants DEF SyncInv, CountersInv
<1>3. CountersInv'
  BY <1>1, <1>2 DEF SyncInv, CountersInv
<1>4. SweepInv'
  BY <1>1 DEF SyncInv, SweepInv
<1> QED
  BY <1>1, <1>3, <1>4, ChainRests, IndexerRests DEF SyncInv

\* Friends change, and no accepted request does.
LEMMA FriendsChange ==
    ASSUME NEW pages, SyncInv(pages), Call, CallRests, NEW p \in Pairs, NEW status \in Statuses,
           db.friends[p] # "ACCEPTED",
           db' = [db EXCEPT !.friends[p] = status], UNCHANGED autoEarn
    PROVE  SyncInv(pages)'
<1>1. UNCHANGED <<emitted, latest>> /\ api \in Nat /\ api' = api + 1
  BY DEF CallRests, Call, SyncInv, CountersInv
<1>2. /\ db' \in Tables /\ db'.cursor = db.cursor /\ db'.rows = db.rows /\ db'.payments = db.payments
      /\ db'.available = db.available /\ db'.earning = db.earning
      /\ \A q \in Pairs : q # p => db'.friends[q] = db.friends[q]
  BY SweepTypes DEF Tables
<1>3. PICK d : d = db'
  OBVIOUS
<1>4. Booked(d)
  BY <1>2, <1>3, BooksUntouched, SweepTypes
<1>5. Booked(db)'
  BY <1>3, <1>4 DEF Booked, AddsUp, RowsOf, BookedOff
<1>6. Numbered(db, api)'
  <2> SUFFICES ASSUME NEW x \in db.rows, x.hash[1] = "api" PROVE x.hash[2] < api'
    BY <1>2 DEF Numbered
  <2>1. x.hash[2] < api /\ x.hash \in Hashes
    BY SweepTypes DEF TablesInv, Numbered, Booked, Tables, Rows
  <2>2. x.hash[2] \in Nat
    BY <2>1 DEF Hashes
  <2> QED
    BY <1>1, <2>1, <2>2
<1>7. AllWritten(pages)' /\ (db.cursor <= latest + 1)'
  BY <1>1, <1>2, SweepTypes DEF TablesInv, AllWritten, HasEvent, Clashes
<1>8. FriendsFollow(pages)'
  <2> SUFFICES ASSUME NEW i \in 1..Len(emitted), pages = "whole", IsLastFriend(i), emitted[i].kind = "add",
                      emitted[i].ledger < db.cursor
               PROVE  db'.friends[PairOf(emitted[i].user)] = "ACCEPTED"
    BY <1>1, <1>2 DEF FriendsFollow, IsLastFriend
  <2>1. db.friends[PairOf(emitted[i].user)] = "ACCEPTED"
    BY SweepTypes DEF TablesInv, FriendsFollow
  <2>2. emitted[i].user \in Savers
    BY SweepTypes DEF ChainInv, Sound, SaverKinds
  <2>3. PairOf(emitted[i].user) \in Pairs
    BY <2>2, PairExists
  <2> QED
    BY <1>2, <2>1, <2>3
<1>9. TablesInv(pages)'
  BY <1>5, <1>6, <1>7, <1>8 DEF TablesInv
<1> QED
  BY <1>2, <1>9, CallKeeps DEF SyncInv, CountersInv

\* An endpoint books a row under a number of its own.
LEMMA EndpointBooks ==
    ASSUME NEW pages, SyncInv(pages), Call, CallRests, UNCHANGED autoEarn, NEW d, d = db', Booked(d),
           d.cursor = db.cursor,
           d.payments = db.payments, d.friends = db.friends, NEW r, r.hash = <<"api", api>>, d.rows = db.rows \cup {r}
    PROVE  SyncInv(pages)'
<1>1. UNCHANGED <<emitted, latest>> /\ api \in Nat /\ api' = api + 1 /\ r.hash[2] = api
  BY DEF CallRests, Call, SyncInv, CountersInv
<1>2. TablesInv(pages)'
  BY <1>1, TablesGrow, SweepTypes
<1> QED
  BY <1>2, CallKeeps DEF SyncInv, CountersInv

LEMMA DepositKeeps ==
    ASSUME NEW pages, SyncInv(pages), Call, CallRests, NEW u \in Savers, NEW a \in Nat, ApiDeposit(u, a)
    PROVE  SyncInv(pages)'
<1>1. PICK h : h = <<"api", api>>
  OBVIOUS
<1>2. api \in Nat
  BY DEF SyncInv, CountersInv
<1>3. h \in Hashes /\ h[1] = "api" /\ h[2] = api
  BY <1>1, <1>2 DEF Hashes
<1>4. PICK t \in {"SWEEP", "DEPOSIT"} : t = "DEPOSIT"
  OBVIOUS
<1>5. PICK d : d = db'
  OBVIOUS
<1>6. /\ d = Moved(db, u, a, h, t)
      /\ db.available[u] >= a /\ UNCHANGED autoEarn
  BY <1>1, <1>4, <1>5 DEF ApiDeposit, Moved
<1>7. Row(h, u, t, a) \notin db.rows /\ Row(h, u, t, a).hash = h
  <2>1. ASSUME NEW x \in db.rows, x.hash = h PROVE FALSE
    <3>1. x.hash[2] < api
      BY <1>3, <2>1, SweepTypes DEF TablesInv, Numbered
    <3> QED
      BY <1>2, <1>3, <2>1, <3>1
  <2> QED
    BY <2>1 DEF Row
<1>8. /\ Booked(d) /\ d.cursor = db.cursor /\ d.payments = db.payments /\ d.friends = db.friends
      /\ d.rows = db.rows \cup {Row(h, u, t, a)}
  BY <1>3, <1>6, <1>7, MoveBooks, SweepTypes
<1> QED
  BY <1>1, <1>5, <1>6, <1>7, <1>8, EndpointBooks

LEMMA WithdrawKeeps ==
    ASSUME NEW pages, SyncInv(pages), Call, CallRests, NEW u \in Savers, NEW a \in Nat, ApiWithdraw(u, a)
    PROVE  SyncInv(pages)'
<1>1. PICK h : h = <<"api", api>>
  OBVIOUS
<1>2. h \in Hashes
  BY <1>1 DEF Hashes, SyncInv, CountersInv
<1>3. PICK d \in WithdrawalTx(db, u, a, h) : d = db'
  BY <1>1 DEF ApiWithdraw
<1>4. /\ Booked(d) /\ d.cursor = db.cursor /\ d.payments = db.payments /\ d.friends = db.friends
      /\ d.rows = db.rows \cup {Row(h, u, "WITHDRAW", a)}
  BY <1>2, <1>3, WithdrawalBooks, SweepTypes
<1>5. Row(h, u, "WITHDRAW", a).hash = h /\ UNCHANGED autoEarn
  BY DEF Row, ApiWithdraw
<1> QED
  BY <1>1, <1>3, <1>4, <1>5, EndpointBooks

LEMMA ApiKeeps == ASSUME NEW pages, SyncInv(pages), Api PROVE SyncInv(pages)'
<1>1. Call /\ CallRests
  BY DEF Api, CallRests
<1>2. ASSUME NEW u \in Savers, ToggleAutoEarn(u) PROVE SyncInv(pages)'
  <2>1. autoEarn' \subseteq Savers /\ db' = db
    BY <1>2 DEF ToggleAutoEarn, SyncInv, CountersInv
  <2>2. UNCHANGED <<emitted, latest>> /\ api \in Nat /\ api' = api + 1
    BY <1>1 DEF CallRests, Call, SyncInv, CountersInv
  <2>3. Numbered(db, api)'
    <3> SUFFICES ASSUME NEW x \in db.rows, x.hash[1] = "api" PROVE x.hash[2] < api'
      BY <2>1 DEF Numbered
    <3>1. x.hash[2] < api /\ x.hash \in Hashes
      BY SweepTypes DEF TablesInv, Numbered, Booked, Tables, Rows
    <3>2. x.hash[2] \in Nat
      BY <3>1 DEF Hashes
    <3> QED
      BY <2>2, <3>1, <3>2
  <2>4. Booked(db)'
    BY <2>1, SweepTypes DEF Booked, AddsUp, RowsOf, BookedOff
  <2>5. TablesInv(pages)'
    BY <2>1, <2>2, <2>3, <2>4, SweepTypes DEF TablesInv, AllWritten, FriendsFollow, IsLastFriend
  <2> QED
    BY <1>1, <2>1, <2>5, CallKeeps
<1>3. ASSUME NEW u \in Savers, NEW a \in Moves, ApiDeposit(u, a) \/ ApiWithdraw(u, a) PROVE SyncInv(pages)'
  BY <1>1, <1>3, DepositKeeps, WithdrawKeeps, SyncConstants
<1>4. ASSUME NEW p \in Pairs, RequestFriend(p) PROVE SyncInv(pages)'
  <2>1. PICK status \in Statuses : status = "PENDING"
    BY DEF Statuses
  <2>2. db.friends[p] # "ACCEPTED" /\ db' = [db EXCEPT !.friends[p] = status] /\ UNCHANGED autoEarn
    BY <1>4, <2>1 DEF RequestFriend
  <2> QED
    BY <1>1, <2>2, FriendsChange
<1>5. ASSUME NEW p \in Pairs, NEW s \in {"ACCEPTED", "REJECTED"}, AnswerFriend(p, s) PROVE SyncInv(pages)'
  <2>1. s \in Statuses /\ db.friends[p] # "ACCEPTED" /\ db' = [db EXCEPT !.friends[p] = s] /\ UNCHANGED autoEarn
    BY <1>5 DEF AnswerFriend, Statuses
  <2> QED
    BY <1>1, <2>1, FriendsChange
<1> QED
  BY <1>2, <1>3, <1>4, <1>5 DEF Api

LEMMA RestartKeeps == ASSUME NEW pages, SyncInv(pages), Restart PROVE SyncInv(pages)'
<1>1. /\ faults < MaxFaults /\ faults' = faults + 1 /\ ix' = Idle(db.cursor) /\ sw' = NoSweep
      /\ UNCHANGED <<emitted, latest, staked, db, autoEarn, backoff, configured, api>>
  BY DEF Restart, Fault
<1>2. db.cursor \in Nat
  BY SweepTypes DEF Tables
<1>3. IndexerInv(pages)'
  BY <1>1, <1>2 DEF IndexerInv, Idle
<1>4. SweepInv'
  BY <1>1 DEF SweepInv, NoSweep
<1>5. faults' \in 0..MaxFaults
  BY <1>1, SyncConstants DEF SyncInv, CountersInv
<1>6. CountersInv'
  BY <1>1, <1>5 DEF SyncInv, CountersInv
<1> QED
  BY <1>1, <1>3, <1>4, <1>6, ChainRests, TablesRest DEF SyncInv

LEMMA ChainKeeps == ASSUME NEW pages, SyncInv(pages), OnChain PROVE SyncInv(pages)'
<1>1. UNCHANGED <<latest, db, ix, autoEarn, backoff, configured, sw, api, faults>>
  BY DEF OnChain
<1>2. ASSUME NEW k \in Kinds, NEW u \in People, NEW a \in Nat, Emit(Event(k, u, a)),
             k \in SaverKinds => u \in Savers, k = "withdraw" => staked[u] >= a
      PROVE  SyncInv(pages)'
  BY <1>1, <1>2, EmitKeeps, OthersRest DEF SyncInv
<1>3. ASSUME NEW u \in Savers, NEW a \in Moves, ChainDeposit(u, a) PROVE SyncInv(pages)'
  <2>1. PICK k \in Kinds : k = "deposit"
    BY DEF Kinds
  <2> QED
    BY <1>2, <1>3, <2>1, SyncConstants DEF ChainDeposit
<1>4. ASSUME NEW u \in Savers, NEW a \in Moves, ChainWithdraw(u, a) PROVE SyncInv(pages)'
  <2>1. PICK k \in Kinds : k = "withdraw"
    BY DEF Kinds
  <2> QED
    BY <1>2, <1>4, <2>1, SyncConstants DEF ChainWithdraw
<1>5. ASSUME ChainPayment PROVE SyncInv(pages)'
  <2>1. PICK k \in Kinds, a \in Nat : k = "payment" /\ a = 0
    BY DEF Kinds
  <2>2. PICK u : u = CHOOSE x \in People : TRUE
    OBVIOUS
  <2>3. u \in People
    BY <2>2, SyncConstants
  <2>4. Emit(Event(k, u, a))
    BY <1>5, <2>1, <2>2 DEF ChainPayment
  <2> QED
    BY <1>2, <2>1, <2>3, <2>4 DEF SaverKinds
<1>7. ASSUME ChainSalvage PROVE SyncInv(pages)'
  <2>1. PICK k \in Kinds, a \in Nat : k = "salvage" /\ a = 0
    BY DEF Kinds
  <2>2. PICK u : u = CHOOSE x \in People : TRUE
    OBVIOUS
  <2>3. u \in People
    BY <2>2, SyncConstants
  <2>4. Emit(Event(k, u, a))
    BY <1>7, <2>1, <2>2 DEF ChainSalvage
  <2> QED
    BY <1>2, <2>1, <2>3, <2>4 DEF SaverKinds
<1>8. ASSUME NEW u \in People, ChainRegister(u) PROVE SyncInv(pages)'
  <2>1. PICK k \in Kinds, a \in Nat : k = "register" /\ a = 0
    BY DEF Kinds
  <2>2. Emit(Event(k, u, a))
    BY <1>8, <2>1 DEF ChainRegister
  <2> QED
    BY <1>2, <2>1, <2>2 DEF SaverKinds
<1>6. ASSUME NEW u \in Savers, ChainFriend(u) PROVE SyncInv(pages)'
  <2>1. PICK k \in Kinds, a \in Nat : k = (IF Befriended THEN "remove" ELSE "add") /\ a = 0
    BY DEF Kinds
  <2>2. k # "withdraw"
    BY <2>1
  <2>3. Emit(Event(k, u, a))
    BY <1>6, <2>1 DEF ChainFriend
  <2> QED
    BY <1>2, <2>2, <2>3, SyncConstants
<1> QED
  BY <1>3, <1>4, <1>5, <1>6, <1>7, <1>8 DEF OnChain

LEMMA SyncStep ==
    ASSUME NEW pages, SyncInv(pages), pages = "whole" => PagesHold, [SyncNext]_syncVars
    PROVE  SyncInv(pages)'
<1>1. CASE SyncNext
  BY <1>1, ChainKeeps, CloseKeeps, PollKeeps, RollbackKeeps, CommitKeeps, SweepStartKeeps, BookKeeps, SweepEndKeeps,
     SubmitKeeps, SubmitFailKeeps, BackoffKeeps, ApiKeeps, RestartKeeps DEF SyncNext
<1>2. CASE UNCHANGED syncVars
  BY <1>2, ChainRests, TablesRest, IndexerRests, OthersRest DEF SyncInv, syncVars
<1> QED
  BY <1>1, <1>2

LEMMA BackendSide == ASSUME [Next]_vars PROVE [SyncNext]_syncVars
BY DEF Next, vars

LEMMA SyncHolds ==
    /\ Spec /\ []PagesHold => []SyncInv("whole")
    /\ Spec => []SyncInv("cut")
<1>1. Init => SyncInv("whole") /\ SyncInv("cut")
  BY SyncStarts DEF Init
<1>2. SyncInv("whole") /\ PagesHold /\ [Next]_vars => SyncInv("whole")'
  BY SyncStep, BackendSide
<1>3. SyncInv("cut") /\ [Next]_vars => SyncInv("cut")'
  <2>1. "cut" # "whole"
    OBVIOUS
  <2> QED
    BY <2>1, SyncStep, BackendSide
<1> QED
  BY <1>1, <1>2, <1>3, PTL DEF Spec

LEMMA TablesTyped == ASSUME NEW pages, SyncInv(pages) PROVE SyncTypeOK /\ LedgerAddsUp
<1> USE DEF SyncInv
<1>1. SyncTypeOK
  <2>1. /\ \A i \in 1..Len(emitted) : emitted[i].ledger \in 2..MaxLedger /\ emitted[i].hash = <<"tx", i>>
        /\ latest \in 1..MaxLedger /\ staked \in [Savers -> Nat]
    BY DEF ChainInv
  <2>2. /\ db.cursor \in Nat /\ db.friends \in [Pairs -> {"none", "PENDING", "ACCEPTED", "REJECTED"}]
        /\ db.available \in [Savers -> Nat] /\ db.earning \in [Savers -> Nat]
    BY SweepTypes DEF Tables, Statuses
  <2>3. ix.phase \in {"idle", "read"} /\ ix.cursor \in Nat
    BY DEF IndexerInv
  <2>4. sw.phase \in {"idle", "sweeping", "sent"} /\ sw.todo \subseteq Savers
    BY DEF SweepInv
  <2> QED
    BY <2>1, <2>2, <2>3, <2>4 DEF SyncTypeOK, CountersInv
<1>2. LedgerAddsUp
  BY SweepTypes DEF LedgerAddsUp, Booked
<1> QED
  BY <1>1, <1>2

LEMMA LedgerFollowed == ASSUME SyncInv("whole") PROVE LedgerFollowsChain
<1> USE DEF SyncInv
<1>1. SyncTypeOK /\ LedgerAddsUp
  BY TablesTyped
<1>2. ChainInv /\ TablesInv("whole")
  OBVIOUS
<1>3. NothingSkipped
  BY <1>2 DEF NothingSkipped, TablesInv, AllWritten, HasEvent, Cached, Clashes
<1>4. FriendsFollowChain
  <2> SUFFICES ASSUME Befriended, LastFriend.ledger < db.cursor PROVE db.friends[PairOf(LastFriend.user)] = "ACCEPTED"
    BY DEF FriendsFollowChain
  <2>1. FriendEvents \subseteq 1..Len(emitted) /\ FriendEvents # {} /\ Len(emitted) \in Nat
    BY ChainTypes DEF FriendEvents, Befriended
  <2>2. \E m \in FriendEvents : \A j \in FriendEvents : m >= j
    <3> DEFINE B == {Len(emitted) - i : i \in FriendEvents}
    <3>1. B \subseteq Nat /\ B # {}
      <4>1. PICK k \in FriendEvents : TRUE
        BY <2>1
      <4>2. Len(emitted) - k \in B
        OBVIOUS
      <4>3. ASSUME NEW x \in B PROVE x \in Nat
        <5>1. PICK i \in FriendEvents : x = Len(emitted) - i
          OBVIOUS
        <5>2. i \in 1..Len(emitted)
          BY <2>1
        <5> QED
          BY <2>1, <5>1, <5>2
      <4> QED
        BY <4>2, <4>3
    <3>2. PICK n \in B : \A x \in B : n <= x
      <4> HIDE DEF B
      <4> QED
        BY <3>1, Smallest
    <3>3. PICK m \in FriendEvents : n = Len(emitted) - m
      BY <3>2
    <3>4. ASSUME NEW j \in FriendEvents PROVE m >= j
      <4>1. Len(emitted) - j \in B
        OBVIOUS
      <4>2. n <= Len(emitted) - j
        BY <3>2, <4>1
      <4> QED
        BY <2>1, <3>3, <4>2
    <3> QED
      BY <3>4
  <2>3. PICK i : i = Max(FriendEvents)
    OBVIOUS
  <2>4. i \in FriendEvents /\ \A j \in FriendEvents : i >= j
    BY <2>2, <2>3 DEF Max
  <2>5. i \in 1..Len(emitted) /\ LastFriend = emitted[i] /\ emitted[i].kind = "add"
    BY <2>1, <2>3, <2>4 DEF LastFriend, Befriended
  <2>6. IsLastFriend(i)
    <3>1. ASSUME NEW k \in i + 1..Len(emitted), emitted[k].kind \in FriendKinds PROVE FALSE
      <4>1. k \in 1..Len(emitted) /\ ~(i >= k)
        BY <2>1, <2>5
      <4>2. k \in FriendEvents
        BY <3>1, <4>1 DEF FriendEvents, FriendKinds
      <4> QED
        BY <2>4, <4>1, <4>2
    <3> QED
      BY <2>5, <3>1 DEF IsLastFriend, FriendKinds
  <2> QED
    BY <1>2, <2>5, <2>6 DEF TablesInv, FriendsFollow
<1> QED
  BY <1>1, <1>3, <1>4 DEF LedgerFollowsChain

\* For every list of events, every set of savers and amounts, pages of any size
\* and any number of replays, rollbacks, lost answers, restarts, sweeps and calls
\* of the API: the balances are those the rows of yield_transactions explain
\* (process_event_batch_with_guard, run_auto_sweep and the yield endpoints).  A
\* page that was cut may lose events, but leaves no balance without its rows.
THEOREM BalancesAlwaysAddUp == Spec => [](SyncTypeOK /\ LedgerAddsUp)
<1>1. SyncInv("cut") => SyncTypeOK /\ LedgerAddsUp
  BY TablesTyped
<1> QED
  BY <1>1, SyncHolds, PTL

\* Beyond that, no event behind the cursor is missing and friends on chain are
\* friends in the feed (the friends endpoints and handle_friend_added).  Assumed
\* is what the node does not promise and the indexer does not look at: that one
\* page has all the events it was asked for.
THEOREM LedgerAlwaysFollows == Spec /\ []PagesHold => []LedgerFollowsChain
<1>1. SyncInv("whole") => LedgerFollowsChain
  BY LedgerFollowed
<1> QED
  BY <1>1, SyncHolds, PTL
=============================================================================
