----------------------------- MODULE YieldVault -----------------------------
(***************************************************************************)
(* The yield_vault contract: deposits priced by a yield index, exits       *)
(* priced by the pool, an exit fee, a cap per user, a pause for deposits   *)
(* and a rate that changes only through a queue with a time lock.  Built   *)
(* without the mock-protocol feature, as deployed: the external protocol's *)
(* supply, redeem and claim_rewards do nothing.  A call that panics is     *)
(* rolled back whole, so the calls below are guarded by every assertion.   *)
(***************************************************************************)
EXTENDS Integers, FiniteSetsExt

CONSTANTS
    Depositors,      \* who may hold shares
    Purse,           \* what each of them holds of the vault's token at first
    Amounts,         \* what is deposited in one call
    Rates,           \* rates the owner queues, in basis points
    UserCaps,        \* caps per user the owner sets; 0 is no cap
    ExitFees,        \* exit fees the owner sets, in basis points
    Treasuries,      \* where exit fees may go; the owner is one of them
    Owner,
    VIRTUAL_OFFSET, PRECISION,
    RateScale,       \* 10_000 basis points times LEDGERS_PER_YEAR
    FeeScale,        \* 10_000 basis points
    MAX_APY_CAP_BPS, MAX_EXIT_FEE_BPS, DEFAULT_EXIT_FEE_BPS,
    APY_TIMELOCK,    \* APY_TIMELOCK_SECS, in ledgers
    NoRate,          \* no rate is queued
    MaxSequence,     \* bound: the last ledger explored
    MaxSettings      \* bound: calls that change a setting or salvage a token

\* An address is 32 bytes, so there are finitely many depositors.
ASSUME VaultConstants ==
    /\ IsFiniteSet(Depositors) /\ "vault" \notin Depositors \cup Treasuries
    /\ Purse \in Nat /\ Amounts \subseteq Nat \ {0}
    /\ Rates \subseteq Nat /\ UserCaps \subseteq Nat /\ ExitFees \subseteq Nat
    /\ Owner \in Treasuries /\ Treasuries \cap Depositors = {}
    /\ VIRTUAL_OFFSET \in Nat \ {0} /\ PRECISION \in Nat \ {0}
    /\ RateScale \in Nat \ {0} /\ FeeScale \in Nat \ {0}
    /\ MAX_APY_CAP_BPS \in Nat /\ NoRate \notin Nat
    /\ MAX_EXIT_FEE_BPS \in 0..FeeScale /\ DEFAULT_EXIT_FEE_BPS \in 0..MAX_EXIT_FEE_BPS
    /\ APY_TIMELOCK \in Nat /\ MaxSequence \in Nat /\ MaxSettings \in Nat

VARIABLES
    pool,        \* instance storage: totals, index and what the owner set
    sharesOf,    \* DataKey::UserShares
    depositOf,   \* DataKey::UserDeposit
    tokens,      \* balances of the vault's token
    stray,       \* balance of some other token sent to the vault by mistake
    sequence,    \* the ledger
    announcedAt, \* when the queued rate was queued (history)
    settings     \* calls counted against MaxSettings

vaultVars == <<pool, sharesOf, depositOf, tokens, stray, sequence, announcedAt, settings>>

Vault == "vault"
Holders == Depositors \cup Treasuries \cup {Vault}

VaultInit ==
    /\ \E rate \in {r \in Rates : r <= MAX_APY_CAP_BPS} :
       pool = [shares |-> 0, assets |-> 0, index |-> PRECISION, indexAt |-> 0,
               apy |-> rate, maxApy |-> MAX_APY_CAP_BPS, proposed |-> NoRate, activation |-> 0,
               paused |-> FALSE, cap |-> 0, exitFee |-> DEFAULT_EXIT_FEE_BPS, treasury |-> Owner]
    /\ sharesOf = [u \in Depositors |-> 0]
    /\ depositOf = [u \in Depositors |-> 0]
    /\ tokens = [h \in Holders |-> IF h \in Depositors THEN Purse ELSE 0]
    /\ stray = 1 /\ sequence = 0 /\ announcedAt = 0 /\ settings = 0

-----------------------------------------------------------------------------
(* Prices. *)

\* current_index: the stored index, grown at the rate in force since it was stored.
CurrentIndex ==
    pool.index + (pool.index * pool.apy * (sequence - pool.indexAt)) \div RateScale

\* mutant: the index is not checkpointed.
NotCheckpointed == pool
\* checkpoint_index: what every call that moves money writes first.
Checkpointed == [pool EXCEPT !.index = CurrentIndex, !.indexAt = sequence]

\* mutant: shares are rounded up.
CeilShares(amount) ==
    LET priced == pool.assets + (VIRTUAL_OFFSET * CurrentIndex) \div PRECISION
    IN  (amount * (pool.shares + VIRTUAL_OFFSET) + priced - 1) \div priced
\* Shares for a deposit: the virtual assets are scaled by the index.
SharesFor(amount) ==
    (amount * (pool.shares + VIRTUAL_OFFSET))
        \div (pool.assets + (VIRTUAL_OFFSET * CurrentIndex) \div PRECISION)

\* mutant: the virtual assets are scaled on the way out too.
IndexedAssets(shares) ==
    (shares * (pool.assets + (VIRTUAL_OFFSET * CurrentIndex) \div PRECISION))
        \div (pool.shares + VIRTUAL_OFFSET)
\* Assets for shares: the virtual assets are not.
AssetsFor(shares) ==
    (shares * (pool.assets + VIRTUAL_OFFSET)) \div (pool.shares + VIRTUAL_OFFSET)

Transferred(from, to, amount) ==
    [tokens EXCEPT ![from] = @ - amount, ![to] = @ + amount]

-----------------------------------------------------------------------------
(* What users call. *)

Deposit(u, amount, minSharesOut) ==
    LET shares == SharesFor(amount)
    IN  /\ ~pool.paused
        /\ pool.cap > 0 => depositOf[u] + amount <= pool.cap
        /\ tokens[u] >= amount
        /\ shares > 0 /\ shares >= minSharesOut
        /\ tokens' = Transferred(u, Vault, amount)
        /\ sharesOf' = [sharesOf EXCEPT ![u] = @ + shares]
        /\ depositOf' = [depositOf EXCEPT ![u] = @ + amount]
        /\ pool' = [Checkpointed EXCEPT !.shares = @ + shares, !.assets = @ + amount]
        /\ UNCHANGED <<stray, sequence, announcedAt, settings>>

\* mutant: an exit leaves the shares in the total.
SharesStay(shares, assets) == [Checkpointed EXCEPT !.assets = Max({0, @ - assets})]
\* The totals after an exit; both are clamped at zero.
PoolLess(shares, assets) ==
    [Checkpointed EXCEPT !.shares = Max({0, @ - shares}), !.assets = Max({0, @ - assets})]

\* The part of the principal that goes with the shares, rounded down.
DepositReduced(u, shares) ==
    [depositOf EXCEPT ![u] = @ - (@ * shares) \div sharesOf[u]]

Withdraw(u, shares) ==
    LET assets == AssetsFor(shares)
        fee == (assets * pool.exitFee) \div FeeScale
    IN  /\ shares \in 1..sharesOf[u]
        /\ assets \in 1..tokens[Vault]
        /\ tokens' = [tokens EXCEPT ![Vault] = @ - assets, ![u] = @ + assets - fee,
                                    ![pool.treasury] = @ + fee]
        /\ sharesOf' = [sharesOf EXCEPT ![u] = @ - shares]
        /\ depositOf' = DepositReduced(u, shares)
        /\ pool' = PoolLess(shares, assets)
        /\ UNCHANGED <<stray, sequence, announcedAt, settings>>

\* mutant: an exit leaves the principal.
PrincipalKept(u) == depositOf
PrincipalCleared(u) == [depositOf EXCEPT ![u] = 0]

\* emergency_exit: all of it, without a fee, also while deposits are paused.
EmergencyExit(u) ==
    LET assets == AssetsFor(sharesOf[u])
    IN  /\ sharesOf[u] > 0
        /\ assets \in 1..tokens[Vault]
        /\ tokens' = Transferred(Vault, u, assets)
        /\ sharesOf' = [sharesOf EXCEPT ![u] = 0]
        /\ depositOf' = PrincipalCleared(u)
        /\ pool' = PoolLess(sharesOf[u], assets)
        /\ UNCHANGED <<stray, sequence, announcedAt, settings>>

-----------------------------------------------------------------------------
(* What the owner calls. *)

\* emergency_withdraw: some of a user's shares are paid out to that user.
EmergencyWithdraw(u, shares) ==
    LET assets == AssetsFor(shares)
    IN  /\ shares \in 1..sharesOf[u]
        /\ assets \in 1..tokens[Vault]
        /\ tokens' = Transferred(Vault, u, assets)
        /\ sharesOf' = [sharesOf EXCEPT ![u] = @ - shares]
        /\ depositOf' = DepositReduced(u, shares)
        /\ pool' = PoolLess(shares, assets)
        /\ UNCHANGED <<stray, sequence, announcedAt, settings>>

Rate(next) ==
    pool' = next /\ UNCHANGED <<sharesOf, depositOf, tokens, stray, sequence, settings>>
Setting(next) ==
    /\ settings < MaxSettings
    /\ settings' = settings + 1
    /\ pool' = next
    /\ UNCHANGED <<sharesOf, depositOf, tokens, stray, sequence, announcedAt>>

\* mutant: a second proposal inherits the first one's delay.
FirstActivation == IF pool.proposed = NoRate THEN sequence + APY_TIMELOCK ELSE pool.activation
Activation == sequence + APY_TIMELOCK

UpdateApy(rate) ==
    /\ rate <= MAX_APY_CAP_BPS /\ rate <= pool.maxApy
    /\ Rate([pool EXCEPT !.proposed = rate, !.activation = Activation])
    /\ announcedAt' = sequence

CancelApy ==
    /\ pool.proposed # NoRate
    /\ Rate([pool EXCEPT !.proposed = NoRate, !.activation = 0])
    /\ UNCHANGED announcedAt

ApplyApy ==
    /\ pool.proposed # NoRate
    /\ sequence >= pool.activation
    /\ pool.proposed <= pool.maxApy
    /\ Rate([Checkpointed EXCEPT !.apy = pool.proposed, !.proposed = NoRate, !.activation = 0])
    /\ UNCHANGED announcedAt

\* set_paused, pause and unpause; set_max_user_cap and set_user_cap.
SetPaused(b) == Setting([pool EXCEPT !.paused = b])
SetMaxUserCap(c) == Setting([pool EXCEPT !.cap = c])
SetMaxApy(r) == r <= MAX_APY_CAP_BPS /\ Setting([pool EXCEPT !.maxApy = r])
SetTreasury(t) == Setting([pool EXCEPT !.treasury = t])
SetExitFeeBps(f) == f <= MAX_EXIT_FEE_BPS /\ Setting([pool EXCEPT !.exitFee = f])

\* accrue_yield: there are no rewards to claim without the mock protocol.
AccrueYield == Rate(Checkpointed) /\ UNCHANGED announcedAt

\* salvage_token: never the vault's own token.
SalvageToken ==
    /\ stray > 0 /\ settings < MaxSettings
    /\ stray' = 0 /\ settings' = settings + 1
    /\ UNCHANGED <<pool, sharesOf, depositOf, tokens, sequence, announcedAt>>

CloseVaultLedger ==
    /\ sequence < MaxSequence
    /\ sequence' = sequence + 1
    /\ UNCHANGED <<pool, sharesOf, depositOf, tokens, stray, announcedAt, settings>>

VaultNext ==
    \/ \E u \in Depositors :
        \/ \E a \in Amounts : \E least \in {0, a} : Deposit(u, a, least)
        \/ \E s \in 1..sharesOf[u] : Withdraw(u, s) \/ EmergencyWithdraw(u, s)
        \/ EmergencyExit(u)
    \/ \E r \in Rates : UpdateApy(r) \/ SetMaxApy(r)
    \/ CancelApy \/ ApplyApy \/ AccrueYield \/ SalvageToken \/ CloseVaultLedger
    \/ \E b \in BOOLEAN : SetPaused(b)
    \/ \E c \in UserCaps : SetMaxUserCap(c)
    \/ \E f \in ExitFees : SetExitFeeBps(f)
    \/ \E t \in Treasuries : SetTreasury(t)

-----------------------------------------------------------------------------
VaultTypeOK ==
    /\ pool \in [shares : Nat, assets : Nat, index : Nat, indexAt : 0..sequence, apy : Nat,
                 maxApy : 0..MAX_APY_CAP_BPS, proposed : Nat \cup {NoRate}, activation : Nat,
                 paused : BOOLEAN, cap : Nat, exitFee : 0..MAX_EXIT_FEE_BPS, treasury : Treasuries]
    /\ sharesOf \in [Depositors -> Nat] /\ depositOf \in [Depositors -> Nat]
    /\ tokens \in [Holders -> Nat]
    /\ stray \in 0..1 /\ sequence \in 0..MaxSequence /\ announcedAt \in 0..sequence
    /\ settings \in 0..MaxSettings

\* The shares outstanding are those the users hold: no exit, partial or
\* clamped, leaves shares that nobody owns or dilutes the others.
SharesAddUp == pool.shares = MapThenSumSet(LAMBDA u : sharesOf[u], Depositors)

\* The assets the prices are computed from are in the vault, a share is worth
\* at least one of them, and every holder can be paid whatever the others did,
\* although deposits are priced with the index and exits without it.
VaultIsSolvent ==
    /\ pool.assets = tokens[Vault] /\ pool.shares <= pool.assets
    /\ \A u \in Depositors :
        sharesOf[u] > 0 => AssetsFor(sharesOf[u]) \in 1..tokens[Vault]

\* A deposit that is taken out again at once returns no more than was put in,
\* in any state of the pool: rounding never pays the caller.
RoundTripPays(amount) ==
    LET shares == SharesFor(amount)
    IN  (shares * (pool.assets + amount + VIRTUAL_OFFSET)) \div (pool.shares + shares + VIRTUAL_OFFSET)
RoundTripLoses == \A a \in Amounts : RoundTripPays(a) <= a

\* Principal that counts against the cap belongs to shares still held: whoever
\* has left, by whichever of the three exits, may deposit up to the cap again.
PrincipalHasShares == \A u \in Depositors : sharesOf[u] = 0 <=> depositOf[u] = 0

\* No call changes the index of the ledger it runs in, so a new rate is never
\* applied to the time before it and no order of calls in a ledger pays more.
IndexIsContinuous == [][sequence' = sequence => CurrentIndex' = CurrentIndex]_vaultVars

\* A rate takes effect a full time lock after the owner last queued one: a
\* proposal that replaces another does not inherit the time it has waited.
RateWasAnnounced ==
    [][pool'.apy # pool.apy => sequence >= announcedAt + APY_TIMELOCK]_vaultVars
=============================================================================
