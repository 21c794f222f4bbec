---------------------------- MODULE UserRegistry ----------------------------
(***************************************************************************)
(* The user_registry contract: usernames with a reservation fee held in    *)
(* escrow, Privy identities (DIDs) linked to wallets, and the admin.  One  *)
(* action per entry point; a call that panics reverts and is a stuttering  *)
(* step, so guards are the conditions under which the call succeeds.       *)
(*                                                                         *)
(* Abstracted: the characters of usernames and DIDs (every member of Names *)
(* and Dids is a valid one), avatars, TTL extensions, the Ed25519 check    *)
(* (LinkDid stands for a call with a valid attestation) and upgrade.       *)
(* Token contracts are external: only the registry's own balances are      *)
(* kept, and a transfer out of the registry needs the balance.             *)
(***************************************************************************)
EXTENDS Naturals, FiniteSets, Functions, TLC

CONSTANTS
    Accounts,   \* addresses: users, wallets and admins
    Names,      \* valid usernames
    Dids,       \* valid Privy DIDs
    Tokens,     \* token contracts
    Amounts,    \* reservation amounts an admin may configure
    None,       \* no entry under a storage key
    MaxRegs     \* bound: registrations

\* An address is 32 bytes, so there are finitely many.
ASSUME RegistryAssumption ==
    /\ IsFiniteSet(Accounts)
    /\ None \notin Accounts \cup Names \cup Dids \cup Tokens
    /\ Amounts \subseteq Nat
    /\ MaxRegs \in Nat

VARIABLES
    admin,         \* DataKey::Admin
    pendingAdmin,  \* DataKey::PendingAdmin
    verifier,      \* DataKey::PrivyVerifierKey is set
    feeToken,      \* DataKey::ReservationToken
    feeAmount,     \* DataKey::ReservationAmount
    byAddress,     \* AddressToUsernameKey -> username
    byName,        \* UsernameToAddressKey -> address
    user,          \* DataKey::User -> username
    username,      \* DataKey::Username -> address
    deposit,       \* DataKey::UserDeposit (a missing entry reads as 0)
    didWallet,     \* DataKey::PrivyDid -> wallet
    walletDid,     \* DataKey::WalletDid -> DID
    escrow,        \* the registry's balance of each token
    paid,          \* history: reservation fees each user paid
    refunded,      \* history: reservation fees paid back to each user
    disturbed,     \* history: an admin drained a token or switched the fee token
    regs           \* registrations so far

adminVars == <<admin, pendingAdmin, verifier>>
feeVars == <<feeToken, feeAmount>>
nameVars == <<byAddress, byName, user, username>>
didVars == <<didWallet, walletDid>>
moneyVars == <<deposit, escrow, paid, refunded>>
vars == <<adminVars, feeVars, nameVars, didVars, moneyVars, disturbed, regs>>

Init ==
    /\ admin = None /\ pendingAdmin = None /\ verifier = FALSE
    /\ feeToken = None /\ feeAmount = 0
    /\ byAddress = [a \in Accounts |-> None]
    /\ byName = [n \in Names |-> None]
    /\ user = [a \in Accounts |-> None]
    /\ username = [n \in Names |-> None]
    /\ deposit = [a \in Accounts |-> 0]
    /\ didWallet = [d \in Dids |-> None]
    /\ walletDid = [a \in Accounts |-> None]
    /\ escrow = [t \in Tokens |-> 0]
    /\ paid = [a \in Accounts |-> 0]
    /\ refunded = [a \in Accounts |-> 0]
    /\ disturbed = FALSE
    /\ regs = 0

-----------------------------------------------------------------------------
(***************************************************************************)
(* Administration.                                                         *)
(***************************************************************************)
Initialize(a) ==
    /\ admin = None
    /\ admin' = a
    /\ UNCHANGED <<pendingAdmin, verifier, feeVars, nameVars, didVars, moneyVars, disturbed, regs>>

\* Open deposits stay as they are; they are paid back in the token of the day.
SetReservationConfig(t, amount) ==
    /\ admin # None
    /\ feeToken' = t
    /\ feeAmount' = amount
    /\ disturbed' = (disturbed \/ feeToken \notin {None, t})
    /\ UNCHANGED <<adminVars, nameVars, didVars, moneyVars, regs>>

ProposeNewAdmin(a) ==
    /\ admin # None
    /\ pendingAdmin' = a
    /\ UNCHANGED <<admin, verifier, feeVars, nameVars, didVars, moneyVars, disturbed, regs>>

\* The proposed address itself takes over.
ClaimAdmin ==
    /\ pendingAdmin # None
    /\ admin' = pendingAdmin
    /\ pendingAdmin' = None
    /\ UNCHANGED <<verifier, feeVars, nameVars, didVars, moneyVars, disturbed, regs>>

SetPrivyVerifier ==
    /\ admin # None
    /\ verifier' = TRUE
    /\ UNCHANGED <<admin, pendingAdmin, feeVars, nameVars, didVars, moneyVars, disturbed, regs>>

\* rescue_token sends the whole balance away, open deposits included.
RescueToken(t) ==
    /\ admin # None
    /\ escrow[t] > 0
    /\ escrow' = [escrow EXCEPT ![t] = 0]
    /\ disturbed' = TRUE
    /\ UNCHANGED <<adminVars, feeVars, nameVars, didVars, deposit, paid, refunded, regs>>

-----------------------------------------------------------------------------
(***************************************************************************)
(* Usernames and the reservation fee.                                      *)
(***************************************************************************)

\* Neither the username nor the address is taken.
IsFree(u, n) == byName[n] = None /\ byAddress[u] = None

RegisterUser(u, n) ==
    /\ regs < MaxRegs
    /\ IsFree(u, n)
    /\ feeToken # None
    /\ byAddress' = [byAddress EXCEPT ![u] = n]
    /\ byName' = [byName EXCEPT ![n] = u]
    /\ user' = [user EXCEPT ![u] = n]
    /\ username' = [username EXCEPT ![n] = u]
    /\ escrow' = [escrow EXCEPT ![feeToken] = @ + feeAmount]
    /\ deposit' = [deposit EXCEPT ![u] = feeAmount]
    /\ paid' = [paid EXCEPT ![u] = @ + feeAmount]
    /\ regs' = regs + 1
    /\ UNCHANGED <<adminVars, feeVars, didVars, refunded, disturbed>>

\* mutant: the deposit entry survives the refund
DepositKept(u) == deposit

\* The entry is removed once it is paid back.
DepositCleared(u) == [deposit EXCEPT ![u] = 0]

\* mutant: the fee of today is paid back
RefundOfToday(u) == feeAmount

\* What was deposited is paid back, whatever the fee is now.
RefundAmount(u) == deposit[u]

\* A transfer out of the registry panics without the balance.
CanPay(t, amount) == escrow[t] >= amount

\* A deposit goes back in the token configured now.
Refund(u) ==
    \/ deposit[u] = 0 /\ UNCHANGED moneyVars
    \/ /\ deposit[u] > 0
       /\ feeToken # None
       /\ CanPay(feeToken, RefundAmount(u))
       /\ escrow' = [escrow EXCEPT ![feeToken] = @ - RefundAmount(u)]
       /\ refunded' = [refunded EXCEPT ![u] = @ + RefundAmount(u)]
       /\ deposit' = DepositCleared(u)
       /\ UNCHANGED paid

\* The profile need not be registered.
UpdateProfile(u) ==
    /\ Refund(u)
    /\ UNCHANGED <<adminVars, feeVars, nameVars, didVars, disturbed, regs>>

\* mutant: the composite keys are left behind (the defect of issue #962)
ForgetEnumKeys(u, n) ==
    /\ user' = [user EXCEPT ![u] = None]
    /\ username' = [username EXCEPT ![n] = None]
    /\ UNCHANGED <<byAddress, byName>>

\* Both pairs of keys are removed.
ForgetName(u, n) ==
    /\ byAddress' = [byAddress EXCEPT ![u] = None]
    /\ byName' = [byName EXCEPT ![n] = None]
    /\ user' = [user EXCEPT ![u] = None]
    /\ username' = [username EXCEPT ![n] = None]

\* delete_profile finds the username under DataKey::User and leaves the
\* deposit where it is.
DeleteProfile(u) ==
    /\ user[u] # None
    /\ ForgetName(u, user[u])
    /\ UNCHANGED <<adminVars, feeVars, didVars, moneyVars, disturbed, regs>>

\* unregister_user finds it under AddressToUsernameKey and pays the deposit back.
UnregisterUser(u) ==
    /\ byAddress[u] # None
    /\ ForgetName(u, byAddress[u])
    /\ Refund(u)
    /\ UNCHANGED <<adminVars, feeVars, didVars, disturbed, regs>>

-----------------------------------------------------------------------------
(***************************************************************************)
(* Privy identities.                                                       *)
(***************************************************************************)

\* The wallet has no link, or the link to this very DID.
MayHold(w, d) == walletDid[w] \in {None, d}

RegisterPrivyDid(d, w) ==
    /\ verifier
    /\ didWallet[d] = None
    /\ walletDid[w] = None
    /\ didWallet' = [didWallet EXCEPT ![d] = w]
    /\ walletDid' = [walletDid EXCEPT ![w] = d]
    /\ UNCHANGED <<adminVars, feeVars, nameVars, moneyVars, disturbed, regs>>

UnlinkPrivyDid(d) ==
    /\ didWallet[d] # None
    /\ didWallet' = [didWallet EXCEPT ![d] = None]
    /\ walletDid' = [walletDid EXCEPT ![didWallet[d]] = None]
    /\ UNCHANGED <<adminVars, feeVars, nameVars, moneyVars, disturbed, regs>>

\* mutant: the old wallet's reverse entry is left behind
WalletsAfterMoveOnly(d, new) == [walletDid EXCEPT ![new] = d]

\* The old wallet's reverse entry goes first, then the new one is written.
WalletsAfterMove(d, new) ==
    [w \in Accounts |-> IF w = new THEN d
                        ELSE IF w = didWallet[d] THEN None ELSE walletDid[w]]

\* The wallet registered now signs the move.
UpdatePrivyDid(d, new) ==
    /\ didWallet[d] # None
    /\ MayHold(new, d)
    /\ didWallet' = [didWallet EXCEPT ![d] = new]
    /\ walletDid' = WalletsAfterMove(d, new)
    /\ UNCHANGED <<adminVars, feeVars, nameVars, moneyVars, disturbed, regs>>

\* The admin signs instead; the DID may be unknown so far.
RecoverPrivyDid(d, new) ==
    /\ admin # None
    /\ MayHold(new, d)
    /\ didWallet' = [didWallet EXCEPT ![d] = new]
    /\ walletDid' = WalletsAfterMove(d, new)
    /\ UNCHANGED <<adminVars, feeVars, nameVars, moneyVars, disturbed, regs>>

-----------------------------------------------------------------------------
Next ==
    \/ \E a \in Accounts : Initialize(a) \/ ProposeNewAdmin(a)
    \/ ClaimAdmin \/ SetPrivyVerifier
    \/ \E t \in Tokens : RescueToken(t) \/ \E m \in Amounts : SetReservationConfig(t, m)
    \/ \E u \in Accounts : \/ UpdateProfile(u) \/ DeleteProfile(u) \/ UnregisterUser(u)
                           \/ \E n \in Names : RegisterUser(u, n)
    \/ \E d \in Dids : \/ UnlinkPrivyDid(d)
                       \/ \E w \in Accounts : \/ RegisterPrivyDid(d, w)
                                              \/ UpdatePrivyDid(d, w)
                                              \/ RecoverPrivyDid(d, w)

Spec == Init /\ [][Next]_vars

-----------------------------------------------------------------------------
\* Every storage key holds what the contract stores under it.
TypeOK ==
    /\ admin \in Accounts \cup {None} /\ pendingAdmin \in Accounts \cup {None}
    /\ verifier \in BOOLEAN
    /\ feeToken \in Tokens \cup {None} /\ feeAmount \in Nat
    /\ byAddress \in [Accounts -> Names \cup {None}]
    /\ byName \in [Names -> Accounts \cup {None}]
    /\ user \in [Accounts -> Names \cup {None}]
    /\ username \in [Names -> Accounts \cup {None}]
    /\ deposit \in [Accounts -> Nat]
    /\ didWallet \in [Dids -> Accounts \cup {None}]
    /\ walletDid \in [Accounts -> Dids \cup {None}]
    /\ escrow \in [Tokens -> Nat]
    /\ paid \in [Accounts -> Nat] /\ refunded \in [Accounts -> Nat]
    /\ disturbed \in BOOLEAN
    /\ regs \in 0..MaxRegs

\* The username lookup and the address lookup are inverse to each other after
\* any sequence of registrations, deletions and unregistrations, and the two
\* copies of them (struct keys and enum keys) never diverge, so a payment by
\* username reaches the account that shows this username.
NamesAgree ==
    /\ \A u \in Accounts, n \in Names : byAddress[u] = n <=> byName[n] = u
    /\ user = byAddress /\ username = byName

\* The DID index and its reverse are inverse to each other through links,
\* rotations by the owner, recoveries by the admin and unlinking: no wallet
\* answers to two DIDs and no DID points at a wallet that denies it.
DidsAgree ==
    \A d \in Dids, w \in Accounts : didWallet[d] = w <=> walletDid[w] = d

\* Nobody gets more back than he paid, whichever of update_profile,
\* delete_profile, unregister_user and a new registration he combines.
RefundedAtMostPaid ==
    \A u \in Accounts : refunded[u] + deposit[u] <= paid[u]

\* Unless an admin drained the fee token or switched to another one, the
\* escrow covers every open deposit, so each refund succeeds.
EscrowCoversDeposits ==
    ~disturbed /\ feeToken # None =>
        escrow[feeToken] >= FoldFunction(LAMBDA x, y : x + y, 0, deposit)

\* register_user's comment: the fee is "tracked per-user under
\* DataKey::UserDeposit".  What a user paid and did not get back is what his
\* entry says.
FeesAreTracked == \A u \in Accounts : deposit[u] = paid[u] - refunded[u]

\* Nothing depends on which account, name, did or token it is.
Symmetry == Permutations(Accounts) \cup Permutations(Names) \cup Permutations(Dids)
                \cup Permutations(Tokens)
=============================================================================
