----------------------------- MODULE NairaToken -----------------------------
(***************************************************************************)
(* The naira_token contract: balances, allowances, a blacklist, a pause    *)
(* switch and a running total supply.  One action per entry point; a call  *)
(* that panics reverts and is a stuttering step.  Abstracted: name, symbol *)
(* and decimals, which never change after initialize.                      *)
(***************************************************************************)
EXTENDS Integers, FiniteSets, Functions

CONSTANTS
    Accounts,   \* addresses
    None,       \* no address
    Amounts,    \* positive amounts a call may name
    MaxSupply   \* bound on minting

\* An address is 32 bytes, so there are finitely many.
ASSUME TokenAssumption ==
    /\ IsFiniteSet(Accounts)
    /\ None \notin Accounts
    /\ Amounts \subseteq Nat \ {0}
    /\ MaxSupply \in Nat

VARIABLES
    admin,      \* ADMIN_KEY
    paused,     \* PAUSED_KEY
    supply,     \* TOTAL_SUPPLY_KEY
    bal,        \* DataKey::Balance
    allowance,  \* DataKey::Allowance(from, spender)
    blacklist,  \* DataKey::Blacklisted
    signer      \* history: who authorised the last call that moved tokens

tokenVars == <<admin, paused, supply, bal, allowance, blacklist, signer>>

TokenInit ==
    /\ admin = None
    /\ paused = FALSE
    /\ supply = 0
    /\ bal = [a \in Accounts |-> 0]
    /\ allowance = [p \in Accounts \X Accounts |-> 0]
    /\ blacklist = {}
    /\ signer = None

-----------------------------------------------------------------------------
(***************************************************************************)
(* Administration: require_admin.                                          *)
(***************************************************************************)
Initialize(a) ==
    /\ admin = None
    /\ admin' = a
    /\ UNCHANGED <<paused, supply, bal, allowance, blacklist, signer>>

SetPaused(p) ==
    /\ admin # None
    /\ paused' = p
    /\ UNCHANGED <<admin, supply, bal, allowance, blacklist, signer>>

Blacklist(a) ==
    /\ admin # None
    /\ blacklist' = blacklist \cup {a}
    /\ UNCHANGED <<admin, paused, supply, bal, allowance, signer>>

Unblacklist(a) ==
    /\ admin # None
    /\ blacklist' = blacklist \ {a}
    /\ UNCHANGED <<admin, paused, supply, bal, allowance, signer>>

TransferAdmin(a) ==
    /\ admin # None
    /\ admin' = a
    /\ UNCHANGED <<paused, supply, bal, allowance, blacklist, signer>>

-----------------------------------------------------------------------------
(***************************************************************************)
(* Moving tokens.                                                          *)
(***************************************************************************)

\* mutant: the blacklist is forgotten
MayLeaveAnyway(from, amount) == ~paused /\ bal[from] >= amount

\* Tokens may leave the account: not paused, not blacklisted, enough of them.
MayLeave(from, amount) == ~paused /\ from \notin blacklist /\ bal[from] >= amount

\* mutant: the recipient's balance is read before the sender's is written
AfterTransferStale(from, to, amount) ==
    [a \in Accounts |-> IF a = to THEN bal[to] + amount
                        ELSE IF a = from THEN bal[from] - amount ELSE bal[a]]

\* The sender's balance is written first and the recipient's read after it, so
\* a transfer to oneself changes nothing.
AfterTransfer(from, to, amount) ==
    [a \in Accounts |-> bal[a] - (IF a = from THEN amount ELSE 0)
                               + (IF a = to THEN amount ELSE 0)]

\* mutant: the allowance is checked and not charged
NotSpent(from, spender, amount) == allowance

\* The allowance is charged in full.
Spent(from, spender, amount) == [allowance EXCEPT ![<<from, spender>>] = @ - amount]

\* from allowed spender to take at least this much.
Granted(from, spender, amount) == allowance[<<from, spender>>] >= amount

\* mutant: minting works while paused
MayMintPaused(amount) == admin # None /\ supply + amount <= MaxSupply

\* require_not_paused and require_admin; MaxSupply is the model's bound.
MayMint(amount) == admin # None /\ ~paused /\ supply + amount <= MaxSupply

\* mint does not look at the blacklist: a blacklisted account may receive.
Mint(to, amount) ==
    /\ MayMint(amount)
    /\ bal' = [bal EXCEPT ![to] = @ + amount]
    /\ supply' = supply + amount
    /\ signer' = admin
    /\ UNCHANGED <<admin, paused, allowance, blacklist>>

\* burn: the admin takes tokens from any account that is not blacklisted.
Burn(from, amount) ==
    /\ admin # None
    /\ MayLeave(from, amount)
    /\ bal' = [bal EXCEPT ![from] = @ - amount]
    /\ supply >= amount
    /\ supply' = supply - amount
    /\ signer' = admin
    /\ UNCHANGED <<admin, paused, allowance, blacklist>>

\* transfer, signed by its sender.
Transfer(from, to, amount) ==
    /\ MayLeave(from, amount)
    /\ bal' = AfterTransfer(from, to, amount)
    /\ signer' = from
    /\ UNCHANGED <<admin, paused, supply, allowance, blacklist>>

\* approve overwrites what was left of an earlier approval, paused or not.
Approve(from, spender, amount) ==
    /\ allowance' = [allowance EXCEPT ![<<from, spender>>] = amount]
    /\ UNCHANGED <<admin, paused, supply, bal, blacklist, signer>>

TransferFrom(spender, from, to, amount) ==
    /\ MayLeave(from, amount)
    /\ Granted(from, spender, amount)
    /\ allowance' = Spent(from, spender, amount)
    /\ bal' = AfterTransfer(from, to, amount)
    /\ signer' = spender
    /\ UNCHANGED <<admin, paused, supply, blacklist>>

BurnFrom(spender, from, amount) ==
    /\ MayLeave(from, amount)
    /\ Granted(from, spender, amount)
    /\ allowance' = Spent(from, spender, amount)
    /\ bal' = [bal EXCEPT ![from] = @ - amount]
    /\ supply >= amount
    /\ supply' = supply - amount
    /\ signer' = spender
    /\ UNCHANGED <<admin, paused, blacklist>>

-----------------------------------------------------------------------------
AdminStep ==
    \/ \E a \in Accounts : Initialize(a) \/ Blacklist(a) \/ Unblacklist(a) \/ TransferAdmin(a)
    \/ \E p \in BOOLEAN : SetPaused(p)

\* Calls of account a, where b is a holder too.
HolderStep(a, holders) ==
    \E b \in holders :
        \/ \E m \in Amounts \cup {0} : Approve(a, b, m)
        \/ \E m \in Amounts : BurnFrom(a, b, m)
        \/ \E m \in Amounts, to \in Accounts : Transfer(a, to, m) \/ TransferFrom(a, b, to, m)

SupplyStep == \E a \in Accounts, m \in Amounts : Mint(a, m) \/ Burn(a, m)
=============================================================================
