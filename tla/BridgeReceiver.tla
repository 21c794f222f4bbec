--------------------------- MODULE BridgeReceiver ---------------------------
(***************************************************************************)
(* The allbridge_receiver contract on top of naira_token: the relayer      *)
(* announces deposits made on another chain and the receiver pays them out *)
(* of its own balance of the bridge token.  The relayer's messages may be  *)
(* repeated, reordered and renumbered.  Calls are atomic: when the token   *)
(* transfer panics, the replay marks are reverted with it.                 *)
(*                                                                         *)
(* Abstracted: the packed payload of receive_message (a payload that       *)
(* decodes is the deposit it encodes) and the origin chain (an allowed     *)
(* one).                                                                   *)
(***************************************************************************)
EXTENDS NairaToken

CONSTANTS
    Receiver,  \* the receiver contract's own address
    Hashes,    \* source transaction hashes
    Seqs,      \* bridge message sequence numbers
    MaxStray   \* bound: other tokens sent to the receiver by mistake

ASSUME ReceiverAssumption ==
    /\ Receiver \in Accounts
    /\ MaxStray \in Nat

VARIABLES
    authority,  \* BRIDGE_AUTH_KEY
    txDone,     \* DataKey::Processed
    seqDone,    \* DataKey::ProcessedSeq
    stray,      \* balance of a token that is not the bridge token
    payouts     \* history: payouts made for a hash and sequence number

receiverVars == <<authority, txDone, seqDone, stray, payouts>>
vars == <<tokenVars, receiverVars>>

Holders == Accounts \ {Receiver}

Init ==
    /\ TokenInit
    /\ authority = None
    /\ txDone = {}
    /\ seqDone = {}
    /\ stray = 0
    /\ payouts = [m \in Hashes \X Seqs |-> 0]

InitializeReceiver(a) ==
    /\ authority = None
    /\ authority' = a
    /\ UNCHANGED <<tokenVars, txDone, seqDone, stray, payouts>>

UpdateBridgeAuthority(a) ==
    /\ authority # None
    /\ authority' = a
    /\ UNCHANGED <<tokenVars, txDone, seqDone, stray, payouts>>

\* mutant: only the sequence number is checked
IsNewSeq(h, s) == s \notin seqDone

\* Neither the source transaction nor the sequence number was seen.
IsNew(h, s) == h \notin txDone /\ s \notin seqDone

\* credit_recipient: mark both, then pay in the token the message names.
CreditRecipient(h, s, to, amount) ==
    /\ authority # None
    /\ IsNew(h, s)
    /\ txDone' = txDone \cup {h}
    /\ seqDone' = seqDone \cup {s}
    /\ \/ Transfer(Receiver, to, amount) /\ UNCHANGED stray
       \/ stray >= amount /\ stray' = stray - amount /\ UNCHANGED tokenVars
    /\ payouts' = [payouts EXCEPT ![<<h, s>>] = @ + 1]
    /\ UNCHANGED authority

\* Somebody sends another token to the receiver by mistake.
StrayTransfer ==
    /\ stray < MaxStray
    /\ stray' = stray + 1
    /\ UNCHANGED <<tokenVars, authority, txDone, seqDone, payouts>>

\* salvage_token sweeps every token except the bridge token.
SalvageToken ==
    /\ authority # None
    /\ stray > 0
    /\ stray' = 0
    /\ UNCHANGED <<tokenVars, authority, txDone, seqDone, payouts>>

ReceiverStep ==
    \/ \E a \in Holders : InitializeReceiver(a) \/ UpdateBridgeAuthority(a)
    \/ \E h \in Hashes, s \in Seqs, to \in Accounts, m \in Amounts : CreditRecipient(h, s, to, m)
    \/ StrayTransfer \/ SalvageToken

Next ==
    \/ (AdminStep \/ SupplyStep \/ \E a \in Holders : HolderStep(a, Holders)) /\ UNCHANGED receiverVars
    \/ ReceiverStep

Spec == Init /\ [][Next]_vars

-----------------------------------------------------------------------------
TokenTyped ==
    /\ admin \in Accounts \cup {None} /\ signer \in Accounts \cup {None}
    /\ paused \in BOOLEAN
    /\ supply \in Nat
    /\ bal \in [Accounts -> Nat]
    /\ allowance \in [Accounts \X Accounts -> Nat]
    /\ blacklist \subseteq Accounts

ReceiverTyped ==
    /\ authority \in Accounts \cup {None}
    /\ txDone \subseteq Hashes /\ seqDone \subseteq Seqs
    /\ stray \in 0..MaxStray
    /\ payouts \in [Hashes \X Seqs -> Nat]

\* Every storage entry has its type; no balance or allowance is negative.
TypeOK == TokenTyped /\ ReceiverTyped

\* total_supply is the sum of all balances: no sequence of mints, burns,
\* transfers (to oneself included) and bridge payouts makes them drift apart.
SupplyIsExact == supply = FoldFunction(LAMBDA x, y : x + y, 0, bal)

\* While the token is paused no balance moves, through none of the contracts.
PausedMeansStill == [][paused => bal' = bal /\ supply' = supply]_vars

\* Nobody's balance falls without his signature, an admin's burn, or a charge
\* of exactly this amount to an allowance he granted; and never while he is
\* blacklisted.  The receiver signs for itself when it pays a deposit out.
DropsAreAuthorised ==
    [][\A a \in Accounts : bal'[a] < bal[a] =>
          /\ a \notin blacklist
          /\ \/ signer' = a
             \/ signer' = admin /\ supply' < supply
             \/ allowance[<<a, signer'>>] - allowance'[<<a, signer'>>] = bal[a] - bal'[a]]_vars

\* Each source transaction and each sequence number is paid out once, in one
\* token to one recipient, although the relayer may repeat and renumber its
\* messages and the authority may change in between; and nothing is marked as
\* processed that was not paid.
CreditedOnce ==
    LET paid == {m \in Hashes \X Seqs : payouts[m] > 0} IN
    /\ \A m \in paid : payouts[m] = 1
    /\ \A m, n \in paid : m[1] = n[1] \/ m[2] = n[2] => m = n
    /\ txDone = {m[1] : m \in paid}
    /\ seqDone = {m[2] : m \in paid}
=============================================================================
