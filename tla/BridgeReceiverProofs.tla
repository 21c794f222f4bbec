------------------------ MODULE BridgeReceiverProofs ------------------------
(***************************************************************************)
(* What holds of the token and the bridge receiver for every set of        *)
(* accounts, hashes, sequence numbers and amounts: no balance or allowance *)
(* goes below zero, a deposit is paid once, a paused token stands still    *)
(* and nobody loses tokens without having agreed to it.                    *)
(***************************************************************************)
EXTENDS BridgeReceiver, SumTheorems, TLAPS

Inv == TypeOK /\ CreditedOnce

\* Every step of the token that is not a step of the receiver.
TokenStep == AdminStep \/ SupplyStep \/ \E a \in Holders : HolderStep(a, Holders)

-----------------------------------------------------------------------------
(***************************************************************************)
(* Types.                                                                  *)
(***************************************************************************)

\* A transfer keeps balances natural, to oneself as well.
LEMMA AfterTransferTyped ==
    ASSUME TokenTyped, NEW from \in Accounts, NEW to \in Accounts, NEW m \in Nat,
           bal[from] >= m
    PROVE  AfterTransfer(from, to, m) \in [Accounts -> Nat]
<1>1. \A a \in Accounts : bal[a] \in Nat
  BY DEF TokenTyped
<1> QED
  BY <1>1 DEF AfterTransfer

\* A granted amount can be charged.
LEMMA SpentTyped ==
    ASSUME TokenTyped, NEW from \in Accounts, NEW spender \in Accounts, NEW m \in Nat,
           Granted(from, spender, m)
    PROVE  Spent(from, spender, m) \in [Accounts \X Accounts -> Nat]
<1>1. allowance[<<from, spender>>] \in Nat
  BY DEF TokenTyped
<1>2. allowance[<<from, spender>>] - m \in Nat
  BY <1>1 DEF Granted
<1> QED
  BY <1>2 DEF Spent, TokenTyped

\* transfer keeps the token's types; the receiver's payouts are transfers.
LEMMA TransferTyped ==
    ASSUME TokenTyped, NEW from \in Accounts, NEW to \in Accounts, NEW m \in Amounts,
           Transfer(from, to, m)
    PROVE  TokenTyped'
<1>1. AfterTransfer(from, to, m) \in [Accounts -> Nat]
  BY AfterTransferTyped, TokenAssumption DEF Transfer, MayLeave
<1> QED
  BY <1>1 DEF TokenTyped, Transfer

\* A burn takes tokens the account and the supply have.
LEMMA BurnTyped ==
    ASSUME TokenTyped, NEW from \in Accounts, NEW m \in Amounts,
           bal[from] >= m, supply >= m
    PROVE  [bal EXCEPT ![from] = @ - m] \in [Accounts -> Nat] /\ supply - m \in Nat
<1>1. bal[from] \in Nat /\ supply \in Nat /\ m \in Nat
  BY TokenAssumption DEF TokenTyped
<1>2. bal[from] - m \in Nat /\ supply - m \in Nat
  BY <1>1
<1> QED
  BY <1>2 DEF TokenTyped

\* Every entry point of the token keeps its types.
LEMMA TokenStepTyped == TokenTyped /\ TokenStep => TokenTyped'
<1> SUFFICES ASSUME TokenTyped, TokenStep PROVE TokenTyped'
  OBVIOUS
<1>1. CASE AdminStep
  BY <1>1 DEF TokenTyped, AdminStep, Initialize, Blacklist, Unblacklist, TransferAdmin, SetPaused
<1>2. ASSUME NEW a \in Accounts, NEW m \in Amounts, Mint(a, m) PROVE TokenTyped'
  <2>1. bal[a] + m \in Nat /\ supply + m \in Nat
    BY TokenAssumption DEF TokenTyped
  <2> QED
    BY <1>2, <2>1 DEF TokenTyped, Mint
<1>3. ASSUME NEW a \in Accounts, NEW m \in Amounts, Burn(a, m) PROVE TokenTyped'
  BY <1>3, BurnTyped DEF TokenTyped, Burn, MayLeave
<1>4. ASSUME NEW a \in Accounts, NEW b \in Accounts, NEW m \in Amounts \cup {0}, Approve(a, b, m)
      PROVE  TokenTyped'
  BY <1>4, TokenAssumption DEF TokenTyped, Approve
<1>5. ASSUME NEW a \in Accounts, NEW b \in Accounts, NEW m \in Amounts, BurnFrom(a, b, m)
      PROVE  TokenTyped'
  <2>1. Spent(b, a, m) \in [Accounts \X Accounts -> Nat]
    BY <1>5, SpentTyped, TokenAssumption DEF BurnFrom
  <2> QED
    BY <1>5, <2>1, BurnTyped DEF TokenTyped, BurnFrom, MayLeave
<1>6. ASSUME NEW a \in Accounts, NEW b \in Accounts, NEW to \in Accounts, NEW m \in Amounts,
             TransferFrom(a, b, to, m)
      PROVE  TokenTyped'
  <2>1. Spent(b, a, m) \in [Accounts \X Accounts -> Nat]
    BY <1>6, SpentTyped, TokenAssumption DEF TransferFrom
  <2>2. AfterTransfer(b, to, m) \in [Accounts -> Nat]
    BY <1>6, AfterTransferTyped, TokenAssumption DEF TransferFrom, MayLeave
  <2> QED
    BY <1>6, <2>1, <2>2 DEF TokenTyped, TransferFrom
<1> QED
  BY <1>1, <1>2, <1>3, <1>4, <1>5, <1>6, TransferTyped
     DEF TokenStep, SupplyStep, HolderStep, Holders

\* A payout is either a transfer of the bridge token or of a stray one.
LEMMA CreditTyped ==
    ASSUME TypeOK, NEW h \in Hashes, NEW s \in Seqs, NEW to \in Accounts, NEW m \in Amounts,
           CreditRecipient(h, s, to, m)
    PROVE  TypeOK'
<1>1. TokenTyped' /\ stray' \in 0..MaxStray
  <2>1. CASE Transfer(Receiver, to, m) /\ UNCHANGED stray
    BY <2>1, TransferTyped, ReceiverAssumption DEF TypeOK, ReceiverTyped
  <2>2. CASE stray >= m /\ stray' = stray - m /\ UNCHANGED tokenVars
    BY <2>2, TokenAssumption, ReceiverAssumption DEF TypeOK, TokenTyped, ReceiverTyped, tokenVars
  <2> QED
    BY <2>1, <2>2 DEF CreditRecipient
<1>2. payouts' \in [Hashes \X Seqs -> Nat]
  <2>1. payouts[<<h, s>>] + 1 \in Nat
    BY DEF TypeOK, ReceiverTyped
  <2> QED
    BY <2>1 DEF TypeOK, ReceiverTyped, CreditRecipient
<1> QED
  BY <1>1, <1>2 DEF TypeOK, ReceiverTyped, CreditRecipient

\* Every step keeps the types.
LEMMA TypeInductive == TypeOK /\ [Next]_vars => TypeOK'
<1> SUFFICES ASSUME TypeOK, [Next]_vars PROVE TypeOK'
  OBVIOUS
<1>1. CASE TokenStep /\ UNCHANGED receiverVars
  BY <1>1, TokenStepTyped DEF TypeOK, ReceiverTyped, receiverVars
<1>2. ASSUME NEW a \in Holders, InitializeReceiver(a) \/ UpdateBridgeAuthority(a) PROVE TypeOK'
  BY <1>2 DEF TypeOK, TokenTyped, ReceiverTyped, InitializeReceiver, UpdateBridgeAuthority,
              tokenVars, Holders
<1>3. CASE StrayTransfer \/ SalvageToken
  BY <1>3, ReceiverAssumption
     DEF TypeOK, TokenTyped, ReceiverTyped, StrayTransfer, SalvageToken, tokenVars
<1>4. CASE UNCHANGED vars
  BY <1>4 DEF TypeOK, TokenTyped, ReceiverTyped, vars, tokenVars, receiverVars
<1> QED
  BY <1>1, <1>2, <1>3, <1>4, CreditTyped DEF Next, ReceiverStep, TokenStep

-----------------------------------------------------------------------------
(***************************************************************************)
(* A deposit is paid once.                                                 *)
(***************************************************************************)
Paid == {m \in Hashes \X Seqs : payouts[m] > 0}

\* A fresh hash and a fresh sequence number belong to no payout so far, so the
\* new payout is the first of each.
LEMMA CreditOnce ==
    ASSUME Inv, NEW h \in Hashes, NEW s \in Seqs, NEW to \in Accounts, NEW m \in Amounts,
           CreditRecipient(h, s, to, m)
    PROVE  CreditedOnce'
<1>1. \A n \in Paid : payouts[n] = 1 /\ n[1] # h /\ n[2] # s
  BY DEF Inv, CreditedOnce, Paid, CreditRecipient, IsNew
<1>2. payouts[<<h, s>>] = 0
  BY <1>1 DEF Inv, TypeOK, ReceiverTyped, Paid
<1>3. payouts' = [payouts EXCEPT ![<<h, s>>] = 1]
  BY <1>2 DEF CreditRecipient
<1>4. \A n \in Hashes \X Seqs : payouts'[n] = IF n = <<h, s>> THEN 1 ELSE payouts[n]
  BY <1>3 DEF Inv, TypeOK, ReceiverTyped
<1>5. Paid' = Paid \cup {<<h, s>>}
  BY <1>4 DEF Paid
<1>6. \A n \in Paid' : payouts'[n] = 1
  BY <1>1, <1>4, <1>5 DEF Paid
<1>7. \A p, q \in Paid' : p[1] = q[1] \/ p[2] = q[2] => p = q
  BY <1>1, <1>5 DEF Inv, CreditedOnce, Paid
<1>8. /\ txDone' = {n[1] : n \in Paid'}
      /\ seqDone' = {n[2] : n \in Paid'}
  BY <1>5 DEF Inv, CreditedOnce, Paid, CreditRecipient
<1> QED
  BY <1>6, <1>7, <1>8 DEF CreditedOnce, Paid

\* Every other step leaves the payouts and the replay marks alone.
LEMMA InvInductive == Inv /\ [Next]_vars => Inv'
<1> SUFFICES ASSUME Inv, [Next]_vars PROVE CreditedOnce'
  BY TypeInductive DEF Inv
<1>1. CASE UNCHANGED <<txDone, seqDone, payouts>>
  BY <1>1 DEF Inv, CreditedOnce
<1>2. ASSUME NEW a \in Holders, InitializeReceiver(a) \/ UpdateBridgeAuthority(a)
      PROVE  UNCHANGED <<txDone, seqDone, payouts>>
  BY <1>2 DEF InitializeReceiver, UpdateBridgeAuthority
<1>3. CASE StrayTransfer \/ SalvageToken
  BY <1>1, <1>3 DEF StrayTransfer, SalvageToken
<1>4. CASE UNCHANGED receiverVars
  BY <1>1, <1>4 DEF receiverVars
<1> QED
  BY <1>1, <1>2, <1>3, <1>4, CreditOnce DEF Next, ReceiverStep, vars

\* The invariant holds of the empty contracts.
LEMMA InvInit == Init => Inv
<1> SUFFICES ASSUME Init PROVE Inv
  OBVIOUS
<1>1. TypeOK
  <2>1. stray \in 0..MaxStray
    BY ReceiverAssumption DEF Init
  <2>2. paused \in BOOLEAN
    BY DEF Init, TokenInit
  <2>3. TokenTyped
    BY <2>2 DEF Init, TokenInit, TokenTyped
  <2> QED
    BY <2>1, <2>3 DEF Init, TypeOK, ReceiverTyped
<1>2. CreditedOnce
  <2>1. \A m \in Hashes \X Seqs : ~(payouts[m] > 0)
    BY DEF Init
  <2> QED
    BY <2>1 DEF Init, CreditedOnce
<1> QED
  BY <1>1, <1>2 DEF Inv

\* The inductive invariant holds in every reachable state.
THEOREM InvAlways == Spec => []Inv
  BY InvInit, InvInductive, PTL DEF Spec

\* Storage entries keep their types: no balance, no allowance and no supply
\* ever goes below zero.
THEOREM TypeCorrect == Spec => []TypeOK
<1>1. Inv => TypeOK
  BY DEF Inv
<1> QED
  BY <1>1, InvAlways, PTL

\* No source transaction and no sequence number is paid out twice, whatever
\* the relayer repeats, reorders or renumbers.
THEOREM NoDepositPaidTwice == Spec => []CreditedOnce
<1>1. Inv => CreditedOnce
  BY DEF Inv
<1> QED
  BY <1>1, InvAlways, PTL

-----------------------------------------------------------------------------
(***************************************************************************)
(* Steps of the token.                                                     *)
(***************************************************************************)
Still == bal' = bal /\ supply' = supply

\* While the token is paused neither balances nor the supply change, the
\* receiver's payouts included.
THEOREM PausedStandsStill == Spec => PausedMeansStill
<1>1. [Next]_vars => [paused => bal' = bal /\ supply' = supply]_vars
  <2> SUFFICES ASSUME Next, paused PROVE Still
    BY DEF Still
  <2>1. CASE AdminStep
    BY <2>1 DEF Still, AdminStep, Initialize, Blacklist, Unblacklist, TransferAdmin, SetPaused
  <2>2. ~SupplyStep
    BY DEF SupplyStep, Mint, MayMint, Burn, MayLeave
  <2>3. ASSUME NEW a \in Holders, HolderStep(a, Holders) PROVE Still
    BY <2>3 DEF HolderStep, Still, Approve, Transfer, TransferFrom, BurnFrom, MayLeave
  <2>4. CASE ReceiverStep
    BY <2>4 DEF Still, ReceiverStep, InitializeReceiver, UpdateBridgeAuthority, CreditRecipient,
                StrayTransfer, SalvageToken, Transfer, MayLeave, tokenVars
  <2> QED
    BY <2>1, <2>2, <2>3, <2>4 DEF Next
<1> QED
  BY <1>1, PTL DEF Spec, PausedMeansStill

\* Why account a's balance may fall in a step.
Authorised(a) ==
    /\ a \notin blacklist
    /\ \/ signer' = a
       \/ signer' = admin /\ supply' < supply
       \/ allowance[<<a, signer'>>] - allowance'[<<a, signer'>>] = bal[a] - bal'[a]

\* In a transfer only the sender's balance falls, by at most the amount, and by
\* exactly the amount unless he sends to himself.
LEMMA OnlySenderPays ==
    ASSUME TokenTyped, NEW from \in Accounts, NEW to \in Accounts, NEW m \in Nat, NEW a \in Accounts,
           AfterTransfer(from, to, m)[a] < bal[a]
    PROVE  a = from /\ bal[a] - AfterTransfer(from, to, m)[a] = m
<1>1. bal[a] \in Nat
  BY DEF TokenTyped
<1> QED
  BY <1>1 DEF AfterTransfer

\* Nobody's balance falls unless he signed, the admin burns, or the spender is
\* charged exactly that much of the allowance he was granted; and a blacklisted
\* account's balance never falls.
THEOREM NobodyLosesUnasked == Spec => DropsAreAuthorised
<1>1. TypeOK /\ [Next]_vars
        => [\A a \in Accounts : bal'[a] < bal[a] => Authorised(a)]_vars
  <2> SUFFICES ASSUME TypeOK, Next, NEW a \in Accounts, bal'[a] < bal[a] PROVE Authorised(a)
    OBVIOUS
  <2>0. bal[a] \in Nat /\ supply \in Nat /\ Amounts \subseteq Nat \ {0} /\ TokenTyped
    BY TokenAssumption DEF TypeOK, TokenTyped
  <2>1. bal' # bal
    BY <2>0
  <2>2. ~AdminStep
    BY <2>1 DEF AdminStep, Initialize, Blacklist, Unblacklist, TransferAdmin, SetPaused
  <2>3. ASSUME NEW b \in Accounts, NEW m \in Amounts, Mint(b, m) PROVE FALSE
    BY <2>0, <2>3 DEF Mint, TokenTyped
  <2>4. ASSUME NEW b \in Accounts, NEW m \in Amounts, Burn(b, m) PROVE Authorised(a)
    BY <2>0, <2>4 DEF Burn, MayLeave, Authorised, TokenTyped
  <2>5. ASSUME NEW b \in Accounts, NEW to \in Accounts, NEW m \in Amounts, Transfer(b, to, m)
        PROVE  Authorised(a)
    BY <2>0, <2>5, OnlySenderPays DEF Transfer, MayLeave, Authorised
  <2>6. ASSUME NEW b \in Accounts, NEW c \in Accounts, NEW to \in Accounts, NEW m \in Amounts,
               TransferFrom(b, c, to, m)
        PROVE  Authorised(a)
    <3>1. a = c /\ bal[a] - bal'[a] = m
      BY <2>0, <2>6, OnlySenderPays DEF TransferFrom
    <3>2. allowance[<<c, b>>] \in Nat /\ allowance'[<<c, b>>] = allowance[<<c, b>>] - m
      BY <2>0, <2>6 DEF TransferFrom, Spent, TokenTyped
    <3>3. allowance[<<c, b>>] - allowance'[<<c, b>>] = m
      BY <2>0, <3>2
    <3> QED
      BY <2>6, <3>1, <3>3 DEF TransferFrom, MayLeave, Authorised
  <2>7. ASSUME NEW b \in Accounts, NEW c \in Accounts, NEW m \in Amounts, BurnFrom(b, c, m)
        PROVE  Authorised(a)
    <3>1. a = c /\ bal[a] - bal'[a] = m
      BY <2>0, <2>7 DEF BurnFrom, TokenTyped
    <3>2. allowance[<<c, b>>] \in Nat /\ allowance'[<<c, b>>] = allowance[<<c, b>>] - m
      BY <2>0, <2>7 DEF BurnFrom, Spent, TokenTyped
    <3>3. allowance[<<c, b>>] - allowance'[<<c, b>>] = m
      BY <2>0, <3>2
    <3> QED
      BY <2>7, <3>1, <3>3 DEF BurnFrom, MayLeave, Authorised
  <2>8. ASSUME NEW b \in Accounts, NEW c \in Accounts, NEW m \in Amounts \cup {0}, Approve(b, c, m)
        PROVE  FALSE
    BY <2>1, <2>8 DEF Approve
  <2>9. ASSUME NEW b \in Holders, HolderStep(b, Holders) PROVE Authorised(a)
    BY <2>5, <2>6, <2>7, <2>8, <2>9 DEF HolderStep, Holders
  <2>10. CASE ReceiverStep
    <3>1. PICK h \in Hashes, s \in Seqs, to \in Accounts, m \in Amounts : CreditRecipient(h, s, to, m)
      BY <2>1, <2>10 DEF ReceiverStep, InitializeReceiver, UpdateBridgeAuthority, StrayTransfer,
                         SalvageToken, tokenVars
    <3>2. Transfer(Receiver, to, m)
      BY <2>1, <3>1 DEF CreditRecipient, tokenVars
    <3> QED
      BY <2>5, <3>2, ReceiverAssumption
  <2> QED
    BY <2>2, <2>3, <2>4, <2>9, <2>10 DEF Next, SupplyStep
<1> QED
  BY <1>1, TypeCorrect, PTL DEF Spec, DropsAreAuthorised, Authorised

-----------------------------------------------------------------------------
(***************************************************************************)
(* The supply is the sum of the balances.                                  *)
(***************************************************************************)
Exact == supply = Sum(bal, Accounts)

LEMMA ExactIsExact == TokenTyped => (SupplyIsExact <=> Exact)
<1> SUFFICES ASSUME TokenTyped PROVE SupplyIsExact <=> Exact
  OBVIOUS
<1>1. DOMAIN bal = Accounts
  BY DEF TokenTyped
<1> QED
  BY <1>1 DEF SupplyIsExact, Exact, FoldFunction, Sum

\* A transfer writes the sender's balance and then the recipient's, which may
\* be the same one: the sum stays.
LEMMA TransferKeepsSum ==
    ASSUME TokenTyped, NEW from \in Accounts, NEW to \in Accounts, NEW m \in Nat
    PROVE  Sum(AfterTransfer(from, to, m), Accounts) = Sum(bal, Accounts)
<1>1. bal \in [Accounts -> Int] /\ IsFiniteSet(Accounts) /\ m \in Int
  BY TokenAssumption DEF TokenTyped
<1> DEFINE taken == [bal EXCEPT ![from] = bal[from] - m]
           given == [taken EXCEPT ![to] = taken[to] + m]
<1>2. taken \in [Accounts -> Int] /\ given \in [Accounts -> Int]
  BY <1>1
<1>3. /\ taken[from] = bal[from] - m /\ \A a \in Accounts \ {from} : taken[a] = bal[a]
      /\ given[to] = taken[to] + m /\ \A a \in Accounts \ {to} : given[a] = taken[a]
  BY <1>1
<1>4. AfterTransfer(from, to, m) = given
  <2>1. \A a \in Accounts : AfterTransfer(from, to, m)[a] = given[a]
    BY <1>1 DEF AfterTransfer
  <2>2. AfterTransfer(from, to, m) \in [Accounts -> Int]
    BY <1>1 DEF AfterTransfer
  <2> QED
    BY <1>2, <2>1, <2>2
<1> HIDE DEF taken, given
<1>5. /\ Sum(taken, Accounts) = Sum(bal, Accounts) - bal[from] + taken[from]
      /\ Sum(bal, Accounts) \in Int
  BY <1>1, <1>2, <1>3, SumChange
<1>6. /\ Sum(given, Accounts) = Sum(taken, Accounts) - taken[to] + given[to]
      /\ Sum(taken, Accounts) \in Int
  BY <1>1, <1>2, <1>3, SumChange
<1>7. bal[from] \in Int /\ taken[to] \in Int
  BY <1>1, <1>2
<1> QED
  BY <1>1, <1>3, <1>4, <1>5, <1>6, <1>7

\* mint, burn and burn_from change one balance and the supply alike.
LEMMA OneBalance ==
    ASSUME TokenTyped, Exact, NEW a \in Accounts, NEW m \in Int,
           bal' = [bal EXCEPT ![a] = @ + m], supply' = supply + m
    PROVE  Exact'
<1>1. bal \in [Accounts -> Int] /\ IsFiniteSet(Accounts) /\ bal[a] \in Int
  BY TokenAssumption DEF TokenTyped
<1> DEFINE new == [bal EXCEPT ![a] = @ + m]
<1>2. /\ new \in [Accounts -> Int]
      /\ new[a] = bal[a] + m /\ \A b \in Accounts \ {a} : new[b] = bal[b]
  BY <1>1
<1>3. bal' = new
  OBVIOUS
<1> HIDE DEF new
<1>4. Sum(new, Accounts) = Sum(bal, Accounts) - bal[a] + new[a] /\ Sum(bal, Accounts) \in Int
  BY <1>1, <1>2, SumChange
<1>5. Sum(new, Accounts) = Sum(bal, Accounts) + m
  BY <1>1, <1>2, <1>4
<1> QED
  BY <1>3, <1>5 DEF Exact

LEMMA ExactInductive == TypeOK /\ Exact /\ [Next]_vars => Exact'
<1> SUFFICES ASSUME TypeOK, Exact, [Next]_vars PROVE Exact'
  OBVIOUS
<1>0. TokenTyped /\ Amounts \subseteq Nat
  BY TokenAssumption DEF TypeOK
<1>1. CASE bal' = bal /\ supply' = supply
  BY <1>1 DEF Exact
<1>2. ASSUME NEW a \in Accounts, NEW m \in Amounts, Mint(a, m) PROVE Exact'
  <2>1. m \in Int /\ bal' = [bal EXCEPT ![a] = @ + m] /\ supply' = supply + m
    BY <1>0, <1>2 DEF Mint
  <2> QED
    BY <1>0, <2>1, OneBalance
<1>3. ASSUME NEW a \in Accounts, NEW m \in Amounts,
             bal' = [bal EXCEPT ![a] = @ - m], supply' = supply - m
      PROVE  Exact'
  <2>1. -m \in Int /\ bal[a] - m = bal[a] + -m /\ supply - m = supply + -m
    BY <1>0 DEF TokenTyped
  <2>2. bal' = [bal EXCEPT ![a] = @ + -m] /\ supply' = supply + -m
    BY <1>3, <2>1
  <2> QED
    BY <1>0, <2>1, <2>2, OneBalance
<1>4. ASSUME NEW from \in Accounts, NEW to \in Accounts, NEW m \in Amounts,
             bal' = AfterTransfer(from, to, m), supply' = supply
      PROVE  Exact'
  BY <1>0, <1>4, TransferKeepsSum DEF Exact
<1>5. CASE AdminStep
  BY <1>1, <1>5 DEF AdminStep, Initialize, Blacklist, Unblacklist, TransferAdmin, SetPaused
<1>6. CASE SupplyStep
  BY <1>2, <1>3, <1>6 DEF SupplyStep, Burn
<1>7. ASSUME NEW a \in Holders, HolderStep(a, Holders) PROVE Exact'
  BY <1>1, <1>3, <1>4, <1>7 DEF HolderStep, Holders, Approve, BurnFrom, Transfer, TransferFrom
<1>8. CASE ReceiverStep
  BY <1>1, <1>4, <1>8, ReceiverAssumption
     DEF ReceiverStep, InitializeReceiver, UpdateBridgeAuthority, CreditRecipient, StrayTransfer,
         SalvageToken, Transfer, tokenVars
<1>9. CASE UNCHANGED vars
  BY <1>1, <1>9 DEF vars, tokenVars
<1> QED
  BY <1>5, <1>6, <1>7, <1>8, <1>9 DEF Next

\* total_supply of naira_token is the sum of all balances after any sequence of
\* mints, burns, transfers (to oneself, by an allowance) and bridge payouts, for
\* every finite set of accounts.
THEOREM SupplyStaysExact == Spec => []SupplyIsExact
<1>1. Init => Exact
  <2> SUFFICES ASSUME Init PROVE Exact
    OBVIOUS
  <2>1. IsFiniteSet(Accounts) /\ \A a \in Accounts : bal[a] = 0
    BY TokenAssumption DEF Init, TokenInit
  <2> QED
    BY <2>1, SumZero DEF Init, TokenInit, Exact
<1>2. TypeOK /\ Exact => SupplyIsExact
  BY ExactIsExact DEF TypeOK
<1> QED
  BY <1>1, <1>2, ExactInductive, TypeCorrect, PTL DEF Spec
=============================================================================
