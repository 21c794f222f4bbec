------------------------------- MODULE Yield --------------------------------
(***************************************************************************)
(* Both sides of yield: the vault contract, and the backend that books     *)
(* what it sees on chain.  The backend learns of the vault only through    *)
(* events, which YieldSync takes from the chain as they come, so the two   *)
(* share no state: a behaviour follows one `side' while the other rests.   *)
(***************************************************************************)
EXTENDS YieldVault, YieldSync

VARIABLE side

vars == <<side, vaultVars, syncVars>>

Init ==
    /\ side \in {"vault", "backend"}
    /\ VaultInit /\ SyncInit
    /\ side = "vault" \/ pool.apy = 0
    /\ side = "backend" \/ configured

Next ==
    \/ side = "vault" /\ VaultNext /\ UNCHANGED <<side, syncVars>>
    \/ side = "backend" /\ SyncNext /\ UNCHANGED <<side, vaultVars>>

\* Ledgers close; the indexer's loop and the sweep's go on, each request ends,
\* and what was submitted or read is dealt with.  Nothing is assumed of users,
\* of the API's callers, or of the node's answer.
Fairness ==
    /\ WF_syncVars(side = "backend" /\ CloseLedger)
    /\ WF_syncVars(side = "backend" /\ Poll)
    /\ WF_syncVars(side = "backend" /\ (Rollback \/ Commit(TRUE)))
    /\ WF_syncVars(side = "backend" /\ (Book \/ SweepEnds \/ \E u \in Savers : Submit(u) \/ SubmitFails(u)))

Spec == Init /\ [][Next]_vars /\ Fairness

-----------------------------------------------------------------------------
\* The vault's books: shares and principal add up over every mix of exits, what
\* all holders are owed is there, and no deposit taken out at once gains
\* (deposit, withdraw, emergency_exit and emergency_withdraw round each in
\* their own way).
VaultBalances == VaultTypeOK /\ SharesAddUp /\ VaultIsSolvent /\ RoundTripLoses /\ PrincipalHasShares

\* update_apy and apply_apy: a rate in force was announced a timelock ago, and
\* no change of it reprices what was earned before.
RateIsHonest == RateWasAnnounced /\ IndexIsContinuous

\* The backend's tables are what the chain's events and the API's calls make
\* of them, each applied once, through replays, rollbacks, crashes and sweeps
\* that the indexer sees as deposits too.
LedgerFollowsChain == SyncTypeOK /\ LedgerAddsUp /\ NothingSkipped /\ FriendsFollowChain

\* As long as the chain has only events whose statements succeed each time they
\* are read, every payment and friend event gets into the database, through
\* replays, restarts and lost answers.  One other event ends that: a deposit or
\* withdrawal read twice (EventsAreCached), a salvaged token, for which there is
\* no table (worker.rs:514), or a name that another row of users has
\* (worker.rs:538-546) rolls back every batch it is in, for ever.
SocialEventsAreCached == Behind ~> (~Behind \/ ~AllTolerated)

\* A sweep gets to the end of its list whatever fails on the way.
SweepsEnd == Sweeping ~> ~Sweeping

\* The sweep's loop never gets stuck, and the indexer's on nothing but an event
\* whose statement fails, whatever the node answers.
BackendGoesOn == SocialEventsAreCached /\ SweepsEnd

\* "polls Soroban events and caches them in the PostgreSQL database"
\* (backend/README.md:10): every payment, deposit and withdrawal on chain has
\* its row in the end.
EventsAreCached == \A i \in 1..MaxEvents :
    (~Written(i) /\ emitted[i].kind \in YieldKinds \cup {"payment"}) ~> Written(i)
=============================================================================
