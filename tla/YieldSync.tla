----------------------------- MODULE YieldSync ------------------------------
(***************************************************************************)
(* The database's copy of what happens on chain, and the three that write  *)
(* it: the event indexer, which reads events ledger by ledger and commits  *)
(* each batch with its cursor; the auto-sweep worker, which deposits idle  *)
(* balances on chain and books them after; and the API's endpoints for     *)
(* yield and friends.  The chain and its RPC node are external: events go  *)
(* into the open ledger and are seen once it closes, and a node refuses to *)
(* read from a ledger it does not have yet.                                *)
(***************************************************************************)
EXTENDS Integers, Sequences, FiniteSetsExt, Functions, SequencesExt

CONSTANTS
    People,        \* two users, who may be friends
    Savers,        \* those with a balance row
    Start,         \* their available balance, from withdrawals before
    MinIdle,       \* SWEEP_MIN_IDLE_AMOUNT
    Moves,         \* amounts moved in one deposit or withdrawal
    PageSize,      \* events the node returns for one request
    MaxLedger,     \* bound: ledgers
    MaxEvents,     \* bound: events
    MaxApi,        \* bound: calls of the API's endpoints
    MaxFaults      \* bound: crashes and lost answers

ASSUME SyncConstants ==
    /\ \E u, v \in People : u # v /\ People = {u, v}
    /\ Savers \subseteq People
    /\ Start \in Nat /\ MinIdle \in Nat \ {0} /\ Moves \subseteq Nat \ {0}
    /\ PageSize \in Nat \ {0} /\ MaxLedger \in Nat \ {0} /\ MaxEvents \in Nat
    /\ MaxApi \in Nat /\ MaxFaults \in Nat

VARIABLES
    emitted,     \* the events, in order
    latest,      \* the last closed ledger
    staked,      \* what each user has in the vault
    db,          \* cursor, yield_transactions, payments, friendships, user_yield_balances
    ix,          \* the indexer: its own cursor and the batch it has read
    autoEarn,    \* users.auto_earn_enabled
    backoff,     \* users whose next_retry_at is ahead
    configured,  \* YIELD_VAULT_CONTRACT_ID is set
    sw,          \* the sweep worker: users left, amounts read, submission made
    api, faults  \* calls and faults counted against their bounds

syncVars == <<emitted, latest, staked, db, ix, autoEarn, backoff, configured, sw, api, faults>>

Pairs == {p \in People \X People : p[1] # p[2]}
NoSweep == [phase |-> "idle", todo |-> {}, amounts |-> [u \in Savers |-> 0], user |-> "", hash |-> <<>>]

\* The name that is registered on chain is, in users, that of this user, who
\* registered it first.  The registry gives it to another once its profile is
\* deleted; of a deletion the indexer is told nothing.
NameHolder == CHOOSE u \in People : TRUE

\* A saver has asked the other user before.
FirstRows == [p \in Pairs |-> IF p[1] \in Savers THEN "PENDING" ELSE "none"]

SyncInit ==
    /\ emitted = <<>> /\ latest = 1
    /\ staked = [u \in Savers |-> 0]
    /\ db = [cursor |-> 1, rows |-> {}, payments |-> {}, friends |-> FirstRows,
             available |-> [u \in Savers |-> Start], earning |-> [u \in Savers |-> 0]]
    /\ ix = [phase |-> "idle", cursor |-> 1, batch |-> <<>>, next |-> 1]
    /\ autoEarn = Savers /\ backoff = {}
    /\ configured \in BOOLEAN
    /\ sw = NoSweep /\ api = 0 /\ faults = 0

-----------------------------------------------------------------------------
(* The chain. *)

YieldKinds == {"deposit", "withdraw"}
FriendEvents == {i \in 1..Len(emitted) : emitted[i].kind \in {"add", "remove"}}
LastFriend == emitted[Max(FriendEvents)]
Befriended == FriendEvents # {} /\ LastFriend.kind = "add"

Event(kind, u, amount) ==
    [kind |-> kind, user |-> u, amount |-> amount, ledger |-> latest + 1,
     hash |-> <<"tx", Len(emitted) + 1>>]
CanEmit == Len(emitted) < MaxEvents /\ latest < MaxLedger
Emit(e) ==
    /\ CanEmit
    /\ emitted' = Append(emitted, e)
    /\ staked' = CASE e.kind = "deposit" -> [staked EXCEPT ![e.user] = @ + e.amount]
                   [] e.kind = "withdraw" -> [staked EXCEPT ![e.user] = @ - e.amount]
                   [] OTHER -> staked

ChainDeposit(u, a) == Emit(Event("deposit", u, a))
ChainWithdraw(u, a) == staked[u] >= a /\ Emit(Event("withdraw", u, a))
ChainPayment == Emit(Event("payment", CHOOSE u \in People : TRUE, 0))
ChainRegister(u) == Emit(Event("register", u, 0))
ChainSalvage == Emit(Event("salvage", CHOOSE u \in People : TRUE, 0))
ChainFriend(u) == Emit(Event(IF Befriended THEN "remove" ELSE "add", u, 0))

OnChain ==
    /\ \/ \E u \in Savers, a \in Moves : ChainDeposit(u, a) \/ ChainWithdraw(u, a)
       \/ ChainPayment \/ ChainSalvage
       \/ \E u \in People \ {NameHolder} : ChainRegister(u)
       \/ \E u \in Savers : ChainFriend(u)
    /\ UNCHANGED <<latest, db, ix, autoEarn, backoff, configured, sw, api, faults>>

CloseLedger ==
    /\ latest < MaxLedger
    /\ latest' = latest + 1
    /\ UNCHANGED <<emitted, staked, db, ix, autoEarn, backoff, configured, sw, api, faults>>

-----------------------------------------------------------------------------
(* Statements on the database: the set of its next states, empty when a    *)
(* constraint fails.                                                       *)

If(condition, d) == IF condition THEN {d} ELSE {}

\* mutant: the constraint is missing.
AnyHash(d, h) == TRUE
\* INSERT INTO yield_transactions: tx_hash is UNIQUE.
Unique(d, h) == \A r \in d.rows : r.hash # h
Row(h, u, type, a) == [hash |-> h, user |-> u, type |-> type, amount |-> a]

DepositTx(d, u, a, h) ==
    If(Unique(d, h), [d EXCEPT !.rows = @ \cup {Row(h, u, "DEPOSIT", a)}, !.earning[u] = @ + a])

\* CHECK (earning_balance >= 0).
WithdrawalTx(d, u, a, h) ==
    If(Unique(d, h) /\ d.earning[u] >= a,
       [d EXCEPT !.rows = @ \cup {Row(h, u, "WITHDRAW", a)},
                 !.earning[u] = @ - a, !.available[u] = @ + a])

\* mutant: a repeated payment is an error.
PaymentStrict(d, h) == If(h \notin d.payments, [d EXCEPT !.payments = @ \cup {h}])
\* INSERT INTO payments ... ON CONFLICT (tx_hash) DO NOTHING.
PaymentTx(d, h) == {[d EXCEPT !.payments = @ \cup {h}]}

\* A friend event names the requester; with two users the friend is the other.
PairOf(u) == CHOOSE p \in Pairs : p[1] = u
Swapped(p) == <<p[2], p[1]>>
\* mutant: an open request is not accepted.
FriendKept(d, p) == {[d EXCEPT !.friends[p] = IF @ = "none" THEN "ACCEPTED" ELSE @]}
FriendAddedTx(d, p) == {[d EXCEPT !.friends[p] = "ACCEPTED"]}
FriendRemovedTx(d, p) == {[d EXCEPT !.friends[p] = "none", !.friends[Swapped(p)] = "none"]}

\* INSERT INTO users ... ON CONFLICT (address) DO UPDATE SET username: a conflict
\* on the name, which is UNIQUE too, is an error.
RegisterTx(d, u) == If(u = NameHolder, d)

\* INSERT INTO transactions, a table no migration creates: the statement fails.
SalvageTx(d) == {}

\* Events come from users who have a row in users, as get_or_create_user_id_tx
\* sees to.  A registration by the holder of the name changes nothing and cannot
\* fail, nor can YieldRateUpdated and YieldAccrued, which write none of these
\* tables; to the tables they are a payment that is read again, and the chain
\* emits none of them here.
ProcessEvent(d, e) ==
    CASE e.kind = "deposit" -> DepositTx(d, e.user, e.amount, e.hash)
      [] e.kind = "withdraw" -> WithdrawalTx(d, e.user, e.amount, e.hash)
      [] e.kind = "payment" -> PaymentTx(d, e.hash)
      [] e.kind = "register" -> RegisterTx(d, e.user)
      [] e.kind = "salvage" -> SalvageTx(d)
      [] e.kind = "add" -> FriendAddedTx(d, PairOf(e.user))
      [] e.kind = "remove" -> FriendRemovedTx(d, PairOf(e.user))

\* process_event_batch_with_guard: every event and the cursor, or nothing.
ProcessBatch(batch) ==
    LET After[n \in 0..Len(batch)] ==
            IF n = 0 THEN {db} ELSE UNION {ProcessEvent(d, batch[n]) : d \in After[n - 1]}
    IN  After[Len(batch)]

-----------------------------------------------------------------------------
(* The indexer. *)

\* The node returns at most a page of what it has from the cursor's own
\* ledger on, and the ledger it is at.
Returned == {i \in 1..Len(emitted) : emitted[i].ledger \in ix.cursor..latest}
Visible ==
    LET UpTo[i \in 0..Len(emitted)] ==
            IF i = 0 THEN <<>> ELSE IF i \in Returned THEN Append(UpTo[i - 1], emitted[i]) ELSE UpTo[i - 1]
    IN  UpTo[Len(emitted)]
Page == SubSeq(Visible, 1, Min({PageSize, Len(Visible)}))
NextCursor == IF latest > ix.cursor THEN latest ELSE ix.cursor + 1

Poll ==
    /\ ix.phase = "idle" /\ ix.cursor <= latest
    /\ ix' = [ix EXCEPT !.phase = "read", !.batch = Page, !.next = NextCursor]
    /\ UNCHANGED <<emitted, latest, staked, db, autoEarn, backoff, configured, sw, api, faults>>

Idle(cursor) == [phase |-> "idle", cursor |-> cursor, batch |-> <<>>, next |-> cursor]
Fault == faults < MaxFaults /\ faults' = faults + 1

\* The batch commits; the worker may not hear of it, and then keeps its cursor.
Commit(heard) ==
    /\ ix.phase = "read"
    /\ \E d \in ProcessBatch(ix.batch) : db' = [d EXCEPT !.cursor = ix.next]
    /\ ix' = Idle(IF heard THEN ix.next ELSE ix.cursor)
    /\ IF heard THEN UNCHANGED faults ELSE Fault
    /\ UNCHANGED <<emitted, latest, staked, autoEarn, backoff, configured, sw, api>>

\* mutant: the cursor moves past a batch that failed.
PoisonSkipped == [db EXCEPT !.cursor = ix.next]
RolledBack == db

Rollback ==
    /\ ix.phase = "read" /\ ProcessBatch(ix.batch) = {}
    /\ db' = RolledBack
    /\ ix' = Idle(ix.cursor)
    /\ UNCHANGED <<emitted, latest, staked, autoEarn, backoff, configured, sw, api, faults>>

-----------------------------------------------------------------------------
(* The auto-sweep worker. *)

\* list_auto_sweep_candidates less list_sweep_backoff_excluded_users.
Candidates == {u \in autoEarn \ backoff : db.available[u] >= MinIdle}

SweepStarts ==
    /\ sw.phase = "idle" /\ Candidates # {}
    /\ sw' = [sw EXCEPT !.phase = "sweeping", !.todo = Candidates, !.amounts = db.available]
    /\ UNCHANGED <<emitted, latest, staked, db, ix, autoEarn, backoff, configured, api, faults>>

\* mutant: a user whose sweep failed is tried again at once.
TriesAgain(u) == sw.todo
Skipped(u) == sw.todo \ {u}
Past(u) == [sw EXCEPT !.phase = "sweeping", !.todo = Skipped(u), !.user = "", !.hash = <<>>]
Failed(u) == sw' = Past(u) /\ backoff' = backoff \cup {u}

\* submit_sweep_transaction: the hash of the deposit on chain, or of its own
\* making when no vault is configured.
Submit(u) ==
    /\ sw.phase = "sweeping" /\ u \in sw.todo
    /\ IF configured THEN Emit(Event("deposit", u, sw.amounts[u])) ELSE UNCHANGED <<emitted, staked>>
    /\ sw' = [sw EXCEPT !.phase = "sent", !.user = u,
                        !.hash = IF configured THEN Last(emitted').hash ELSE <<"sweep", Cardinality(db.rows)>>]
    /\ UNCHANGED <<latest, db, ix, autoEarn, backoff, configured, api, faults>>

\* It failed; or the deposit was made and the answer was lost.
SubmitFails(u) ==
    /\ configured /\ sw.phase = "sweeping" /\ u \in sw.todo
    /\ \/ UNCHANGED <<emitted, staked, faults>>
       \/ Emit(Event("deposit", u, sw.amounts[u])) /\ Fault
    /\ Failed(u)
    /\ UNCHANGED <<latest, db, ix, autoEarn, configured, api>>

\* mutant: the balance is not checked.
SweepAny(d, u, a, h) ==
    If(TRUE, [d EXCEPT !.rows = @ \cup {Row(h, u, "SWEEP", a)},
                       !.available[u] = @ - a, !.earning[u] = @ + a])
\* process_internal_sweep_deposit: UPDATE ... WHERE available_balance >= amount.
SweepTx(d, u, a, h) ==
    If(d.available[u] >= a, [d EXCEPT !.rows = @ \cup {Row(h, u, "SWEEP", a)},
                                      !.available[u] = @ - a, !.earning[u] = @ + a])

Book ==
    LET u == sw.user
        booked == SweepTx(db, u, sw.amounts[u], sw.hash)
    IN  /\ sw.phase = "sent"
        /\ \/ /\ ~Unique(db, sw.hash) /\ Failed(u) /\ UNCHANGED db
           \/ /\ Unique(db, sw.hash)
              /\ sw' = Past(u)
              /\ \/ booked = {} /\ UNCHANGED <<db, backoff>>
                 \/ \E d \in booked : db' = d /\ backoff' = backoff \ {u}
        /\ UNCHANGED <<emitted, latest, staked, ix, autoEarn, configured, api, faults>>

SweepEnds ==
    /\ sw.phase = "sweeping" /\ sw.todo = {}
    /\ sw' = NoSweep
    /\ UNCHANGED <<emitted, latest, staked, db, ix, autoEarn, backoff, configured, api, faults>>

BackoffEnds(u) ==
    /\ u \in backoff /\ sw.phase = "idle"
    /\ backoff' = backoff \ {u}
    /\ UNCHANGED <<emitted, latest, staked, db, ix, autoEarn, configured, sw, api, faults>>

-----------------------------------------------------------------------------
(* The API and the process. *)

Call == api < MaxApi /\ api' = api + 1

\* deposit and withdraw move the balances under a hash of their own.
ApiDeposit(u, a) ==
    /\ db.available[u] >= a
    /\ db' = [db EXCEPT !.rows = @ \cup {Row(<<"api", api>>, u, "DEPOSIT", a)},
                        !.available[u] = @ - a, !.earning[u] = @ + a]
    /\ UNCHANGED autoEarn
ApiWithdraw(u, a) ==
    /\ \E d \in WithdrawalTx(db, u, a, <<"api", api>>) : db' = d
    /\ UNCHANGED autoEarn
ToggleAutoEarn(u) ==
    /\ autoEarn' = IF u \in autoEarn THEN autoEarn \ {u} ELSE autoEarn \cup {u}
    /\ UNCHANGED db
\* The row of the other direction is looked for in a statement of its own, before
\* the INSERT, and may have come since; only UNIQUE (user_id, friend_id) holds.
RequestFriend(p) ==
    /\ db.friends[p] = "none"
    /\ db' = [db EXCEPT !.friends[p] = "PENDING"]
    /\ UNCHANGED autoEarn
AnswerFriend(p, status) ==
    /\ db.friends[p] = "PENDING"
    /\ db' = [db EXCEPT !.friends[p] = status]
    /\ UNCHANGED autoEarn

Api ==
    /\ Call
    /\ \/ \E u \in Savers : ToggleAutoEarn(u) \/ \E a \in Moves : ApiDeposit(u, a) \/ ApiWithdraw(u, a)
       \/ \E p \in Pairs : RequestFriend(p) \/ \E s \in {"ACCEPTED", "REJECTED"} : AnswerFriend(p, s)
    /\ UNCHANGED <<emitted, latest, staked, ix, backoff, configured, sw, faults>>

\* Both workers live in the backend's process; load_or_initialize_cursor.
Restart ==
    /\ Fault
    /\ ix' = Idle(db.cursor) /\ sw' = NoSweep
    /\ UNCHANGED <<emitted, latest, staked, db, autoEarn, backoff, configured, api>>

SyncNext ==
    \/ OnChain \/ CloseLedger
    \/ Poll \/ Rollback \/ \E heard \in BOOLEAN : Commit(heard)
    \/ SweepStarts \/ Book \/ SweepEnds
    \/ \E u \in Savers : Submit(u) \/ SubmitFails(u) \/ BackoffEnds(u)
    \/ Api \/ Restart

-----------------------------------------------------------------------------
SyncTypeOK ==
    /\ \A i \in 1..Len(emitted) : emitted[i].ledger \in 2..MaxLedger /\ emitted[i].hash = <<"tx", i>>
    /\ latest \in 1..MaxLedger /\ staked \in [Savers -> Nat]
    /\ db.cursor \in Nat /\ db.friends \in [Pairs -> {"none", "PENDING", "ACCEPTED", "REJECTED"}]
    /\ db.available \in [Savers -> Nat] /\ db.earning \in [Savers -> Nat]
    /\ ix.phase \in {"idle", "read"} /\ ix.cursor \in Nat
    /\ autoEarn \subseteq Savers /\ backoff \subseteq Savers /\ configured \in BOOLEAN
    /\ sw.phase \in {"idle", "sweeping", "sent"} /\ sw.todo \subseteq Savers
    /\ api \in 0..MaxApi /\ faults \in 0..MaxFaults

Total(rows) == FoldFunctionOnSet(LAMBDA x, y : x + y, 0, [r \in rows |-> r.amount], rows)
RowsOf(d, u, types) == {r \in d.rows : r.user = u /\ r.type \in types}
BookedOff(d, u) == {r \in d.rows : r.user = u /\ (r.type = "SWEEP" \/ (r.type = "DEPOSIT" /\ r.hash[1] = "api"))}
AddsUp(d) == \A u \in Savers :
    /\ d.earning[u] = Total(RowsOf(d, u, {"DEPOSIT", "SWEEP"})) - Total(RowsOf(d, u, {"WITHDRAW"}))
    /\ d.available[u] = Start - Total(BookedOff(d, u)) + Total(RowsOf(d, u, {"WITHDRAW"}))

\* The balances are those the rows of yield_transactions explain, whichever of
\* indexer, sweep and endpoints wrote them and however often an event, a batch
\* or a submission was repeated: no money is booked without a row or twice.
LedgerAddsUp == AddsUp(db)

\* No row of the database can hold a name another row has, nor a salvaged token.
Clashes(e) == e.kind = "register" /\ e.user # NameHolder
Cached(e) == CASE e.kind \in YieldKinds -> \E r \in db.rows : r.hash = e.hash
               [] e.kind = "payment" -> e.hash \in db.payments
               [] e.kind = "salvage" \/ Clashes(e) -> FALSE
               [] OTHER -> e.ledger < db.cursor

\* A ledger behind the cursor has all its events in the database: no rollback,
\* lost answer or restart takes the cursor past an event that was not written.
NothingSkipped == \A i \in 1..Len(emitted) :
    emitted[i].ledger < db.cursor => Cached(emitted[i])

\* Friends on chain are friends in the feed: once the indexer is past the last
\* friend event and it made two users friends, their row is ACCEPTED, whatever
\* requests were made through the API and however often the ledger was read.
FriendsFollowChain ==
    Befriended /\ LastFriend.ledger < db.cursor => db.friends[PairOf(LastFriend.user)] = "ACCEPTED"

Written(i) == i <= Len(emitted) => Cached(emitted[i])
\* Some event on chain is not in the database.
Behind == \E i \in 1..MaxEvents : ~Written(i)
\* Every statement an event calls for succeeds, also when the event is read
\* again: it is no deposit or withdrawal, no salvage, and registers no name that
\* another row of users has.
Tolerated(e) == e.kind \notin YieldKinds \cup {"salvage"} /\ ~Clashes(e)
AllTolerated == \A i \in 1..Len(emitted) : Tolerated(emitted[i])
Sweeping == sw.phase # "idle"
=============================================================================
