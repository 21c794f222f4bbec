# Zaps: TLA+ models, checks and proofs

Zaps is a social payment product on Stellar: six Soroban contracts (Rust), a
backend (Rust, PostgreSQL, Redis) that indexes their events and runs bulk
payouts, a mobile app (React Native) and a merchant dashboard (Next.js). This
directory models the parts whose correctness depends on orders of events that
tests hardly reach, checks them with TLC on small instances, and proves with
TLAPS every safety property that the passing runs check, for every size of the
system, some under a hypothesis that section 6 names. Liveness is model-checked
only.

Contents: 1 the system, 2 the modules, 3 the runs, 4 fairness, 5 findings and
settings that violate a property, 6 theorems, 7 what the models made visible, 8
not modelled, 9 plan, 10 running.

## 1. The system

### Components

| Component | State | Operations | Module |
|---|---|---|---|
| `social_graph` contract | entry per ordered pair, friend count, published events | request, accept, reject, remove | `SocialGraph` |
| `user_registry` contract | two copies of name <-> address, deposits in escrow, DID <-> wallet, admin, fees | registration, update with refund, deletion, DID link / rotation / recovery, admin, rescue | `UserRegistry` |
| `naira_token` contract | balances, allowances, blacklist, pause, supply, admin | mint, burn, transfer, approve, `*_from`, administration | `NairaToken` |
| `allbridge_receiver` contract | processed hashes and sequence numbers, authority | `receive_deposit`, `receive_message`, salvage | `BridgeReceiver` on `NairaToken` |
| `yield_vault` contract | shares, assets, principal, yield index, queued rate, fee, caps | deposit, withdraw, emergency exits, rate with timelock, settings | `YieldVault` |
| Bulk payouts | `payout_batches`, `batch_recipients`, lock keys, each worker's locals | upload, claim, dispatch, mark, settle, webhook | `Disbursement` |
| Event indexer, auto-sweep worker, yield and friend endpoints | cursor, `yield_transactions`, balances, `payments`, `friendships`, failure back-off | poll, guarded batch, sweep, API calls, restart | `YieldSync` |
| Mobile offline queue | queue in AsyncStorage, `_isFlushing`, `_wasConnected` | send with fallback, flush, NetInfo listener | `OfflineQueue` |
| Mobile: keychain, keys, PIN, biometric guard, API client | SecureStore and AsyncStorage entries, prompts | rotation, key jobs, guard, session, resolution | `MobileKeychain`, `MobileKeys`, `BiometricGuard`, `MobileApi` |
| Mobile: account screens and shell services | typed forms, cached profile, consent, notices, contacts, crash queue, theme | | `MobileAccount`, `MobileShell` |
| Mobile: screens that show and move money | React state, requests on the wire, timers | transfer, lists, home, history, codes, bridge, claims, merchant | `MobileTransfer`, `MobileBatch`, `MobileHome`, `MobileHistory`, `MobileScan`, `MobileFunding`, `MobileMerchant` |
| Dashboard: session and API client | tokens in localStorage and cookies, shared refresh | request with refresh and replay, login, Privy, sign-out, guards | `DashboardSession` |
| Dashboard: pages | React state, requests on the wire, timers, the page's address | payouts, vault parameters, audit, search, administration, polling, frame | `DashboardPayouts`, `DashboardVault`, `DashboardAudit`, `DashboardBrowse`, `DashboardAdmin`, `DashboardPolling`, `DashboardShell` |
| `social_payment` contract, username cache, RPC failover, bridge proxy, sessions of the backend, notifications, presentation | | | see 8 |

`components` in `PROJECT.json` has each part with its sources, its status and
what is left out of it.

### How they interact

The contracts call token contracts synchronously; a call that panics reverts
everything it wrote, so one entry point is one atomic step and a failing call
is a stuttering step. The backend never calls the contracts while it indexes
them: it reads their events ledger by ledger and applies them to its tables, a
batch and its cursor in one transaction. Payout workers are processes that share
nothing but the database and, optionally, Redis; each SQL statement or explicit
transaction is atomic and everything between two of them interleaves with the
other workers, the upload that is still inserting rows, and the webhook. The
sweep worker deposits on chain first and books after, and the indexer sees the
same deposit as an event.

The mobile app and the dashboard are single threaded: code between two `await`s
is atomic, answers and timers come in any order, and nothing stops the user from
pressing, editing or going back while one is out. What a screen keeps in memory
is lost when it is unmounted or the app is ended; what it has written stays.
Screens share no state except through storage or the server, and that shared
state is modelled where it is kept (keychain, session, queue, page address).

### What is hard, and the property that would show it going wrong

* **Paying twice.** A lost answer of the disbursement platform (SDP), a lease
  that runs out under a live worker, a crash between dispatch and mark:
  `PaidAtMostOnce`, `RowsAreWorkedOnce`. A relayer that repeats or renumbers a
  deposit: `CreditedOnce`. The app killed in a flush: `SentOnce`. A double
  press, a back step or a second file while a payment is out:
  `PaysWhatWasMeant`, `ActsAsReviewed`. An indexer that reads a ledger again:
  `LedgerFollowsChain`.
* **Losing work.** A batch settled with rows pending: `EveryBatchSettles`. A
  queued transaction overwritten: `NothingLost`, `QueueDrains`. An event the
  cursor jumped over: `LedgerFollowsChain`, `BackendGoesOn`. A spinner that never
  ends: `CallsSettle`, `WorkEnds`.
* **Copies drifting apart**: `CountersMatchRows`, `CountIsExact`,
  `SupplyIsExact`, `EscrowCoversDeposits`, `NamesAgree`, `DidsAgree`,
  `VaultBalances`.
* **Stale answers**: `ShownIsCurrent`, `ScreensFollow`, `AnswersConverge`.
* **Being cut off between two writes**: `RotationIsInvisible`, `PhoneRemembers`.
* **What others may conclude**: `LogDeterminesGraph`, `ShownMeansAccepted`,
  `SettledIsFinal`, `PausedMeansStill`, `DropsAreAuthorised`,
  `FriendshipNeedsConsent`, `RateIsHonest`, `SessionIsTheUsers`, `UserIsProved`.

`hazards` in `PROJECT.json` lists them at the lines where each one bites.

## 2. Modules and their correspondence to the code

`map` in `PROJECT.json` gives the source lines of every definition. In each
module an operator marked "mutant" is a plausible wrong version of the one
below it; no action uses it. Putting it in the original's place makes TLC report
the property named in `mutants`. A component's proofs are in a module of their
own that extends it; section 6 lists them. Properties that are conjunctions have one such
operator per named conjunct; `mutants` lists one of them.

### 2.1 Contracts

**SocialGraph.** `friendship[<<u, v>>]` is the storage entry of the ordered
pair, `friendCount` the running count, `events` the published log, bounded by
`MaxEvents`. `remove_friend` is modelled as written: without any precondition it
overwrites both directions and publishes an event, even for strangers and for an
account with itself. `LogDeterminesGraph` shows that this is harmless to a
reader who replays the log. Its specification is `GraphSpec`, so that its proofs
and those of `UserRegistry` can share a module; `OfflineQueue` has `QueueSpec`
for the same reason.

**UserRegistry.** The contract stores names twice, under struct keys
(`byAddress`, `byName`) and under enum keys (`user`, `username`); different entry
points read different copies, so both are variables. `escrow` is the contract's
balance per token, `paid` and `refunded` are histories. `disturbed` records that
an admin rescued the fee token or switched to another one, after which refunds
are paid in a token the deposits were not made in. `Symmetry` is for TLC only.
Left out: `upgrade`, which
replaces the code, avatars, TTL extension.

**NairaToken and BridgeReceiver.** `NairaToken` has one action per entry point
and `signer`, a history of who authorised the last movement. `BridgeReceiver`
EXTENDS it: the receiver is one of the token's accounts and `CreditRecipient`
contains the token's `Transfer`, so a paused token or an empty receiver disables
the whole step, as the panic reverts the replay marks. `receive_deposit` and
`receive_message` are one action: both end in `credit_recipient`, and a payload
that decodes is the deposit it encodes. A payout may also be made in some other
token the receiver holds (`stray`).

**YieldVault.** `pool` is the instance storage: shares, assets, index and the
ledger it was taken at, rate, queued rate with its activation, caps, fee,
treasury. Every call that moves money checkpoints the index first
(`Checkpointed`). Deposits are priced with virtual assets scaled by the index,
exits with plain ones, and both round down; the scales are constants so that the
rounding happens with small numbers. Built as deployed, without `mock-protocol`:
the external protocol's calls do nothing.

### 2.2 Backend

**Disbursement.** Sources: `api/bridge.rs` (`persist_batch`),
`services/disbursement_worker.rs`, `services/redis_cache.rs` (`BatchLock`),
`services/stellar.rs` (`SdpClient`), `api/payouts.rs` (reconciliation webhook)
and the migration that declares the tables and their CHECK constraints. A worker
is a record: its program counter walks `idle, poll, lock, claim, dispatch,
inflight, mark, progress, finalize, release`, and the other fields are the local
variables of `process_cycle` and `execute_batch_claim`, among them the attempt
counts read at claim time (`snap`). `RowLocked` is `FOR UPDATE SKIP LOCKED`. The
CHECK on the counters is a guard of the marks (`RoomForOneMore`), the CHECK on
`dispatch_logs.event` decides whether `RecordChunkProgress` can succeed
(`LoggableEvents`). Failures: `Crash` at any program counter, `DbError` on any
statement, failed uploads, `RedisError`, locks and leases that expire, requests
lost before or after SDP acts, callbacks delayed, lost, repeated or reordered,
and a webhook handler that dies between its statements. SDP is external and
modelled from its use: it pays at most once per `Idempotency-Key`, which
`idempotency_key_for` derives from the row id, and does not answer 4xx to a
request it has accepted. Not modelled: the dry-run mode without an API token;
concurrent webhook deliveries. `TimelyLeases` says that a live worker finishes
its claim within the lease timeout; the code does not guarantee it, so what
depends on it has its own run, and the two theorems that need it assume it.

**YieldSync.** The chain (`emitted`, ledgers that close) and the node are
external. `Poll` reads from the cursor, which is inclusive; `Commit` applies the
batch and moves the cursor in one transaction, `Rollback` does neither; an
answer of a commit may be lost, and the process may restart anywhere. The sweep
is `Submit`, a possible lost answer, `Book`. The API's deposit, withdrawal,
auto-earn switch and friend requests change the same rows in between. `db` is
the database, `ix` and `sw` are the two workers' locals. `Visible` is what the
node returns from the cursor on, `Page` as much of it as one answer holds. What a
batch does to the tables (`ProcessBatch`) and what the node returns are recursive
functions, one event per step as in the loops of the code. Two kinds of event
have a statement that can fail however often it is tried, and are emitted for
that reason: a salvage, inserted into a table `transactions` that no migration
creates, and the registration of a username that another row of `users` has
(`NameHolder` is whose it is there), since the upsert resolves conflicts on the
address only. The kinds that always succeed and write none of these tables
(`YieldRateUpdated`, `YieldAccrued`, registrations of a free name) are not emitted.

**Yield** puts vault and backend side by side: they share no state, since the
backend learns of the vault only through events, which `YieldSync` takes from
the chain as they come.

### 2.3 Mobile app

**OfflineQueue** (`offlineQueue.ts`, `api.ts`): one action per stretch of code
between two awaits. `flush` holds the local variables of `flushQueue`,
`flush.now` the time at which it began. `elapsed` abstracts the clock.
`Overlaps` says whether an enqueue may run between the read and the write of
another one or of a flush; the code does nothing to prevent it. Left out:
storage errors (swallowed by the code), removal of the listener at logout,
`removeFromQueue` (no caller).

**MobileKeychain and TokenStore.** `rotateSecureStorageKey` copies the tokens to
the other of two slots, switches the version and deletes the old slot, one
keychain call at a time; `MobileKeychain` can be killed between any two and any
call can fail. A write that fails ends the rotation. Reads and deletions that
fail are swallowed, as in the code: a version that cannot be read is 0
(`ActiveKeyVersions`), a token that cannot be read is none (`Given`), a deletion
leaves what it should delete (`DeleteItem`, `DeleteOld`). A misread can make the
rotation delete the only copy, or copy a leftover over the live token; the history
`doubted` has the keys such a read bore on. `TokenStore` is what callers
are promised: a key that was set is held until it is deleted or a read that bore
on it fails, and a held token never changes. `RotationIsInvisible` is the
refinement `Store!StoreSpec` with `value[k]` mapped to what `getRotatedToken`
returns when its own reads succeed.

**MobileKeys** writes key jobs call by call with kills; clipboard, backup quiz,
recovery, biometric screen and PIN are in the same module. **BiometricGuard**
has the service, one instance of the hook per component, the guard, the
settings and the payment dialog. **MobileApi** is the session in the keychain,
whose reads and deletions may fail unnoticed too (`undeleted` has the tokens a
deletion left behind), the 401 handling and the resolution of usernames.
**MobileAccount** and **MobileShell** are the account screens and the services
around the screens.
**MobileSecurity** runs these side by side.

**MobileTransfer**, **MobileBatch**, **MobileHome**, **MobileHistory**,
**MobileScan**, **MobileFunding**, **MobileMerchant** are the screens that show
and move money; **MobilePayments** runs them side by side. A request on the wire
is an element of a set (`payments`, `yieldCalls`, `loads`, ...), so answers are
overtaken by choosing another element. `initiating` in `MobileFunding` is the
attempt `fetchWithRetry` is at, since a repeated request may be executed twice.
An effect's cleanup is the part of an action that empties such a set; where the
code has none, late answers stay.

### 2.4 Dashboard

**DashboardSession** is the API client in one tab: requests that meet a 401 share
one refresh and are replayed once; a pair of credentials is the number of the
login or refresh that issued it. `Joins` and `Wakes` are the shared promise.
**DashboardPayouts** has the CSV upload with parsing, validation and review;
**DashboardVault** the parameter form signed through Freighter;
**DashboardAudit** the merged log and the rate history; **DashboardBrowse**
search, suggestions, address and dialog; **DashboardAdmin** wallet session,
blacklist, fee and pause; **DashboardPolling** `usePolling` and the alerts;
**DashboardShell** drawer, palette, copy buttons and QR generator.
**DashboardPages** runs them side by side.

### 2.5 Side by side

In `DashboardPages`, `MobilePayments`, `MobileSecurity` and `Yield` the parts
share no variable. A behaviour chooses a `part` (or `side`) in `Init` and follows
it while the others rest in their initial states, so the states are the sum of
the parts and not their product. Nothing is lost: for parts without common state
an invariant of each holds in the product, and the fairness of one part speaks of
its own variables only.

## 3. Runs

| Run | Bounds | States | Shows |
|---|---|---|---|
| `social_graph` | 3 accounts, `MAX_FRIENDS` = 1, 3 events | 196,332 | mutual, uncontested friendships, exact bounded counts, log determines graph, consent |
| `disb_timely` | 2 workers, 2 rows, 2 attempts, 1 fault, timely leases, no webhook | 78,004 | counters equal rows, one worker per row, bounded retries, every batch settles |
| `disb_hostile` | 2 workers, 1 row, upload in progress, Redis, early leases, 1 fault, 1 webhook | 946,317 | nobody paid twice, shown means accepted, settled is final |
| `user_registry` | 2 accounts, names, DIDs, tokens and fees, 3 registrations | 271,801 | indices inverse, no double refund, escrow covers deposits |
| `bridge_receiver` | 2 holders and the receiver, supply 2, 2 hashes, 2 numbers, 1 stray token | 714,720 | exact supply, deposits paid once, pause, authorised drops |
| `offline_queue` | 2 transactions, 3 attempts, 1 kill, no overlaps | 43,287 | nothing lost, sent and answered once, queue drains |
| `dashboard_session` | 2 calls of a page and the one of the login, 2 credentials | 153,900 | one refresh per token, fresh replays, sign-out holds, calls end |
| `dashboard_pages` | 13 parts; 2 uploads, 2 submits, 2 visits, 3 drawers, 3 polls, 2 edits | 127,263 | what is signed was reviewed, what is shown is current, polls converge, work ends |
| `mobile_payments` | 16 parts; 2 sends, 2 edits, 3 loads, 5 page reads, 2 quotes, 5 screens | 478,972 | payments authenticated and to whom was meant, screens follow, work ends |
| `mobile_security` | 15 parts; 2 sets and 3 rotations of 2 tokens, 4 key jobs, 4 crashes, 2 PIN attempts | 193,308 | storage survives kills and failed deletions, guards and payments are proved, rotation refines a store, work ends |
| `yield` | 2 depositors with 3 units each, a cap of 2, rates 0 and 2, 3 ledgers; 2 people, 2 events, 1 API call, 1 fault | 556,076 | vault solvent, rate announced, ledger explained, backend goes on |
| `indexer_stuck` | as `yield`, 1 depositor, no faults | about 3,000 | *violation*: a deposit read twice stops the indexer |

Properties made of several named parts:

* `Unambiguous`: `FriendshipIsMutual`, `NoCompetingRequests`.
* `RowsAreWorkedOnce`: `OneWorkerPerRow`, `RetriesAreBounded`.
* `SentOnce`: `QueuedOnce`, `SendsAreBounded`, `AnsweredOnce`.
* `TokensRotateOnce`: `RefreshSpentOnce`, `ReplayIsFresh`. `SessionIsTheUsers`:
  `CookieMeansToken`, `SignOutHolds`, `RoleIsLastLogin`.
* `ActsAsReviewed`: `SentRowsArePayable`, `SignedIsSound`, `ConfirmedEach`,
  `WalletWasGranted`, `BlacklistWasReviewed`, `PauseAsTyped`. `ShownIsCurrent`:
  `SignedChangesListed`, `ApyIsCurrent`, `DialogShowsItsUser`,
  `SuggestionsMatch`, `ReadStaysRead`, `ScrollRestored`, `CopiedIsTimed`.
  `AnswersConverge`: `PollsConverge`, `DataStays`.
* `PaysWhatWasMeant`: `AuthorisedEach`, `CardNamesRecipient`, `FeeIsCurrent`,
  `ConfirmedIsPayable`, `PostedIsPayable`, `TransfersPerPress`,
  `CollectsWhatWasEntered`.
  `ScreensFollow`: `YieldIsLatest`, `DrawerIsOfItem`, `ListIsPrefix`,
  `ResultIsOfToken`, `ScannerListens`, `TimersAreMounted`.
* `PhoneRemembers`: `TokenKept`, `ListedKeysAreDerived`, `PhraseIsTimed`,
  `StoredNameIsWellFormed`, `CachedProfileWasAccepted`, `RejectedIsNotStored`,
  `RecentsFollowLog`. `UserIsProved`: `PinProtects`, `GuardProves`,
  `PinsAreLimited`, `PaymentsAreProved`, `DisablingIsProved`. `ShellIsRight`:
  `DialogWasAskedFor`, `NotAskedAgain`, `GateIsRight`, `ContactsAreComplete`,
  `ReportsKept`, `ThemeIsRemembered`, `BackOnlineClosesOutage`.
* `VaultBalances`: `SharesAddUp`, `VaultIsSolvent`, `RoundTripLoses`,
  `PrincipalHasShares`. `RateIsHonest`: `RateWasAnnounced`, `IndexIsContinuous`.
  `LedgerFollowsChain`: `LedgerAddsUp`, `NothingSkipped`, `FriendsFollowChain`.
  `BackendGoesOn`: `SocialEventsAreCached`, `SweepsEnd`.

The type invariants of the modules that run side by side are conjuncts of one of
these; those of `SocialGraph`, `Disbursement`, `UserRegistry` and `BridgeReceiver`
are theorems.
Modules whose constants are sets of model values are run as they are; the others
have an `MC` module for constants a configuration cannot write.

### Why the bounds suffice

Every property of the graph, the registry and the receiver relates at most two
accounts (a third competes), and three registrations or events let a state be
left and entered again. Two workers and two rows are the least in which a row is
re-leased while its first worker lives and another row waits; `disb_hostile` has
one row because everything it checks is about one row, in exchange for all
failures. One fault is placed at every program counter. On the screens, two
requests of a kind are enough for one to overtake the other, and a third for an
overtaken one to be repeated; two users, files, tokens or names let one be
mistaken for the other. Three rotations return to the slot that was left, so
leftovers are overwritten, and two sets are the least in which a token is
replaced or deleted after the first; any read of any of them may fail. The vault's scales (`PRECISION` and `RateScale` 2, an
offset of 1) make every division of a deposit of 1 or 3 units round; three
ledgers let a rate be queued, wait and be applied between two deposits. Two
events, one of them replayed by the inclusive cursor, with one fault, are the
least in which a replay, a rollback and a restart meet.

Deadlock checking is off where only a named bound stops the model
(`social_graph`, the three side-by-side runs, `yield`). Symmetry is used in
`user_registry`, which checks no liveness property.

These switches keep a violating overlap out of a passing run: `Overlaps`
(`OfflineQueue`), `OverlapLoads` (`MobileHistory`), `OverlapPolls`
(`MobileFunding`), `OverlapDrops` (`DashboardPayouts`), `OverlapSearch`
(`DashboardBrowse`), `OverlapSets` (`MobileKeychain`: a token is set or deleted,
or a rotation begins, while a rotation or a deletion is under way); `SlowReads`,
`SlowStorage`, `EarlyPresses`, `OverlapPins`, `OverlapResolves` and
`HostileCrashes` do the same. Set to FALSE they assume that the user, the disk or
the server is not slower or faster than what the code was written for; section 5
says what breaks without them, and the theorems of section 6 assume them. One
more such assumption has no switch: `Start` of `MobileKeys` begins a key job only
when no other is under way, and `ListedKeysAreDerived` rests on it. The comment of
each property names the switches it depends on.

## 4. Fairness

* `disb_timely`: each worker's own steps (tokio schedules the loop, requests have
  a 30 s timeout, a crashed process is restarted by its supervisor), the running
  webhook handler, and time. Nothing of SDP or of faults.
* `offline_queue`: the event loop runs continuations, back-offs end, and the
  device keeps losing and regaining its connection: a flush starts only on the
  change from offline to online, so without reconnections an item that failed
  once is never looked at again.
* `dashboard_session`: the browser ends each request, with an answer or an error.
* `dashboard_pages`, `mobile_payments`, `mobile_security`: a request, prompt,
  parse or storage call that was started ends, with an answer or an error, and
  timers fire. Users are never assumed to do anything. Strong fairness is used
  only for polls of the current query: there is always one on the wire, though
  never the same one for long, and the server serves what keeps being asked.
* `yield`: ledgers close, both loops of the backend go on (each sleeps and
  repeats for ever), and each request ends. Nothing of users, of the API's
  callers or of what the node answers.

## 5. Findings and settings that violate a property

**Finding.** `indexer_stuck`: the indexer sets its cursor to the latest ledger
the node reports, and the next request starts at that ledger again. A vault
deposit in it is read twice, the second INSERT violates UNIQUE on `tx_hash`, the
batch rolls back and is repeated with the same cursor for ever; no later event is
cached. A salvage or a clashing registration blocks it in the same way, without a
second reading. `BackendGoesOn` shows that payments and friend events, whose
statements tolerate a replay, are not affected as long as none of these is on
chain (`AllTolerated`).

Stated in the modules, with the setting under which TLC reports a violation of
what a comment of the code says:

| Property | Setting | What happens |
|---|---|---|
| `EveryBatchSettles` | `disb_timely` with `MaxAttempts = ClaimSize = ChunkSize = 1`, `TimelyLeases = FALSE`, `MaxFaults = 0` | a row dispatched by two workers is counted twice, the CHECK on the counters then rejects every later mark; rows are dispatched past `max_attempts` and the batch stays open (disbursement_worker.rs:28, :591) |
| `NoRowLeftBehind` | 2 workers, 2 rows, `Preloaded = FALSE` | `persist_batch` inserts batch and rows without a transaction; a worker finds the batch empty and settles it (bridge.rs:491, disbursement_worker.rs:589) |
| `NoRowLeftBehind` | 1 worker, `ClaimSize = 2`, `ChunkSize = 1`, `MaxHooks = 1` | the webhook recounts CONFIRMED rows while `mark_submitted` increments the same counter (payouts.rs:556) |
| `CycleDrainsItsClaim` | `ClaimSize = 2`, `ChunkSize = 1`, no faults | `CHUNK_COMPLETED` is not in the CHECK list of `dispatch_logs`, so the cycle ends after its first chunk (disbursement_worker.rs:366, :193) |
| `FeesAreTracked` | as `user_registry` | `delete_profile` keeps the deposit entry and the next registration overwrites it (user_registry lib.rs:671, :169) |
| `NothingLost` | `Overlaps = TRUE`, `MaxKills = 0` | the read-modify-write of the stored queue across awaits loses a transaction (offlineQueue.ts:126, api.ts:448) |
| `ChecksEnd` | `UsernameNext` with weak fairness of its answers and timers | the debounce is cancelled by every render: "Checking availability..." may stay (username.tsx:92-96, :125, :214) |
| `NothingSkipped` | `YieldSync` with `PageSize = 1` | a full page of events cuts a ledger and the cursor jumps past the rest |
| `ListIsPrefix` | `OverlapLoads = TRUE` | a page of an older filter is appended |
| `PinProtects` | `SlowStorage = TRUE` | the biometric screen decides before the stored PIN was read |
| `PaymentsAreProved` | `EarlyPresses = TRUE` | a press while the status loads is let through |
| `PinsAreLimited` | `OverlapPins = TRUE` | two checks read the same number of attempts left |
| `RotationIsInvisible` | `OverlapSets = TRUE` | a token set during a rotation is lost with the old slot |
| `TokenNeverLost` | as `mobile_security` | a read that fails during a rotation counts as no token; the version switches and the only copy is deleted. Misread as 0, the version lets a leftover be copied over the live token, or a new token be written where no one reads (biometric.tsx:118-120, :199, :204, against the comments at :71 and :180) |
| `ListedKeysAreDerived` | `Start` without `job = NoJob` | two key jobs write into each other: each button of wallet-recovery.tsx has a flag of its own, and a screen left and opened again starts a second wallet |
| `RejectedIsNotStored` | without `undeleted` | a session whose deletion the keychain refuses is kept and sent again (api.ts:97) |
| `PostedIsPayable` | `SlowReads = TRUE` | a list can be submitted while its file is being read |
| `ActsAsReviewed` | `OverlapDrops = TRUE` | the verdict on a file parsed late is shown for the newer one, which is sent unchecked |
| `SuggestionsMatch` | `OverlapSearch = TRUE` | suggestions of an older text replace those of the newer |
| `WorkEnds` of `mobile_payments` | `OverlapPolls = TRUE` | a late poll of the bridge sets the view back after the last one ended the polling |
| `RecentsFollowLog` | `OverlapResolves = TRUE` | two resolutions read the same list and one recipient is lost |
| `ReportsKept` | `HostileCrashes = TRUE` | two reports read the same queue, or a read fails, and one is lost |
| `EmptyMeansNoMatch` | `dashboard_pages` with a second built-in deposit in `MCSeed` | an answer shortens the log under a page past its end |
| `NamesAreResolved`, `ShownCodesScan`, `DeletesEverything`, `QueuedIsDelivered`, `LeftoversAreBenign` | as in their runs | see 7 |

## 6. Theorems

All proofs are checked by TLAPS (13,906 obligations) from the named ASSUMEs on the
constants (finite sets of rows or accounts, `None` outside a set, natural
bounds), which TLC evaluates in every run. Some theorems have a hypothesis of
their own, and name it. With one exception (`PagesHold`, below) it fixes a switch
of section 3; section 5 shows what happens without it.

Loops and recursive functions are proved about without the library's induction
theorems, which cannot be instantiated here: had a function not the property
claimed, there would be a smallest index (or set) at which it fails, and the step
from the one before it contradicts that. The lemma `Smallest` is that fact
about sets of naturals.

* **SumTheorems.** `SumChange`: a sum over a finite set changes by as much as the
  one summand that changes. The sum is the community modules' fold, a recursive
  function on subsets. Registry, bridge, vault and ledger proofs rest on it.
* **ContractProofs**, the graph. `GraphTypeCorrect`; `UnambiguousAlways`
  (mutuality and the absence of competing requests are inductive only together:
  accepting a request creates a second Active entry, which is safe because no
  opposing request is open); `CountsAlwaysExact` (counting adds or removes one
  element of a finite set, so mutuality is needed to know that both counts
  change); `LogAlwaysDeterminesGraph`; `ConsentAlways`.
* **ContractProofs**, the registry. `TypeCorrect`, `NamesAlwaysAgree`,
  `DidsAlwaysAgree`, `NoDoubleRefund`, `EscrowAlwaysCovers`. Agreement of the two
  copies of the name maps is part of the invariant, since `delete_profile` decides
  on one copy what to remove from both. The escrow is compared with the sum of all
  recorded deposits: each registration, update and deletion changes one summand.
* **BridgeReceiverProofs.** `TypeCorrect`, `SupplyStaysExact`,
  `NoDepositPaidTwice`, `PausedStandsStill`, `NobodyLosesUnasked`. That a deposit
  is paid once needs that the replay marks are exactly the hashes and numbers of
  earlier payouts, both conjuncts of `CreditedOnce`.
* **DisbursementProofs.** `TypeCorrect`, `NobodyPaidTwice`,
  `ShownAlwaysAccepted`, `SettledStaysSettled`, for any number of workers, rows,
  faults and callbacks and without `TimelyLeases` or the Redis lock. The
  inductive invariant adds to the types: SDP's payments are exactly its known
  keys, one key per row (`OnePaymentPerKey`); whatever claims a success has a
  key behind it (`SuccessHasKey`); a worker that believes in an acceptance has a
  row in hand whose key SDP knows (`WorkerKnows`), which is what a late
  `mark_submitted` after a crash of a peer rests on; a running webhook has a
  batch (`HookHasBatch`). With `Timely` as hypothesis (leases outlive live
  workers, no webhook, the setting of `disb_timely`): `CountersAlwaysMatch` and
  `RowsAlwaysWorkedOnce`. `LeaseInv` adds that every row in a worker's hand is
  leased to it, not stale, PENDING and with the attempts read at the claim
  (`LeasesHold`), so that a mark moves exactly one row to one counter, and that a
  row is dispatched at most once more than its attempts and the faults together
  (`AttemptsCount`).
* **YieldProofs**, the vault. `BooksAlwaysBalance` and `RateIsAlwaysHonest` for
  every scale, offset and amount. `VaultInv` adds to the types that the index
  never falls below its start (`IndexAtLeastOne`), that a queued rate's activation
  follows the timelock (`QueuedInTime`), and that the vault holds its booked
  assets and no fewer of them than there are shares (`Backed`). Rounding is the
  argument: lemmas on `\div` show that a deposit's shares and an exit's assets both
  round in the vault's favour, so `Backed` survives every exchange.
* **YieldProofs**, the backend, for every list of events, set of savers and
  amounts, and any number of replays, rollbacks, lost answers, restarts, sweeps and
  API calls. `BalancesAlwaysAddUp`, without a hypothesis: `LedgerAddsUp`, the
  balances are those the rows explain. `LedgerAlwaysFollows`, with the hypothesis
  `[]PagesHold`: all of `LedgerFollowsChain`. `PagesHold` says that a page holds
  every event it was asked for, which the indexer never checks; with
  `PageSize = 1` `NothingSkipped` fails (section 5). It holds in `yield`, where a
  page is larger than any answer. `SyncInv` has a parameter, `"whole"` or `"cut"`
  pages, for the two theorems. It adds to the types: event `i` carries hash `i`,
  its ledger does not decrease with `i` (`ChainInv`); rows written by endpoints
  have numbers of their own (`Numbered`), so the endpoints' next one is new; the
  balances are the sums of the rows (`Booked`); and, for whole pages, every event
  behind the stored cursor is written (`AllWritten`); a batch in hand is in the
  order of the chain and has all events from its cursor up to some ledger
  (`HoldsUpTo`), whatever has happened since it was read; if the last friend event
  of the chain is an addition behind the cursor, the table says ACCEPTED
  (`FriendsFollow`), which survives the replay of an older removal because the
  batch that repeats it has the addition after it.
* **MobilePaymentsProofs.** `AlwaysPaysWhatWasMeant` and `ScreensAlwaysFollow` for
  all sixteen parts of `MobilePayments` (hypotheses `~OverlapLoads`,
  `~SlowReads`). `PaymentsInv` has one conjunct per part. Those that carry the
  argument: prompts and unspent authentications together are no more than the
  presses (`PayInv`); an estimate on the card or on the wire is of the present
  details (`FeeInv`); the loads on the wire are of the present filters, and a
  further page starts where the list ends (`LoadsInv`), so that the list is a
  prefix of what the filter lets through, whatever the length of the history; each
  attempt to start a bridge transfer but the one on the wire has created at most
  one (`BridgeInv`); a timer belongs to a screen on the stack, and screens have
  distinct ids (`MerchantInv`). `NothingIsEverLost` and `TransactionsAreSentOnce`
  of `OfflineQueue` (hypothesis `~Overlaps`): `QueueInv` says that at most one
  party writes the stored queue (`OneWriter`), that a flush's items are either
  still to be looked at, kept or sent (`FlushSplits`), and counts requests per
  item (`Counts`).
* **MobileSecurityProofs.** `KeychainIsAStore`: the keychain with rotation, kills
  and failing calls implements `TokenStore` (hypothesis `~OverlapSets`).
  `KeychainInv` says, of the keys on which no failed read has borne (`Trusted`),
  which of the slots hold the token at each step of a rotation (`VersionFollows`,
  `Copied`), so that the version always points at one that does; a rotation that
  misreads the version puts every key in doubt until it is set again, and what a
  failed deletion leaves behind is not read under a held key.
  `PhoneAlwaysRemembers`, `UserIsAlwaysProved` and `ShellIsAlwaysRight` for all
  fifteen parts of `MobileSecurity` (hypothesis `Orderly`, the six switches of the
  run set to FALSE). `KeysInv` says of every interrupted key job which accounts
  already have keys of which phrase, so that a listed account is derived unless a
  job was torn; `ContactInv` that the matches are those of the chunks asked so
  far; `CrashInv` that the stored queue has the latest reports, one per crash and
  in order; `TryInv` that wrong PINs and attempts left are bounded together;
  `RecentInv` that the stored recipients are the latest distinct ones of the log.
  `GateIsRight` compares versions by the first part in which they differ, and its
  lemma shows that the loop of `isVersionOutdated` computes that for any number of
  parts.
* **DashboardProofs.** `TokensAlwaysRotateOnce` and `SessionIsAlwaysTheUsers` for
  any set of page requests: the invariant says of each program counter which
  token a request holds and that a running refresh is the only holder of the
  newest. `AlwaysActsAsReviewed`, `ShownAlwaysCurrent` and `LoadedDataStays` for
  all thirteen parts of `DashboardPages` (hypotheses `~OverlapDrops`,
  `~OverlapSearch`). `PagesInv` has one conjunct per part, each with what makes
  it inductive: the verdict on display is the one of the file shown
  (`VerdictIsOfFile`), every signature has its confirmation (`OneSignature`),
  answers on the wire belong to this visit (`OnlyThisVisit`), results belong to
  the text searched (`ResultsMatch`), the tick of the review is the target's
  (`TickIsOfTarget`), and a cleanup knows what it undoes (`CleanUpKnows`). A step
  of one part leaves the conjuncts of the others alone.

Only model-checked is liveness: `EveryBatchSettles`, `QueueDrains`,
`CallsSettle`, `WorkEnds` of the three side-by-side runs, `PollsConverge` in
`AnswersConverge`, and `BackendGoesOn`. The prover has neither fairness reasoning
nor ENABLED. The finding of section 5 is a counterexample of TLC's.

## 7. What the models made visible

Behaviour of the code met while modelling it, kept in the model as it is and
without a run of its own.

* **Payouts.** The Redis lock is not renewed and names its holder by a process
  id that containers share; a worker that crashes at every dispatch exceeds
  `max_attempts`, since the attempt is counted afterwards; a CONFIRMED row is set
  back to SUBMITTED by a late `mark_submitted`. In the offline queue back-off
  breaks the FIFO order and the id of an item is not sent, so a repeated request
  cannot be recognised.
* **Yield.** A fresh database starts at ledger 0, which a node refuses. The
  contract emits a tuple where the parser looks for named fields, and `ApyUpdated`
  where the indexer expects `YieldRateUpdated`; the filter of contract ids has
  the social contracts only. The sweep's envelope has two of `deposit`'s three
  arguments and a UUID for an address. A lost sweep answer leads to a second
  deposit on chain; when the indexer is first, the sweep's booking fails on UNIQUE,
  the available balance is not reduced and is swept again. A user who turned
  auto-earn off after the list was read is still swept. The API's deposit never
  calls the vault. A replayed FriendRemoved deletes a friendship made through the
  API in between, and two crossing requests leave two rows. The vault's index
  grows without anybody paying the yield in; `set_max_apy` does not lower the rate
  in force.
* **Dashboard session.** Sign-out does not navigate; Privy users stay
  authenticated after it; a refresh in flight at sign-out brings the session back,
  and a late refusal clears a newer login. Two tabs do not share a refresh.
* **Dashboard pages.** The upload's success banner is never shown; a click on a
  batch crashes the page, because `usePolling` is called conditionally; a file of
  nothing but its header passes; leaving the tab during an upload allows the same
  one again. The vault form moves its index before signing and does not take it
  back; utilization 0 counts as 80; the confirmation survives edits. The audit
  table may say that nothing matches when a page is past the end
  (`EmptyMeansNoMatch`). The 2 s timer after a blacklist signature closes
  whichever drawer is open then. `EmergencyPauseControl` is never rendered.
* **Keychain and keys.** `api.ts` reads the bare keys only, so a rotation, which
  nobody calls, would log the user out; a failed read of the version counts as 0
  and one of a token as no token, and either can lose a token in a rotation
  (`TokenNeverLost`);
  a leftover of a rotation can be read again under a deleted key
  (`LeftoversAreBenign`), against the comment at biometric.tsx:62-70. Social
  recovery creates a phrase no screen shows; `deleteWallet` misses accounts beyond
  the count (`DeletesEverything`).
* **Transfers.** `StellarSdk` is not imported, so federation lookups always
  fail; a ZAPS ID is put into a payment unresolved (`NamesAreResolved`); a second
  press is a second payment; "failed" after submission invites another. An
  answer lost makes a distribution list be submitted again. The scanner refuses
  every code the receive screen shows (`ShownCodesScan`), and what it confirms is
  dropped, since the transfer screen reads no parameters.
* **Home and history.** A late fetch overwrites the balance, and a late or
  overtaken yield request the figures on the yield card (home.tsx:216-217, before
  the check at 251 that protects the sheet); a search answered late shows its
  results under a newer text; overlapping likes
  revert to the wrong count; the debounce applies older filters again; the first
  speed-up to end frees the button of another row; cached entries override fresh
  ones and renew their age.
* **Funding, lists, merchant.** A quote of older inputs lands after an edit; an
  answer of `initiate` lost on the way is requested again by `fetchWithRetry`,
  with nothing that lets the server recognise it, so one press may create several
  transfers (`TransfersPerPress` bounds them);
  leaving during `initiate` leaks the interval; `validateClaimToken` fails open.
  A failed read keeps the old rows under the new file's name; the total adds
  currencies. "Payment received" appears without a payment, and the timer runs on
  under "Scan instead".
* **Account and shell.** Availability of a name fails open and may be that of
  another name; a late cached profile overwrites typing; some screens have no
  route. Switching notifications off removes the token locally only; two toasts
  of one millisecond share an id; overlapping crash reports lose one, and the
  queue is flushed by the next crash only (`QueuedIsDelivered`,
  crashReporter.ts:53-54); "+234..." and "0..." hash differently.
* **Guard and API client.** Children are shown while the guard's status loads; a
  failed status read lets through; attempts are never reset; a late 401 of an old
  token clears a newer session.

## 8. Not modelled, and why

`social_payment` (nonces, fees, `batch_payout`, cooldowns) and the username cache
are next in the plan. Backend sessions and identity (`auth*.rs`, `privy_jwks.rs`)
are stateless checks around external providers. Feed, profile, social and admin
endpoints are single SQL statements. Notifications are I/O with a log table; the
yield checkpoints one idempotent statement per hour. RPC failover and the bridge
proxy keep little state; transaction encoding in `stellar.rs` is data conversion.
The NFC flow cannot be reached from the screens; the dashboard's overview page
does not compile; charts, cards, styling, animation and the marketing site are
presentation. CI, Docker, Kubernetes and the other migrations are configuration.
Contract TTLs and upgrades are outside every model. Two tabs of the dashboard and
two devices of one user are outside.

## 9. Plan

1. `SocialPayment` on `NairaToken`: nonces, fees as a pure function checked
   against exact division, `batch_payout`'s skip and fee rules.
2. The friendships table as a refinement of `SocialGraph` at the cursor, for which
   `LogDeterminesGraph` is the lemma; the username cache beside `UserRegistry`.
3. RPC failover and the bridge status poller.

## 10. Running

    tlc -workers 2 -config DisbTimely.cfg MCDisbursement
    tlc -workers 2 -config SocialGraph.cfg SocialGraph
    tlapm DisbursementProofs.tla

Each run's module and configuration are in `runs` of `PROJECT.json`. The longest
runs, `mobile_payments`, `yield` and `disb_hostile`, take about three minutes on
two cores; the longest proofs are `MobileSecurityProofs`, about seven minutes, and
`DisbursementProofs`, `DashboardProofs`, `MobilePaymentsProofs` and `YieldProofs`,
about three each.
