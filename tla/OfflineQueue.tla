---------------------------- MODULE OfflineQueue ----------------------------
(***************************************************************************)
(* The mobile app's offline transaction queue: sending a transaction with  *)
(* a fallback to a queue in AsyncStorage, the NetInfo listener, and the    *)
(* flush that replays the queue.  JavaScript runs one continuation at a    *)
(* time, so every action is the code between two awaits; AsyncStorage      *)
(* holds the whole queue under one key, which callers read, change in      *)
(* memory and write back.                                                  *)
(*                                                                         *)
(* Abstracted: request bodies and tokens; time, to the set of back-offs    *)
(* that are over (nextRetryAt is fixed by the transaction and its number   *)
(* of failures); storage errors, which readQueue and writeQueue swallow,   *)
(* are left out.                                                           *)
(***************************************************************************)
EXTENDS Integers, Sequences

CONSTANTS
    Txs,        \* transactions the user sends
    MaxRetries, \* MAX_RETRIES
    MaxKills,   \* bound: how often the system kills the app
    Overlaps    \* may an enqueue run while a flush or another enqueue does?

ASSUME QueueAssumption ==
    /\ MaxRetries \in Nat \ {0}
    /\ MaxKills \in Nat
    /\ Overlaps \in BOOLEAN

VARIABLES
    queue,      \* AsyncStorage: the queued items, oldest first
    online,     \* what NetInfo reports
    was,        \* _wasConnected, where "null" is the value after launch
    booted,     \* whether startOfflineQueueSync's first NetInfo.fetch resolved
    call,       \* progress of sendTransactionWithOfflineSupport per transaction
    seen,       \* the queue an enqueue has read and not yet written back
    flush,      \* the flush: phase, its time, items left to look at, items to keep
    elapsed,    \* the clock: back-offs <<transaction, failures>> that are over
    kills,      \* how often the app was killed
    sends,      \* history: how often a flush transmitted each transaction
    answers,    \* history: how often a flush got a final answer for it
    dropped     \* history: transactions given up after MaxRetries

callVars == <<call, seen>>
netVars == <<online, was, booted>>
history == <<sends, answers, dropped>>
queueVars == <<queue, netVars, callVars, flush, elapsed, kills, history>>

Items == [tx : Txs, tries : 0..(MaxRetries - 1)]

\* No flush: _isFlushing is false.
NoFlush == [pc |-> "idle", now |-> {}, todo |-> <<>>, kept |-> <<>>]

TxsIn(q) == {q[i].tx : i \in DOMAIN q}

QueueInit ==
    /\ queue = <<>>
    /\ online \in BOOLEAN /\ was = "null" /\ booted = FALSE
    /\ call = [t \in Txs |-> "new"]
    /\ seen = [t \in Txs |-> <<>>]
    /\ flush = NoFlush
    /\ elapsed = {}
    /\ kills = 0
    /\ sends = [t \in Txs |-> 0]
    /\ answers = [t \in Txs |-> 0]
    /\ dropped = {}

-----------------------------------------------------------------------------
(***************************************************************************)
(* sendTransactionWithOfflineSupport.                                      *)
(***************************************************************************)

CheckNetwork(t) ==
    /\ call[t] = "new"
    /\ call' = [call EXCEPT ![t] = IF online THEN "direct" ELSE "enqueue"]
    /\ UNCHANGED <<queue, netVars, seen, flush, elapsed, kills, history>>

\* apiFetch returns any HTTP answer, or throws on a network error.
DirectRequest(t) ==
    /\ call[t] = "direct"
    /\ \E next \in {"sent", "enqueue"} : call' = [call EXCEPT ![t] = next]
    /\ UNCHANGED <<queue, netVars, seen, flush, elapsed, kills, history>>

\* Nobody else is between reading the stored queue and writing it back.
StorageIsQuiet ==
    /\ flush.pc \in {"idle", "reading"}
    /\ \A t \in Txs : call[t] # "appending"

\* enqueueTransaction reads the queue ...
EnqueueRead(t) ==
    /\ call[t] = "enqueue"
    /\ Overlaps \/ StorageIsQuiet
    /\ call' = [call EXCEPT ![t] = "appending"]
    /\ seen' = [seen EXCEPT ![t] = queue]
    /\ UNCHANGED <<queue, netVars, flush, elapsed, kills, history>>

\* ... and writes what it read with the new item at the end.
EnqueueWrite(t) ==
    /\ call[t] = "appending"
    /\ call' = [call EXCEPT ![t] = "queued"]
    /\ queue' = Append(seen[t], [tx |-> t, tries |-> 0])
    /\ seen' = [seen EXCEPT ![t] = <<>>]
    /\ UNCHANGED <<netVars, flush, elapsed, kills, history>>

-----------------------------------------------------------------------------
(***************************************************************************)
(* startOfflineQueueSync and flushQueue.                                   *)
(***************************************************************************)

\* mutant: a second flush starts over a running one
FlushCalledAgain == [flush EXCEPT !.pc = "reading"]

\* flushQueue returns at once while _isFlushing.
FlushCalled == IF flush.pc = "idle" THEN [flush EXCEPT !.pc = "reading"] ELSE flush

\* mutant: _wasConnected is updated before it is compared
ReconnectedLate == online' /\ was' = "offline"

\* Only going from offline to online starts a flush.
Reconnected == online' /\ was = "offline"

NetworkChange ==
    /\ online' = ~online
    /\ was' = IF online' THEN "online" ELSE "offline"
    /\ flush' = IF Reconnected THEN FlushCalled ELSE flush
    /\ UNCHANGED <<queue, booted, callVars, elapsed, kills, history>>

\* The first NetInfo.fetch after launch flushes when the device is online.
InitialFetch ==
    /\ ~booted
    /\ booted' = TRUE
    /\ was' = IF online THEN "online" ELSE "offline"
    /\ flush' = IF online THEN FlushCalled ELSE flush
    /\ UNCHANGED <<queue, online, callVars, elapsed, kills, history>>

FlushRead ==
    /\ flush.pc = "reading"
    /\ Overlaps \/ StorageIsQuiet
    /\ flush' = IF queue = <<>> THEN NoFlush
                ELSE [pc |-> "sending", now |-> elapsed, todo |-> queue, kept |-> <<>>]
    /\ UNCHANGED <<queue, netVars, callVars, elapsed, kills, history>>

\* mutant: an item that may not be retried yet is left out of the new queue
KeepNothing(kept, item) == kept

\* The item goes to the queue that will be written back.
Keep(kept, item) == Append(kept, item)

\* nextRetryAt <= now, where now is the time at which the flush began.
IsDue(item) == item.tries = 0 \/ <<item.tx, item.tries>> \in flush.now

\* An item whose back-off is not over is kept as it is.
FlushSkip ==
    /\ flush.pc = "sending" /\ flush.todo # <<>>
    /\ ~IsDue(Head(flush.todo))
    /\ flush' = [flush EXCEPT !.todo = Tail(@), !.kept = Keep(@, Head(flush.todo))]
    /\ UNCHANGED <<queue, netVars, callVars, elapsed, kills, history>>

\* mutant: the item stays in the queue after it was sent
KeptAnyway(item) == [flush EXCEPT !.todo = Tail(@), !.kept = Append(@, item)]

\* transmit returned true (2xx, or 4xx, which no retry would change): the item
\* is not kept.
NotKept(item) == [flush EXCEPT !.todo = Tail(@)]

FlushAnswered ==
    /\ flush.pc = "sending" /\ flush.todo # <<>>
    /\ LET item == Head(flush.todo) IN
       /\ IsDue(item)
       /\ flush' = NotKept(item)
       /\ sends' = [sends EXCEPT ![item.tx] = @ + 1]
       /\ answers' = [answers EXCEPT ![item.tx] = @ + 1]
    /\ UNCHANGED <<queue, netVars, callVars, elapsed, kills, dropped>>

\* mutant: one retry too many
GivesUpLate(n) == n > MaxRetries

\* newRetryCount >= MAX_RETRIES
GivesUp(n) == n >= MaxRetries

\* transmit returned false (5xx or a network error; the server may have acted).
FlushFails ==
    /\ flush.pc = "sending" /\ flush.todo # <<>>
    /\ LET item == Head(flush.todo) IN
       /\ IsDue(item)
       /\ sends' = [sends EXCEPT ![item.tx] = @ + 1]
       /\ \/ /\ GivesUp(item.tries + 1)
             /\ flush' = [flush EXCEPT !.todo = Tail(@)]
             /\ dropped' = dropped \cup {item.tx}
             /\ UNCHANGED elapsed
          \/ /\ ~GivesUp(item.tries + 1)
             /\ flush' = [flush EXCEPT !.todo = Tail(@),
                                       !.kept = Append(@, [item EXCEPT !.tries = @ + 1])]
             /\ elapsed' = elapsed \ {<<item.tx, item.tries + 1>>}
             /\ UNCHANGED dropped
    /\ UNCHANGED <<queue, netVars, callVars, kills, answers>>

\* mutant: the kept items are added to what is stored
StoredBesides == queue \o flush.kept

\* The kept items replace the whole stored queue.
StoredInstead == flush.kept

FlushWrite ==
    /\ flush.pc = "sending" /\ flush.todo = <<>>
    /\ queue' = StoredInstead
    /\ flush' = NoFlush
    /\ UNCHANGED <<netVars, callVars, elapsed, kills, history>>

-----------------------------------------------------------------------------
(***************************************************************************)
(* Time and the operating system.                                          *)
(***************************************************************************)
BackoffElapses ==
    \E t \in Txs, n \in 1..(MaxRetries - 1) :
        /\ <<t, n>> \notin elapsed
        /\ \E q \in {queue, flush.kept} : \E i \in DOMAIN q : q[i] = [tx |-> t, tries |-> n]
        /\ elapsed' = elapsed \cup {<<t, n>>}
        /\ UNCHANGED <<queue, netVars, callVars, flush, kills, history>>

\* The app is killed: only AsyncStorage survives.
Kill ==
    /\ kills < MaxKills
    /\ kills' = kills + 1
    /\ was' = "null" /\ booted' = FALSE
    /\ call' = [t \in Txs |-> IF call[t] \in {"direct", "enqueue", "appending"}
                              THEN "gone" ELSE call[t]]
    /\ seen' = [t \in Txs |-> <<>>]
    /\ flush' = NoFlush
    /\ UNCHANGED <<queue, online, elapsed, history>>

FlushStep == FlushRead \/ FlushSkip \/ FlushAnswered \/ FlushFails \/ FlushWrite

QueueNext ==
    \/ \E t \in Txs : CheckNetwork(t) \/ DirectRequest(t) \/ EnqueueRead(t) \/ EnqueueWrite(t)
    \/ NetworkChange \/ InitialFetch
    \/ FlushStep
    \/ BackoffElapses \/ Kill

QueueSpec == QueueInit /\ [][QueueNext]_queueVars

\* Continuations of the event loop run, back-off ends, and the device keeps
\* losing and regaining its connection, without which a queued item that failed
\* once is never looked at again.
FairQueueSpec ==
    /\ QueueSpec
    /\ WF_queueVars(FlushStep) /\ WF_queueVars(InitialFetch) /\ WF_queueVars(BackoffElapses)
    /\ WF_queueVars(NetworkChange)
    /\ \A t \in Txs : WF_queueVars(EnqueueWrite(t))

-----------------------------------------------------------------------------
\* Everything stored or held by a flush is an item with retries left.
QueueTypeOK ==
    /\ queue \in Seq(Items)
    /\ online \in BOOLEAN /\ booted \in BOOLEAN /\ was \in {"null", "online", "offline"}
    /\ call \in [Txs -> {"new", "direct", "sent", "enqueue", "appending", "queued", "gone"}]
    /\ seen \in [Txs -> Seq(Items)]
    /\ flush.pc \in {"idle", "reading", "sending"}
    /\ flush.todo \in Seq(Items) /\ flush.kept \in Seq(Items)
    /\ elapsed \subseteq Txs \X Nat /\ flush.now \subseteq Txs \X Nat
    /\ kills \in 0..MaxKills
    /\ sends \in [Txs -> Nat] /\ answers \in [Txs -> Nat]
    /\ dropped \subseteq Txs

\* A transaction the user was told is queued is stored, finally answered, or
\* given up after MAX_RETRIES, across reconnects and kills of the app: api.ts
\* says that it "is replayed on reconnection".
NothingLost ==
    \A t \in Txs : call[t] = "queued" =>
        \/ t \in TxsIn(queue)
        \/ answers[t] > 0
        \/ t \in dropped

\* A transaction is in the queue once at most, so no flush sends it twice, and
\* what a direct request delivered is never queued as well.
QueuedOnce ==
    /\ \A i, j \in DOMAIN queue : queue[i].tx = queue[j].tx => i = j
    /\ \A t \in Txs : call[t] = "sent" => t \notin TxsIn(queue)

\* A transaction is sent MAX_RETRIES times at most, and once more for each time
\* the app was killed before it could write down that it had tried.
SendsAreBounded == \A t \in Txs : sends[t] <= MaxRetries + kills

\* After a final answer a transaction is sent again only if the app was killed
\* before the flush could take it out of the queue.
AnsweredOnce == \A t \in Txs : answers[t] <= 1 + kills

\* What enqueueTransaction and flushQueue promise the server: one entry per
\* transaction, a bounded number of requests, one answer, and each of them
\* exceeded only by as much as kills of the app explain.
SentOnce == QueueTypeOK /\ QueuedOnce /\ SendsAreBounded /\ AnsweredOnce

\* Every queued transaction is answered or given up in the end.
QueueDrains == \A t \in Txs : call[t] = "queued" ~> (answers[t] > 0 \/ t \in dropped)
=============================================================================
