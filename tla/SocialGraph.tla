---------------------------- MODULE SocialGraph ----------------------------
(***************************************************************************)
(* The social_graph Soroban contract: friendships kept as one storage      *)
(* entry per ordered pair of accounts, a running friend count per account  *)
(* that bounds storage, and the FriendAdded / FriendRemoved events the     *)
(* backend's indexer replays.                                              *)
(*                                                                         *)
(* A contract invocation is atomic: an Err return or a panic reverts every *)
(* write, so a call that fails is a stuttering step and only the calls     *)
(* that succeed are actions.  require_auth() fixes who may call: the first *)
(* argument of every entry point is the account that signed.               *)
(***************************************************************************)
EXTENDS Integers, Sequences, FiniteSets

CONSTANTS
    Users,         \* accounts
    MAX_FRIENDS,   \* the contract's bound on active friends of one account
    MaxEvents      \* model bound on the length of the event log

ASSUME MaxFriendsAssumption == MAX_FRIENDS \in Nat \ {0}
ASSUME MaxEventsAssumption == MaxEvents \in Nat
ASSUME UsersAssumption == IsFiniteSet(Users)

VARIABLES
    friendship,   \* DataKey::Friendship(user, friend), per ordered pair
    friendCount,  \* DataKey::UserFriendCount(user)
    events        \* every event published so far, oldest first

graphVars == <<friendship, friendCount, events>>

Pairs == Users \X Users

\* "None" is a storage entry that does not exist.
FriendshipStatus == {"None", "Pending", "Active", "Removed"}

Event == [topic : {"FriendAdded", "FriendRemoved"}, a : Users, b : Users]

FriendAdded(a, b) == [topic |-> "FriendAdded", a |-> a, b |-> b]
FriendRemoved(a, b) == [topic |-> "FriendRemoved", a |-> a, b |-> b]

GraphInit ==
    /\ friendship = [p \in Pairs |-> "None"]
    /\ friendCount = [u \in Users |-> 0]
    /\ events = <<>>

\* is_friend: both directions of the relationship are Active.
IsFriend(user, friend) ==
    /\ friendship[<<user, friend>>] = "Active"
    /\ friendship[<<friend, user>>] = "Active"

-----------------------------------------------------------------------------
(***************************************************************************)
(* The parts of the entry points.  An operator whose comment says          *)
(* "mutant" is a plausible bug in the part below it; it is used only to    *)
(* show that the properties notice such a bug.                             *)
(***************************************************************************)

\* mutant: an open request in the other direction is not looked at
MayRequestOneSided(user, friend) ==
    user # friend /\ friendship[<<user, friend>>] \notin {"Active", "Pending"}

\* request_friend's checks: not oneself, neither friends nor already asked,
\* and no request from the other party that should be accepted instead.
MayRequest(user, friend) ==
    /\ user # friend
    /\ friendship[<<user, friend>>] \notin {"Active", "Pending"}
    /\ friendship[<<friend, user>>] # "Pending"

\* mutant: any relationship that is not a friendship can be accepted
RequestIsOpenOrAbsent(requester, friend) ==
    requester # friend /\ friendship[<<requester, friend>>] # "Active"

\* accept_friend's and reject_friend's check.
RequestIsOpen(requester, friend) == friendship[<<requester, friend>>] = "Pending"

\* accept_friend's bound, for both parties.
BothHaveRoom(requester, friend) ==
    /\ friendCount[requester] < MAX_FRIENDS
    /\ friendCount[friend] < MAX_FRIENDS

\* accept_friend reads both counts before it writes either.
OneMoreFriend(S) ==
    [u \in Users |-> IF u \in S THEN friendCount[u] + 1 ELSE friendCount[u]]

\* remove_friend decrements a count only if it is positive.
OneFriendLess(S) ==
    [u \in Users |-> IF u \in S /\ friendCount[u] > 0
                    THEN friendCount[u] - 1 ELSE friendCount[u]]

\* mutant: the counts move whatever the relationship was
CountsAfterRemoveAlways(user, friend) == OneFriendLess({user, friend})

\* The counts after remove_friend: they move only if the two were friends.
CountsAfterRemove(user, friend) ==
    IF IsFriend(user, friend) THEN OneFriendLess({user, friend}) ELSE friendCount

\* mutant: only the caller's direction is marked
MarkOneWay(user, friend, status) == [friendship EXCEPT ![<<user, friend>>] = status]

\* Both directions of a relationship are set to the same status.
MarkBothWays(user, friend, status) ==
    [friendship EXCEPT ![<<user, friend>>] = status, ![<<friend, user>>] = status]

\* mutant: the removal of an established friendship is not published
PublishUnlessFriends(user, friend) ==
    IF IsFriend(user, friend) THEN events ELSE Append(events, FriendRemoved(user, friend))

\* remove_friend publishes FriendRemoved whether or not there was a friendship.
PublishRemoved(user, friend) == Append(events, FriendRemoved(user, friend))

-----------------------------------------------------------------------------
(***************************************************************************)
(* The entry points, one action each.                                      *)
(***************************************************************************)

\* request_friend(user, friend), signed by user.
RequestFriend(user, friend) ==
    /\ MayRequest(user, friend)
    /\ friendship' = [friendship EXCEPT ![<<user, friend>>] = "Pending"]
    /\ UNCHANGED <<friendCount, events>>

\* accept_friend(friend, requester), signed by friend, the recipient.
AcceptFriend(friend, requester) ==
    /\ RequestIsOpen(requester, friend)
    /\ BothHaveRoom(requester, friend)
    /\ Len(events) < MaxEvents
    /\ friendCount' = OneMoreFriend({requester, friend})
    /\ friendship' = MarkBothWays(requester, friend, "Active")
    /\ events' = Append(events, FriendAdded(requester, friend))

\* reject_friend(friend, requester), signed by friend: the entry is deleted.
RejectFriend(friend, requester) ==
    /\ RequestIsOpen(requester, friend)
    /\ friendship' = [friendship EXCEPT ![<<requester, friend>>] = "None"]
    /\ UNCHANGED <<friendCount, events>>

\* remove_friend(user, friend), signed by user.  It has no precondition: with
\* no friendship it still marks both directions Removed and publishes the
\* event, whatever was there (a pending request in either direction, nothing,
\* or user = friend).
RemoveFriend(user, friend) ==
    /\ Len(events) < MaxEvents
    /\ friendCount' = CountsAfterRemove(user, friend)
    /\ friendship' = MarkBothWays(user, friend, "Removed")
    /\ events' = PublishRemoved(user, friend)

GraphNext ==
    \E u, v \in Users :
        \/ RequestFriend(u, v)
        \/ AcceptFriend(u, v)
        \/ RejectFriend(u, v)
        \/ RemoveFriend(u, v)

GraphSpec == GraphInit /\ [][GraphNext]_graphVars

-----------------------------------------------------------------------------
\* The accounts whose entry from u is Active.
ActiveFriends(u) == {v \in Users : friendship[<<u, v>>] = "Active"}

\* Every variable has its type: the statuses of friendship entries, counts
\* that are naturals (the u32 never wraps), and well-formed events.
GraphTypeOK ==
    /\ friendship \in [Pairs -> FriendshipStatus]
    /\ friendCount \in [Users -> Nat]
    /\ events \in Seq(Event)

\* A friendship is mutual: after any sequence of requests, acceptances,
\* rejections and removals, one direction is Active only with the other, and
\* nobody is a friend of themselves.
FriendshipIsMutual ==
    \A u, v \in Users :
        friendship[<<u, v>>] = "Active" =>
            /\ friendship[<<v, u>>] = "Active"
            /\ u # v

\* Two accounts never hold competing requests, and a request is never open
\* beside an established friendship: request_friend, accept_friend and
\* remove_friend leave one answer to "what is between these two".
NoCompetingRequests ==
    \A u, v \in Users :
        friendship[<<u, v>>] = "Pending" =>
            /\ friendship[<<v, u>>] \notin {"Pending", "Active"}
            /\ u # v

\* One answer to "what is between these two" at any time: request_friend and
\* accept_friend each look at one of the two entries, and it takes both
\* promises to know that the other one fits.
Unambiguous == FriendshipIsMutual /\ NoCompetingRequests

\* The running count, which accept_friend and remove_friend maintain without
\* ever looking at the entries, is exactly the number of active friends.
CountIsExact ==
    \A u \in Users : friendCount[u] = Cardinality(ActiveFriends(u))

\* No account holds more than MAX_FRIENDS active friends, the bound
\* accept_friend enforces for both parties.
StorageIsBounded ==
    \A u \in Users : Cardinality(ActiveFriends(u)) <= MAX_FRIENDS

\* Event i is about the pair of accounts u and v, in either order.
IsAbout(e, u, v) == {e.a, e.b} = {u, v}

\* The event log alone determines the graph: two accounts are friends exactly
\* when the latest event about them is a FriendAdded, so an indexer that
\* replays the log in order rebuilds the contract's state.
LogDeterminesGraph ==
    \A u, v \in Users :
        IsFriend(u, v) <=>
            \E i \in 1..Len(events) :
                /\ events[i].topic = "FriendAdded"
                /\ IsAbout(events[i], u, v)
                /\ \A j \in (i + 1)..Len(events) : ~IsAbout(events[j], u, v)

\* Consent: a step that makes two accounts friends answers a request one of
\* them had open, so neither can be befriended without having asked for or
\* accepted it.
FriendshipNeedsConsent ==
    [][\A u, v \in Users :
          ~IsFriend(u, v) /\ IsFriend(u, v)' =>
              \/ friendship[<<u, v>>] = "Pending"
              \/ friendship[<<v, u>>] = "Pending"]_graphVars
=============================================================================
