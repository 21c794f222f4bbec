--------------------------- MODULE ContractProofs ---------------------------
(***************************************************************************)
(* What two of the contracts keep for every set of accounts and every      *)
(* length of a history.  The social graph: friendships are mutual and      *)
(* agreed to, counts are exact, and the published events rebuild the       *)
(* graph.  The user registry: both lookups of names and both lookups of    *)
(* DIDs stay inverse, no user gets back more than he paid, and the escrow  *)
(* covers the deposits.                                                    *)
(***************************************************************************)
EXTENDS SocialGraph, UserRegistry, SumTheorems, FiniteSetTheorems, TLAPS

-----------------------------------------------------------------------------
(***************************************************************************)
(* The social graph.                                                       *)
(***************************************************************************)

(***************************************************************************)
(* The type invariant: every call of the contract keeps the statuses, the  *)
(* counts (as naturals: OneFriendLess never takes a count below zero) and the    *)
(* event log in their types.                                               *)
(***************************************************************************)
THEOREM GraphTypeCorrect == GraphSpec => []GraphTypeOK
<1>1. GraphInit => GraphTypeOK
  BY DEF GraphInit, GraphTypeOK, Pairs, FriendshipStatus
<1>2. GraphTypeOK /\ [GraphNext]_graphVars => GraphTypeOK'
  <2> SUFFICES ASSUME GraphTypeOK, [GraphNext]_graphVars PROVE GraphTypeOK'
    OBVIOUS
  <2> USE DEF GraphTypeOK, Pairs, FriendshipStatus, Event
  <2>1. CASE UNCHANGED graphVars
    BY <2>1 DEF graphVars
  <2>2. ASSUME NEW u \in Users, NEW v \in Users, RequestFriend(u, v)
        PROVE  GraphTypeOK'
    BY <2>2 DEF RequestFriend, MayRequest
  <2>3. ASSUME NEW u \in Users, NEW v \in Users, AcceptFriend(u, v)
        PROVE  GraphTypeOK'
    <3>1. FriendAdded(v, u) \in Event
      BY DEF FriendAdded
    <3>2. friendship' \in [Pairs -> FriendshipStatus]
      BY <2>3 DEF AcceptFriend, RequestIsOpen, BothHaveRoom, MarkBothWays
    <3>3. friendCount' \in [Users -> Nat]
      BY <2>3 DEF AcceptFriend, OneMoreFriend, RequestIsOpen, BothHaveRoom, MarkBothWays
    <3>4. events' \in Seq(Event)
      BY <2>3, <3>1 DEF AcceptFriend, RequestIsOpen, BothHaveRoom, MarkBothWays
    <3> QED
      BY <3>2, <3>3, <3>4
  <2>4. ASSUME NEW u \in Users, NEW v \in Users, RejectFriend(u, v)
        PROVE  GraphTypeOK'
    BY <2>4 DEF RejectFriend, RequestIsOpen
  <2>5. ASSUME NEW u \in Users, NEW v \in Users, RemoveFriend(u, v)
        PROVE  GraphTypeOK'
    <3>1. FriendRemoved(u, v) \in Event
      BY DEF FriendRemoved
    <3>2. friendship' \in [Pairs -> FriendshipStatus]
      BY <2>5 DEF RemoveFriend, CountsAfterRemove, MarkBothWays, PublishRemoved
    <3>3. friendCount' \in [Users -> Nat]
      BY <2>5 DEF RemoveFriend, OneFriendLess, CountsAfterRemove, MarkBothWays, PublishRemoved
    <3>4. events' \in Seq(Event)
      BY <2>5, <3>1 DEF RemoveFriend, CountsAfterRemove, MarkBothWays, PublishRemoved
    <3> QED
      BY <3>2, <3>3, <3>4
  <2> QED
    BY <2>1, <2>2, <2>3, <2>4, <2>5 DEF GraphNext
<1> QED
  BY <1>1, <1>2, PTL DEF GraphSpec

(***************************************************************************)
(* What is between two accounts is unambiguous: friendships are mutual and *)
(* requests never compete.  Neither conjunct is inductive alone (accepting *)
(* a request must not meet an Active entry opposite, and opening one must  *)
(* not either), the two together are.                                      *)
(***************************************************************************)
\* The entries <<x, y>> and <<u, v>> are the same relationship.
SamePair(x, y, u, v) == (x = u /\ y = v) \/ (x = v /\ y = u)

\* The entries after request_friend, read pair by pair.
LEMMA AfterRequest ==
    ASSUME GraphTypeOK, NEW u \in Users, NEW v \in Users, RequestFriend(u, v)
    PROVE  \A x, y \in Users : friendship'[<<x, y>>] =
               IF x = u /\ y = v THEN "Pending" ELSE friendship[<<x, y>>]
BY DEF GraphTypeOK, Pairs, RequestFriend, SamePair, MayRequest

\* The entries after accept_friend, read pair by pair.
LEMMA AfterAccept ==
    ASSUME GraphTypeOK, NEW u \in Users, NEW v \in Users, AcceptFriend(u, v)
    PROVE  \A x, y \in Users : friendship'[<<x, y>>] =
               IF SamePair(x, y, u, v) THEN "Active" ELSE friendship[<<x, y>>]
BY DEF GraphTypeOK, Pairs, AcceptFriend, SamePair, RequestIsOpen, BothHaveRoom, MarkBothWays

\* The entries after reject_friend, read pair by pair.
LEMMA AfterReject ==
    ASSUME GraphTypeOK, NEW u \in Users, NEW v \in Users, RejectFriend(u, v)
    PROVE  \A x, y \in Users : friendship'[<<x, y>>] =
               IF x = v /\ y = u THEN "None" ELSE friendship[<<x, y>>]
BY DEF GraphTypeOK, Pairs, RejectFriend, SamePair, RequestIsOpen

\* The entries after remove_friend, read pair by pair.
LEMMA AfterRemove ==
    ASSUME GraphTypeOK, NEW u \in Users, NEW v \in Users, RemoveFriend(u, v)
    PROVE  \A x, y \in Users : friendship'[<<x, y>>] =
               IF SamePair(x, y, u, v) THEN "Removed" ELSE friendship[<<x, y>>]
BY DEF GraphTypeOK, Pairs, RemoveFriend, SamePair, CountsAfterRemove, MarkBothWays, PublishRemoved

LEMMA UnambiguousStep ==
    ASSUME GraphTypeOK, Unambiguous, [GraphNext]_graphVars
    PROVE  Unambiguous'
<1> USE DEF Unambiguous, FriendshipIsMutual, NoCompetingRequests, SamePair
<1>1. CASE UNCHANGED graphVars
  BY <1>1 DEF graphVars
<1>2. ASSUME NEW u \in Users, NEW v \in Users, RequestFriend(u, v)
      PROVE  Unambiguous'
  <2>1. /\ u # v
        /\ friendship[<<u, v>>] \notin {"Active", "Pending"}
        /\ friendship[<<v, u>>] # "Pending"
    BY <1>2 DEF RequestFriend, MayRequest
  <2> QED
    BY <1>2, <2>1, AfterRequest
<1>3. ASSUME NEW u \in Users, NEW v \in Users, AcceptFriend(u, v)
      PROVE  Unambiguous'
  <2>1. u # v
    BY <1>3 DEF AcceptFriend, RequestIsOpen, BothHaveRoom, MarkBothWays
  <2> QED
    BY <1>3, <2>1, AfterAccept
<1>4. ASSUME NEW u \in Users, NEW v \in Users, RejectFriend(u, v)
      PROVE  Unambiguous'
  <2>1. FriendshipIsMutual'
    BY <1>4, AfterReject DEF RejectFriend, RequestIsOpen
  <2>2. NoCompetingRequests'
    BY <1>4, AfterReject DEF RejectFriend, RequestIsOpen
  <2> QED
    BY <2>1, <2>2
<1>5. ASSUME NEW u \in Users, NEW v \in Users, RemoveFriend(u, v)
      PROVE  Unambiguous'
  BY <1>5, AfterRemove
<1> QED
  BY <1>1, <1>2, <1>3, <1>4, <1>5 DEF GraphNext

\* Friendships are mutual and requests never compete, in every reachable
\* state of the contract.
THEOREM UnambiguousAlways == GraphSpec => []Unambiguous
<1>1. GraphInit => Unambiguous
  BY DEF GraphInit, Unambiguous, FriendshipIsMutual, NoCompetingRequests, Pairs
<1>2. GraphTypeOK /\ Unambiguous /\ [GraphNext]_graphVars => Unambiguous'
  BY UnambiguousStep
<1>3. GraphSpec => []Unambiguous
  BY <1>1, <1>2, GraphTypeCorrect, PTL DEF GraphSpec
<1> QED
  BY <1>3 DEF Unambiguous

-----------------------------------------------------------------------------
(***************************************************************************)
(* The counts.  accept_friend and remove_friend adjust two numbers and     *)
(* never look at the entries, so that the numbers stay right rests on the  *)
(* friendships being mutual and on requests never standing opposite an     *)
(* Active entry: both are hypotheses of the step lemma.                    *)
(***************************************************************************)
Counted == CountIsExact /\ StorageIsBounded

\* The friends of an account are finitely many.
LEMMA FriendsFinite ==
    ASSUME NEW u \in Users
    PROVE  IsFiniteSet(ActiveFriends(u)) /\ Cardinality(ActiveFriends(u)) \in Nat
<1>1. ActiveFriends(u) \in SUBSET Users
  BY DEF ActiveFriends
<1> QED
  BY <1>1, UsersAssumption, FS_Subset, FS_CardinalityType

\* A step that leaves every Active entry and every count alone.
LEMMA CountedFrame ==
    ASSUME Counted, UNCHANGED friendCount,
           \A x, y \in Users : friendship'[<<x, y>>] = "Active" <=> friendship[<<x, y>>] = "Active"
    PROVE  Counted'
<1>1. \A u \in Users : ActiveFriends(u)' = ActiveFriends(u)
  BY DEF ActiveFriends
<1> QED
  BY <1>1 DEF Counted, CountIsExact, StorageIsBounded

LEMMA CountedStep ==
    ASSUME GraphTypeOK, Unambiguous, Counted, [GraphNext]_graphVars
    PROVE  Counted'
<1> USE DEF Unambiguous, FriendshipIsMutual, NoCompetingRequests
<1>1. CASE UNCHANGED graphVars
  BY <1>1, CountedFrame DEF graphVars
<1>2. ASSUME NEW u \in Users, NEW v \in Users, RequestFriend(u, v)
      PROVE  Counted'
  <2>1. friendship[<<u, v>>] # "Active" /\ UNCHANGED friendCount
    BY <1>2 DEF RequestFriend, MayRequest
  <2> QED
    BY <1>2, <2>1, AfterRequest, CountedFrame
<1>3. ASSUME NEW u \in Users, NEW v \in Users, RejectFriend(u, v)
      PROVE  Counted'
  <2>1. friendship[<<v, u>>] # "Active" /\ UNCHANGED friendCount
    BY <1>3 DEF RejectFriend, RequestIsOpen
  <2> QED
    BY <1>3, <2>1, AfterReject, CountedFrame
<1>4. ASSUME NEW u \in Users, NEW v \in Users, AcceptFriend(u, v)
      PROVE  Counted'
  <2>1. /\ u # v
        /\ friendship[<<v, u>>] # "Active"
        /\ friendship[<<u, v>>] # "Active"
    BY <1>4 DEF AcceptFriend, RequestIsOpen, BothHaveRoom, MarkBothWays
  <2>2. SUFFICES ASSUME NEW w \in Users
                 PROVE  /\ friendCount'[w] = Cardinality(ActiveFriends(w)')
                        /\ Cardinality(ActiveFriends(w)') <= MAX_FRIENDS
    BY DEF Counted, CountIsExact, StorageIsBounded
  <2>3. friendCount[w] = Cardinality(ActiveFriends(w)) /\ friendCount[w] <= MAX_FRIENDS
    BY DEF Counted, CountIsExact, StorageIsBounded
  <2>4. ASSUME NEW z \in Users, SamePair(w, z, u, v)
        PROVE  /\ friendCount'[w] = Cardinality(ActiveFriends(w)')
               /\ Cardinality(ActiveFriends(w)') <= MAX_FRIENDS
    <3>1. ActiveFriends(w)' = ActiveFriends(w) \cup {z}
      BY <1>4, <2>1, <2>4, AfterAccept DEF ActiveFriends, SamePair
    <3>2. z \notin ActiveFriends(w)
      BY <2>1, <2>4 DEF ActiveFriends, SamePair
    <3>3. Cardinality(ActiveFriends(w)') = Cardinality(ActiveFriends(w)) + 1
      BY <3>1, <3>2, FriendsFinite, FS_AddElement
    <3>4. friendCount'[w] = friendCount[w] + 1 /\ friendCount[w] < MAX_FRIENDS
      BY <1>4, <2>4 DEF AcceptFriend, OneMoreFriend, SamePair, RequestIsOpen, BothHaveRoom, MarkBothWays
    <3> QED
      BY <2>3, <3>3, <3>4, MaxFriendsAssumption DEF GraphTypeOK
  <2>5. CASE w \notin {u, v}
    <3>1. ActiveFriends(w)' = ActiveFriends(w)
      BY <1>4, <2>5, AfterAccept DEF ActiveFriends, SamePair
    <3>2. friendCount'[w] = friendCount[w]
      BY <1>4, <2>5 DEF AcceptFriend, OneMoreFriend, RequestIsOpen, BothHaveRoom, MarkBothWays
    <3> QED
      BY <2>3, <3>1, <3>2
  <2> QED
    BY <2>4, <2>5 DEF SamePair
<1>5. ASSUME NEW u \in Users, NEW v \in Users, RemoveFriend(u, v)
      PROVE  Counted'
  <2>1. CASE ~IsFriend(u, v)
    <3>1. UNCHANGED friendCount
      BY <1>5, <2>1 DEF RemoveFriend, CountsAfterRemove, MarkBothWays, PublishRemoved
    <3>2. friendship[<<u, v>>] # "Active" /\ friendship[<<v, u>>] # "Active"
      BY <2>1 DEF IsFriend
    <3> QED
      BY <1>5, <3>1, <3>2, AfterRemove, CountedFrame DEF SamePair
  <2>2. CASE IsFriend(u, v)
    <3>1. /\ u # v
          /\ friendship[<<v, u>>] = "Active"
          /\ friendship[<<u, v>>] = "Active"
      BY <2>2 DEF IsFriend
    <3>2. SUFFICES ASSUME NEW w \in Users
                   PROVE  /\ friendCount'[w] = Cardinality(ActiveFriends(w)')
                          /\ Cardinality(ActiveFriends(w)') <= MAX_FRIENDS
      BY DEF Counted, CountIsExact, StorageIsBounded
    <3>3. /\ friendCount[w] = Cardinality(ActiveFriends(w))
          /\ Cardinality(ActiveFriends(w)) <= MAX_FRIENDS
      BY DEF Counted, CountIsExact, StorageIsBounded
    <3>4. ASSUME NEW z \in Users, SamePair(w, z, u, v)
          PROVE  /\ friendCount'[w] = Cardinality(ActiveFriends(w)')
                 /\ Cardinality(ActiveFriends(w)') <= MAX_FRIENDS
      <4>1. ActiveFriends(w)' = ActiveFriends(w) \ {z}
        BY <1>5, <3>1, <3>4, AfterRemove DEF ActiveFriends, SamePair
      <4>2. z \in ActiveFriends(w)
        BY <3>1, <3>4 DEF ActiveFriends, SamePair
      <4>3. Cardinality(ActiveFriends(w)') = Cardinality(ActiveFriends(w)) - 1
        BY <4>1, <4>2, FriendsFinite, FS_RemoveElement
      <4>4. ActiveFriends(w) # {}
        BY <4>2
      <4>5. Cardinality(ActiveFriends(w)) > 0
        BY <4>4, FriendsFinite, FS_EmptySet
      <4>6. friendCount'[w] = friendCount[w] - 1
        BY <1>5, <2>2, <3>3, <3>4, <4>5 DEF RemoveFriend, OneFriendLess, SamePair, CountsAfterRemove, MarkBothWays, PublishRemoved
      <4> QED
        BY <3>3, <4>3, <4>5, <4>6, FriendsFinite, MaxFriendsAssumption
    <3>5. CASE w \notin {u, v}
      <4>1. ActiveFriends(w)' = ActiveFriends(w)
        BY <1>5, <3>5, AfterRemove DEF ActiveFriends, SamePair
      <4>2. friendCount'[w] = friendCount[w]
        BY <1>5, <2>2, <3>5 DEF RemoveFriend, OneFriendLess, CountsAfterRemove, MarkBothWays, PublishRemoved
      <4> QED
        BY <3>3, <4>1, <4>2
    <3> QED
      BY <3>4, <3>5 DEF SamePair
  <2> QED
    BY <2>1, <2>2
<1> QED
  BY <1>1, <1>2, <1>3, <1>4, <1>5 DEF GraphNext

\* The running counts are exact and no account passes MAX_FRIENDS, whatever
\* the order of calls accept_friend and remove_friend see.
THEOREM CountsAlwaysExact == GraphSpec => [](CountIsExact /\ StorageIsBounded)
<1>1. GraphInit => Counted
  <2> SUFFICES ASSUME GraphInit, NEW u \in Users
               PROVE  /\ friendCount[u] = Cardinality(ActiveFriends(u))
                      /\ Cardinality(ActiveFriends(u)) <= MAX_FRIENDS
    BY DEF Counted, CountIsExact, StorageIsBounded
  <2>1. ActiveFriends(u) = {}
    BY DEF GraphInit, ActiveFriends, Pairs
  <2> QED
    BY <2>1, FS_EmptySet, MaxFriendsAssumption DEF GraphInit
<1>2. GraphTypeOK /\ Unambiguous /\ Counted /\ [GraphNext]_graphVars => Counted'
  BY CountedStep
<1>3. Unambiguous <=> FriendshipIsMutual /\ NoCompetingRequests
  BY DEF Unambiguous
<1>4. GraphSpec => []Counted
  BY <1>1, <1>2, <1>3, GraphTypeCorrect, UnambiguousAlways, PTL DEF GraphSpec
<1> QED
  BY <1>4 DEF Counted

-----------------------------------------------------------------------------
(***************************************************************************)
(* The event log.  LatestIsAdded(log, u, v): the last event of the log     *)
(* about u and v is a FriendAdded.  Appending an event about the pair      *)
(* decides the answer for that pair and leaves it alone for every other.   *)
(***************************************************************************)
LatestIsAdded(log, u, v) ==
    \E i \in 1..Len(log) :
        /\ log[i].topic = "FriendAdded"
        /\ IsAbout(log[i], u, v)
        /\ \A j \in (i + 1)..Len(log) : ~IsAbout(log[j], u, v)

LEMMA AppendAbout ==
    ASSUME NEW log \in Seq(Event), NEW e \in Event, NEW u, NEW v, IsAbout(e, u, v)
    PROVE  LatestIsAdded(Append(log, e), u, v) <=> e.topic = "FriendAdded"
<1> DEFINE new == Append(log, e)
<1>1. /\ Len(log) \in Nat
      /\ Len(new) = Len(log) + 1
      /\ new[Len(log) + 1] = e
      /\ \A i \in 1..Len(log) : new[i] = log[i]
  OBVIOUS
<1>2. ASSUME e.topic = "FriendAdded" PROVE LatestIsAdded(new, u, v)
  <2>1. Len(new) \in 1..Len(new)
    BY <1>1
  <2>2. (Len(new) + 1)..Len(new) = {}
    BY <1>1
  <2> QED
    BY <1>1, <1>2, <2>1, <2>2 DEF LatestIsAdded
<1>3. ASSUME LatestIsAdded(new, u, v) PROVE e.topic = "FriendAdded"
  <2>1. PICK i \in 1..Len(new) : /\ new[i].topic = "FriendAdded"
                                 /\ \A j \in (i + 1)..Len(new) : ~IsAbout(new[j], u, v)
    BY <1>3 DEF LatestIsAdded
  <2>2. i = Len(new)
    BY <1>1, <2>1
  <2> QED
    BY <1>1, <2>1, <2>2
<1> QED
  BY <1>2, <1>3

LEMMA AppendNotAbout ==
    ASSUME NEW log \in Seq(Event), NEW e \in Event, NEW u, NEW v, ~IsAbout(e, u, v)
    PROVE  LatestIsAdded(Append(log, e), u, v) <=> LatestIsAdded(log, u, v)
<1> DEFINE new == Append(log, e)
<1>1. /\ Len(log) \in Nat
      /\ Len(new) = Len(log) + 1
      /\ new[Len(log) + 1] = e
      /\ \A i \in 1..Len(log) : new[i] = log[i]
  OBVIOUS
<1>2. ASSUME LatestIsAdded(log, u, v) PROVE LatestIsAdded(new, u, v)
  <2>1. PICK i \in 1..Len(log) : /\ log[i].topic = "FriendAdded"
                                 /\ IsAbout(log[i], u, v)
                                 /\ \A j \in (i + 1)..Len(log) : ~IsAbout(log[j], u, v)
    BY <1>2 DEF LatestIsAdded
  <2>2. i \in 1..Len(new) /\ new[i] = log[i]
    BY <1>1
  <2>3. \A j \in (i + 1)..Len(new) : ~IsAbout(new[j], u, v)
    <3>1. TAKE j \in (i + 1)..Len(new)
    <3>2. CASE j = Len(log) + 1
      BY <1>1, <3>2
    <3>3. CASE j # Len(log) + 1
      <4>1. j \in (i + 1)..Len(log) /\ j \in 1..Len(log)
        BY <1>1, <3>3
      <4> QED
        BY <1>1, <2>1, <4>1
    <3> QED
      BY <3>2, <3>3
  <2> QED
    BY <2>1, <2>2, <2>3 DEF LatestIsAdded
<1>3. ASSUME LatestIsAdded(new, u, v) PROVE LatestIsAdded(log, u, v)
  <2>1. PICK i \in 1..Len(new) : /\ new[i].topic = "FriendAdded"
                                 /\ IsAbout(new[i], u, v)
                                 /\ \A j \in (i + 1)..Len(new) : ~IsAbout(new[j], u, v)
    BY <1>3 DEF LatestIsAdded
  <2>2. i # Len(log) + 1
    BY <1>1, <2>1
  <2>3. i \in 1..Len(log) /\ log[i] = new[i]
    BY <1>1, <2>2
  <2>4. \A j \in (i + 1)..Len(log) : ~IsAbout(log[j], u, v)
    <3>1. TAKE j \in (i + 1)..Len(log)
    <3>2. j \in (i + 1)..Len(new) /\ j \in 1..Len(log)
      BY <1>1
    <3> QED
      BY <1>1, <2>1, <3>2
  <2> QED
    BY <2>1, <2>3, <2>4 DEF LatestIsAdded
<1> QED
  BY <1>2, <1>3

\* The event a call publishes is about exactly the pair it changed.
LEMMA AboutIsSamePair ==
    ASSUME NEW a, NEW b, NEW x, NEW y
    PROVE  /\ IsAbout(FriendAdded(a, b), x, y) <=> SamePair(x, y, a, b)
           /\ IsAbout(FriendRemoved(a, b), x, y) <=> SamePair(x, y, a, b)
BY DEF IsAbout, FriendAdded, FriendRemoved, SamePair

\* LogDeterminesGraph, pair by pair.
LEMMA LogPointwise ==
    LogDeterminesGraph <=>
        \A x, y \in Users : IsFriend(x, y) <=> LatestIsAdded(events, x, y)
BY DEF LogDeterminesGraph, LatestIsAdded

LEMMA LogStep ==
    ASSUME GraphTypeOK, Unambiguous, LogDeterminesGraph, [GraphNext]_graphVars
    PROVE  LogDeterminesGraph'
<1> USE DEF SamePair
<1>1. LogDeterminesGraph' <=>
          \A x, y \in Users : IsFriend(x, y)' <=> LatestIsAdded(events', x, y)
  BY DEF LogDeterminesGraph, LatestIsAdded, IsAbout
<1>2. SUFFICES ASSUME NEW x \in Users, NEW y \in Users
               PROVE  IsFriend(x, y)' <=> LatestIsAdded(events', x, y)
  BY <1>1
<1>3. IsFriend(x, y) <=> LatestIsAdded(events, x, y)
  BY LogPointwise
<1>4. ASSUME NEW u \in Users, NEW v \in Users, RequestFriend(u, v)
      PROVE  IsFriend(x, y)' <=> LatestIsAdded(events', x, y)
  <2>1. friendship[<<u, v>>] # "Active" /\ UNCHANGED events
    BY <1>4 DEF RequestFriend, MayRequest
  <2>2. IsFriend(x, y)' <=> IsFriend(x, y)
    BY <1>4, <2>1, AfterRequest DEF IsFriend
  <2> QED
    BY <1>3, <2>1, <2>2
<1>5. ASSUME NEW u \in Users, NEW v \in Users, RejectFriend(u, v)
      PROVE  IsFriend(x, y)' <=> LatestIsAdded(events', x, y)
  <2>1. friendship[<<v, u>>] # "Active" /\ UNCHANGED events
    BY <1>5 DEF RejectFriend, RequestIsOpen
  <2>2. IsFriend(x, y)' <=> IsFriend(x, y)
    BY <1>5, <2>1, AfterReject DEF IsFriend
  <2> QED
    BY <1>3, <2>1, <2>2
<1>6. ASSUME NEW u \in Users, NEW v \in Users, AcceptFriend(u, v)
      PROVE  IsFriend(x, y)' <=> LatestIsAdded(events', x, y)
  <2> DEFINE e == FriendAdded(v, u)
  <2>1. e \in Event /\ e.topic = "FriendAdded"
    BY DEF FriendAdded, Event
  <2>2. events' = Append(events, e) /\ events \in Seq(Event)
    BY <1>6 DEF AcceptFriend, GraphTypeOK, RequestIsOpen, BothHaveRoom, MarkBothWays
  <2>3. CASE SamePair(x, y, v, u)
    <3>1. IsFriend(x, y)'
      BY <1>6, <2>3, AfterAccept DEF IsFriend
    <3>2. IsAbout(e, x, y)
      BY <2>3, AboutIsSamePair
    <3> QED
      BY <2>1, <2>2, <3>1, <3>2, AppendAbout
  <2>4. CASE ~SamePair(x, y, v, u)
    <3>1. IsFriend(x, y)' <=> IsFriend(x, y)
      BY <1>6, <2>4, AfterAccept DEF IsFriend
    <3>2. ~IsAbout(e, x, y)
      BY <2>4, AboutIsSamePair
    <3> QED
      BY <1>3, <2>1, <2>2, <3>1, <3>2, AppendNotAbout
  <2> QED
    BY <2>3, <2>4
<1>7. ASSUME NEW u \in Users, NEW v \in Users, RemoveFriend(u, v)
      PROVE  IsFriend(x, y)' <=> LatestIsAdded(events', x, y)
  <2> DEFINE e == FriendRemoved(u, v)
  <2>1. e \in Event /\ e.topic # "FriendAdded"
    BY DEF FriendRemoved, Event
  <2>2. events' = Append(events, e) /\ events \in Seq(Event)
    BY <1>7 DEF RemoveFriend, GraphTypeOK, CountsAfterRemove, MarkBothWays, PublishRemoved
  <2>3. CASE SamePair(x, y, u, v)
    <3>1. ~IsFriend(x, y)'
      BY <1>7, <2>3, AfterRemove DEF IsFriend
    <3>2. IsAbout(e, x, y)
      BY <2>3, AboutIsSamePair
    <3> QED
      BY <2>1, <2>2, <3>1, <3>2, AppendAbout
  <2>4. CASE ~SamePair(x, y, u, v)
    <3>1. IsFriend(x, y)' <=> IsFriend(x, y)
      BY <1>7, <2>4, AfterRemove DEF IsFriend
    <3>2. ~IsAbout(e, x, y)
      BY <2>4, AboutIsSamePair
    <3> QED
      BY <1>3, <2>1, <2>2, <3>1, <3>2, AppendNotAbout
  <2> QED
    BY <2>3, <2>4
<1>8. CASE UNCHANGED graphVars
  <2>1. events' = events /\ (IsFriend(x, y)' <=> IsFriend(x, y))
    BY <1>8 DEF graphVars, IsFriend
  <2> QED
    BY <1>3, <2>1
<1> QED
  BY <1>4, <1>5, <1>6, <1>7, <1>8 DEF GraphNext

\* Replaying the FriendAdded and FriendRemoved events in order rebuilds the
\* contract's friendships: the log determines the graph in every reachable
\* state.
THEOREM LogAlwaysDeterminesGraph == GraphSpec => []LogDeterminesGraph
<1>1. GraphInit => LogDeterminesGraph
  BY DEF GraphInit, LogDeterminesGraph, IsFriend, Pairs
<1>2. GraphTypeOK /\ Unambiguous /\ LogDeterminesGraph /\ [GraphNext]_graphVars => LogDeterminesGraph'
  BY LogStep
<1>3. Unambiguous <=> FriendshipIsMutual /\ NoCompetingRequests
  BY DEF Unambiguous
<1> QED
  BY <1>1, <1>2, <1>3, GraphTypeCorrect, UnambiguousAlways, PTL DEF GraphSpec

\* Nobody is befriended without consent: a step that establishes a friendship
\* answers a request that was open between the two accounts.
THEOREM ConsentAlways == GraphSpec => FriendshipNeedsConsent
<1> DEFINE Consent == \A u, v \in Users :
          ~IsFriend(u, v) /\ IsFriend(u, v)' =>
              \/ friendship[<<u, v>>] = "Pending"
              \/ friendship[<<v, u>>] = "Pending"
<1>1. GraphTypeOK /\ [GraphNext]_graphVars => [Consent]_graphVars
  <2> SUFFICES ASSUME GraphTypeOK, GraphNext, NEW x \in Users, NEW y \in Users,
                      ~IsFriend(x, y), IsFriend(x, y)'
               PROVE  \/ friendship[<<x, y>>] = "Pending"
                      \/ friendship[<<y, x>>] = "Pending"
    OBVIOUS
  <2> USE DEF IsFriend, SamePair
  <2>1. ASSUME NEW u \in Users, NEW v \in Users, AcceptFriend(u, v)
        PROVE  friendship[<<x, y>>] = "Pending" \/ friendship[<<y, x>>] = "Pending"
    <3>1. friendship[<<v, u>>] = "Pending"
      BY <2>1 DEF AcceptFriend, RequestIsOpen, BothHaveRoom, MarkBothWays
    <3> QED
      BY <2>1, <3>1, AfterAccept
  <2>2. ASSUME NEW u \in Users, NEW v \in Users,
               RequestFriend(u, v) \/ RejectFriend(u, v) \/ RemoveFriend(u, v)
        PROVE  FALSE
    BY <2>2, AfterRequest, AfterReject, AfterRemove
  <2> QED
    BY <2>1, <2>2 DEF GraphNext
<1> QED
  BY <1>1, GraphTypeCorrect, PTL DEF GraphSpec, FriendshipNeedsConsent

-----------------------------------------------------------------------------
(***************************************************************************)
(* The user registry.                                                      *)
(***************************************************************************)

\* The struct keys and the enum keys are written by different statements; that
\* the copies are equal is what makes delete_profile (which reads one copy) and
\* unregister_user (which reads the other) remove the right entries.
Inv == TypeOK /\ NamesAgree /\ DidsAgree /\ RefundedAtMostPaid

-----------------------------------------------------------------------------
(***************************************************************************)
(* Types.                                                                  *)
(***************************************************************************)

\* A refund moves numbers to numbers.
LEMMA RefundTyped ==
    ASSUME TypeOK, NEW u \in Accounts, Refund(u)
    PROVE  /\ deposit' \in [Accounts -> Nat]
           /\ escrow' \in [Tokens -> Nat]
           /\ paid' \in [Accounts -> Nat]
           /\ refunded' \in [Accounts -> Nat]
<1>1. CASE deposit[u] = 0 /\ UNCHANGED moneyVars
  BY <1>1 DEF TypeOK, moneyVars
<1>2. CASE deposit[u] > 0 /\ feeToken # None /\ escrow[feeToken] >= deposit[u]
  <2>1. /\ feeToken \in Tokens /\ escrow[feeToken] \in Nat
        /\ deposit[u] \in Nat /\ refunded[u] \in Nat
    BY <1>2 DEF TypeOK
  <2>2. escrow[feeToken] - deposit[u] \in Nat /\ refunded[u] + deposit[u] \in Nat
    BY <1>2, <2>1
  <2> QED
    BY <1>2, <2>1, <2>2 DEF TypeOK, Refund, RefundAmount, CanPay, DepositCleared, moneyVars
<1> QED
  BY <1>1, <1>2 DEF Refund, CanPay, RefundAmount

\* Every entry point keeps the types of the storage entries.
LEMMA TypeInductive == TypeOK /\ [Next]_vars => TypeOK'
<1> SUFFICES ASSUME TypeOK, [Next]_vars PROVE TypeOK'
  OBVIOUS
<1> USE DEF adminVars, feeVars, nameVars, didVars, moneyVars
<1>1. ASSUME NEW a \in Accounts, Initialize(a) \/ ProposeNewAdmin(a) PROVE TypeOK'
  BY <1>1 DEF TypeOK, Initialize, ProposeNewAdmin
<1>2. CASE ClaimAdmin \/ SetPrivyVerifier
  BY <1>2 DEF TypeOK, ClaimAdmin, SetPrivyVerifier
<1>3. ASSUME NEW t \in Tokens, RescueToken(t) PROVE TypeOK'
  BY <1>3 DEF TypeOK, RescueToken
<1>4. ASSUME NEW t \in Tokens, NEW m \in Amounts, SetReservationConfig(t, m) PROVE TypeOK'
  BY <1>4, RegistryAssumption DEF TypeOK, SetReservationConfig
<1>5. ASSUME NEW u \in Accounts, UpdateProfile(u) PROVE TypeOK'
  BY <1>5, RefundTyped DEF TypeOK, UpdateProfile
<1>6. ASSUME NEW u \in Accounts, DeleteProfile(u) PROVE TypeOK'
  BY <1>6 DEF TypeOK, DeleteProfile, ForgetName
<1>7. ASSUME NEW u \in Accounts, UnregisterUser(u) PROVE TypeOK'
  BY <1>7, RefundTyped DEF TypeOK, UnregisterUser, ForgetName
<1>8. ASSUME NEW u \in Accounts, NEW n \in Names, RegisterUser(u, n) PROVE TypeOK'
  <2>1. feeToken \in Tokens
    BY <1>8 DEF TypeOK, RegisterUser
  <2>2. regs' \in 0..MaxRegs
    BY <1>8, RegistryAssumption DEF TypeOK, RegisterUser
  <2>3. escrow' \in [Tokens -> Nat] /\ deposit' \in [Accounts -> Nat] /\ paid' \in [Accounts -> Nat]
    BY <1>8, <2>1 DEF TypeOK, RegisterUser
  <2> QED
    BY <1>8, <2>2, <2>3 DEF TypeOK, RegisterUser
<1>9. ASSUME NEW d \in Dids, UnlinkPrivyDid(d) PROVE TypeOK'
  BY <1>9 DEF TypeOK, UnlinkPrivyDid
<1>10. ASSUME NEW d \in Dids, NEW w \in Accounts,
              RegisterPrivyDid(d, w) \/ UpdatePrivyDid(d, w) \/ RecoverPrivyDid(d, w)
       PROVE  TypeOK'
  BY <1>10 DEF TypeOK, RegisterPrivyDid, UpdatePrivyDid, RecoverPrivyDid, WalletsAfterMove
<1>11. CASE UNCHANGED vars
  BY <1>11 DEF TypeOK, vars
<1> QED
  BY <1>1, <1>2, <1>3, <1>4, <1>5, <1>6, <1>7, <1>8, <1>9, <1>10, <1>11 DEF Next

-----------------------------------------------------------------------------
(***************************************************************************)
(* Names.                                                                  *)
(***************************************************************************)

\* Removing both entries of a registered name leaves the lookups inverse.
LEMMA ForgetKeepsNames ==
    ASSUME TypeOK, NamesAgree, NEW u \in Accounts, byAddress[u] # None,
           ForgetName(u, byAddress[u])
    PROVE  NamesAgree'
<1> DEFINE n == byAddress[u]
<1>1. n \in Names /\ byName[n] = u
  BY DEF TypeOK, NamesAgree
<1>2. user' = byAddress' /\ username' = byName'
  BY DEF ForgetName, NamesAgree
<1>3. ASSUME NEW v \in Accounts, NEW m \in Names PROVE byAddress'[v] = m <=> byName'[m] = v
  <2>1. byAddress'[v] = IF v = u THEN None ELSE byAddress[v]
    BY DEF ForgetName, TypeOK
  <2>2. byName'[m] = IF m = n THEN None ELSE byName[m]
    BY DEF ForgetName, TypeOK
  <2>3. m # None /\ v # None
    BY RegistryAssumption
  <2> QED
    BY <1>1, <2>1, <2>2, <2>3 DEF NamesAgree
<1> QED
  BY <1>2, <1>3 DEF NamesAgree

\* No entry point lets the lookups of names diverge.
LEMMA NamesInductive == TypeOK /\ NamesAgree /\ [Next]_vars => NamesAgree'
<1> SUFFICES ASSUME TypeOK, NamesAgree, [Next]_vars PROVE NamesAgree'
  OBVIOUS
<1>1. ASSUME NEW u \in Accounts, NEW n \in Names, RegisterUser(u, n) PROVE NamesAgree'
  <2>1. user' = byAddress' /\ username' = byName'
    BY <1>1 DEF RegisterUser, NamesAgree
  <2>2. ASSUME NEW v \in Accounts, NEW m \in Names PROVE byAddress'[v] = m <=> byName'[m] = v
    <3>1. byAddress'[v] = IF v = u THEN n ELSE byAddress[v]
      BY <1>1 DEF RegisterUser, TypeOK
    <3>2. byName'[m] = IF m = n THEN u ELSE byName[m]
      BY <1>1 DEF RegisterUser, TypeOK
    <3>3. byName[n] = None /\ byAddress[u] = None /\ m # None /\ v # None
      BY <1>1, RegistryAssumption DEF RegisterUser, IsFree
    <3> QED
      BY <3>1, <3>2, <3>3 DEF NamesAgree
  <2> QED
    BY <2>1, <2>2 DEF NamesAgree
<1>2. ASSUME NEW u \in Accounts, DeleteProfile(u) \/ UnregisterUser(u) PROVE NamesAgree'
  BY <1>2, ForgetKeepsNames DEF DeleteProfile, UnregisterUser, NamesAgree
<1>3. CASE UNCHANGED nameVars
  BY <1>3 DEF NamesAgree, nameVars
<1>4. \/ UNCHANGED nameVars
      \/ \E u \in Accounts : \/ DeleteProfile(u) \/ UnregisterUser(u)
                             \/ \E n \in Names : RegisterUser(u, n)
  BY DEF Next, vars, Initialize, ProposeNewAdmin, ClaimAdmin, SetPrivyVerifier, RescueToken,
         SetReservationConfig, UpdateProfile, UnlinkPrivyDid, RegisterPrivyDid,
         UpdatePrivyDid, RecoverPrivyDid
<1> QED
  BY <1>1, <1>2, <1>3, <1>4

-----------------------------------------------------------------------------
(***************************************************************************)
(* DIDs.                                                                   *)
(***************************************************************************)

\* Moving a DID to a wallet that holds nothing else keeps the indexes inverse.
LEMMA MoveKeepsDids ==
    ASSUME TypeOK, DidsAgree, NEW d \in Dids, NEW new \in Accounts, MayHold(new, d),
           didWallet' = [didWallet EXCEPT ![d] = new],
           walletDid' = WalletsAfterMove(d, new)
    PROVE  DidsAgree'
<1> SUFFICES ASSUME NEW e \in Dids, NEW w \in Accounts
             PROVE  didWallet'[e] = w <=> walletDid'[w] = e
  BY DEF DidsAgree
<1>1. didWallet'[e] = IF e = d THEN new ELSE didWallet[e]
  BY DEF TypeOK
<1>2. walletDid'[w] = IF w = new THEN d ELSE IF w = didWallet[d] THEN None ELSE walletDid[w]
  BY DEF WalletsAfterMove
<1>3. e # None /\ w # None
  BY RegistryAssumption
<1> QED
  BY <1>1, <1>2, <1>3 DEF DidsAgree, MayHold

\* No entry point lets the DID index and its reverse diverge.
LEMMA DidsInductive == TypeOK /\ DidsAgree /\ [Next]_vars => DidsAgree'
<1> SUFFICES ASSUME TypeOK, DidsAgree, [Next]_vars PROVE DidsAgree'
  OBVIOUS
<1>1. ASSUME NEW d \in Dids, NEW w \in Accounts, RegisterPrivyDid(d, w) PROVE DidsAgree'
  <2> SUFFICES ASSUME NEW e \in Dids, NEW v \in Accounts
               PROVE  didWallet'[e] = v <=> walletDid'[v] = e
    BY DEF DidsAgree
  <2>1. didWallet'[e] = IF e = d THEN w ELSE didWallet[e]
    BY <1>1 DEF RegisterPrivyDid, TypeOK
  <2>2. walletDid'[v] = IF v = w THEN d ELSE walletDid[v]
    BY <1>1 DEF RegisterPrivyDid, TypeOK
  <2>3. didWallet[d] = None /\ walletDid[w] = None /\ e # None /\ v # None
    BY <1>1, RegistryAssumption DEF RegisterPrivyDid
  <2> QED
    BY <2>1, <2>2, <2>3 DEF DidsAgree
<1>2. ASSUME NEW d \in Dids, UnlinkPrivyDid(d) PROVE DidsAgree'
  <2> SUFFICES ASSUME NEW e \in Dids, NEW v \in Accounts
               PROVE  didWallet'[e] = v <=> walletDid'[v] = e
    BY DEF DidsAgree
  <2>1. didWallet'[e] = IF e = d THEN None ELSE didWallet[e]
    BY <1>2 DEF UnlinkPrivyDid, TypeOK
  <2>2. walletDid'[v] = IF v = didWallet[d] THEN None ELSE walletDid[v]
    BY <1>2 DEF UnlinkPrivyDid, TypeOK
  <2>3. e # None /\ v # None
    BY RegistryAssumption
  <2>4. didWallet[d] \in Accounts
    BY <1>2 DEF UnlinkPrivyDid, TypeOK
  <2> QED
    BY <2>1, <2>2, <2>3, <2>4 DEF DidsAgree
<1>3. ASSUME NEW d \in Dids, NEW w \in Accounts, UpdatePrivyDid(d, w) \/ RecoverPrivyDid(d, w)
      PROVE  DidsAgree'
  BY <1>3, MoveKeepsDids DEF UpdatePrivyDid, RecoverPrivyDid
<1>4. CASE UNCHANGED didVars
  BY <1>4 DEF DidsAgree, didVars
<1>5. \/ UNCHANGED didVars
      \/ \E d \in Dids : \/ UnlinkPrivyDid(d)
                         \/ \E w \in Accounts : \/ RegisterPrivyDid(d, w)
                                                \/ UpdatePrivyDid(d, w)
                                                \/ RecoverPrivyDid(d, w)
  BY DEF Next, vars, Initialize, ProposeNewAdmin, ClaimAdmin, SetPrivyVerifier, RescueToken,
         SetReservationConfig, UpdateProfile, DeleteProfile, UnregisterUser, RegisterUser
<1> QED
  BY <1>1, <1>2, <1>3, <1>4, <1>5

-----------------------------------------------------------------------------
(***************************************************************************)
(* Money.                                                                  *)
(***************************************************************************)

\* A refund moves a user's deposit to what he got back.
LEMMA RefundKeepsFees ==
    ASSUME TypeOK, RefundedAtMostPaid, NEW u \in Accounts, Refund(u)
    PROVE  RefundedAtMostPaid'
<1>1. CASE UNCHANGED moneyVars
  BY <1>1 DEF RefundedAtMostPaid, moneyVars
<1>2. CASE /\ refunded' = [refunded EXCEPT ![u] = @ + deposit[u]]
           /\ deposit' = [deposit EXCEPT ![u] = 0]
           /\ paid' = paid
  <2> SUFFICES ASSUME NEW v \in Accounts PROVE refunded'[v] + deposit'[v] <= paid'[v]
    BY DEF RefundedAtMostPaid
  <2>1. refunded[v] + deposit[v] <= paid[v] /\ refunded[v] \in Nat /\ deposit[v] \in Nat
    BY DEF RefundedAtMostPaid, TypeOK
  <2>2. CASE v = u
    <3>1. refunded'[v] = refunded[v] + deposit[v] /\ deposit'[v] = 0 /\ paid'[v] = paid[v]
      BY <1>2, <2>2 DEF TypeOK
    <3> QED
      BY <2>1, <3>1 DEF TypeOK
  <2>3. CASE v # u
    <3>1. refunded'[v] = refunded[v] /\ deposit'[v] = deposit[v] /\ paid'[v] = paid[v]
      BY <1>2, <2>3 DEF TypeOK
    <3> QED
      BY <2>1, <3>1
  <2> QED
    BY <2>2, <2>3
<1> QED
  BY <1>1, <1>2 DEF Refund, RefundAmount, DepositCleared

\* No entry point pays anybody back more than he paid.
LEMMA FeesInductive == TypeOK /\ RefundedAtMostPaid /\ [Next]_vars => RefundedAtMostPaid'
<1> SUFFICES ASSUME TypeOK, RefundedAtMostPaid, [Next]_vars PROVE RefundedAtMostPaid'
  OBVIOUS
<1>1. ASSUME NEW u \in Accounts, NEW n \in Names, RegisterUser(u, n) PROVE RefundedAtMostPaid'
  <2> SUFFICES ASSUME NEW v \in Accounts PROVE refunded'[v] + deposit'[v] <= paid'[v]
    BY DEF RefundedAtMostPaid
  <2>1. /\ refunded[v] + deposit[v] <= paid[v]
        /\ refunded[v] \in Nat /\ deposit[v] \in Nat /\ paid[v] \in Nat /\ feeAmount \in Nat
    BY DEF RefundedAtMostPaid, TypeOK
  <2>2. CASE v = u
    <3>1. refunded'[v] = refunded[v] /\ deposit'[v] = feeAmount /\ paid'[v] = paid[v] + feeAmount
      BY <1>1, <2>2 DEF TypeOK, RegisterUser
    <3> QED
      BY <2>1, <3>1
  <2>3. CASE v # u
    <3>1. refunded'[v] = refunded[v] /\ deposit'[v] = deposit[v] /\ paid'[v] = paid[v]
      BY <1>1, <2>3 DEF TypeOK, RegisterUser
    <3> QED
      BY <2>1, <3>1
  <2> QED
    BY <2>2, <2>3
<1>2. ASSUME NEW u \in Accounts, UpdateProfile(u) \/ UnregisterUser(u) PROVE RefundedAtMostPaid'
  BY <1>2, RefundKeepsFees DEF UpdateProfile, UnregisterUser
<1>3. CASE UNCHANGED <<deposit, paid, refunded>>
  BY <1>3 DEF RefundedAtMostPaid
<1>4. \/ UNCHANGED <<deposit, paid, refunded>>
      \/ \E u \in Accounts : \/ UpdateProfile(u) \/ UnregisterUser(u)
                             \/ \E n \in Names : RegisterUser(u, n)
  BY DEF Next, vars, Initialize, ProposeNewAdmin, ClaimAdmin, SetPrivyVerifier, RescueToken,
         SetReservationConfig, DeleteProfile, UnlinkPrivyDid, RegisterPrivyDid,
         UpdatePrivyDid, RecoverPrivyDid, moneyVars
<1> QED
  BY <1>1, <1>2, <1>3, <1>4

-----------------------------------------------------------------------------
\* The inductive invariant holds in every reachable state of the contract.
THEOREM InvAlways == Spec => []Inv
<1>1. Init => TypeOK
  <2> SUFFICES ASSUME Init PROVE TypeOK
    OBVIOUS
  <2>1. regs \in 0..MaxRegs
    BY RegistryAssumption DEF Init
  <2>2. verifier \in BOOLEAN /\ disturbed \in BOOLEAN
    BY DEF Init
  <2> QED
    BY <2>1, <2>2 DEF Init, TypeOK
<1>2. Init => NamesAgree /\ DidsAgree /\ RefundedAtMostPaid
  BY RegistryAssumption DEF Init, NamesAgree, DidsAgree, RefundedAtMostPaid
<1>3. Inv /\ [Next]_vars => Inv'
  BY TypeInductive, NamesInductive, DidsInductive, FeesInductive DEF Inv
<1>4. Init => Inv
  BY <1>1, <1>2 DEF Inv
<1> QED
  BY <1>3, <1>4, PTL DEF Spec

\* Every storage entry keeps its type; no balance of the registry underflows.
THEOREM TypeCorrect == Spec => []TypeOK
<1>1. Inv => TypeOK
  BY DEF Inv
<1> QED
  BY <1>1, InvAlways, PTL

\* get_address and get_username are inverse to each other, whatever users
\* register, delete and unregister.
THEOREM NamesAlwaysAgree == Spec => []NamesAgree
<1>1. Inv => NamesAgree
  BY DEF Inv
<1> QED
  BY <1>1, InvAlways, PTL

\* get_wallet_for_did and get_did_for_wallet are inverse to each other, through
\* every rotation and recovery.
THEOREM DidsAlwaysAgree == Spec => []DidsAgree
<1>1. Inv => DidsAgree
  BY DEF Inv
<1> QED
  BY <1>1, InvAlways, PTL

\* update_profile and unregister_user together never pay a fee back twice.
THEOREM NoDoubleRefund == Spec => []RefundedAtMostPaid
<1>1. Inv => RefundedAtMostPaid
  BY DEF Inv
<1> QED
  BY <1>1, InvAlways, PTL

-----------------------------------------------------------------------------
(***************************************************************************)
(* The escrow covers the deposits.  Before a fee token is configured       *)
(* nobody has a deposit: without that, the first configuration could leave *)
(* deposits uncovered.                                                     *)
(***************************************************************************)
Covered ==
    /\ feeToken = None => \A u \in Accounts : deposit[u] = 0
    /\ ~disturbed /\ feeToken # None => escrow[feeToken] >= Sum(deposit, Accounts)

\* One user's deposit changes.
LEMMA DepositChanges ==
    ASSUME TypeOK, NEW u \in Accounts, NEW m \in Nat
    PROVE  /\ Sum([deposit EXCEPT ![u] = m], Accounts) = Sum(deposit, Accounts) - deposit[u] + m
           /\ Sum(deposit, Accounts) \in Nat /\ deposit[u] \in Nat
           /\ deposit[u] <= Sum(deposit, Accounts)
<1>1. IsFiniteSet(Accounts) /\ deposit \in [Accounts -> Int] /\ \A a \in Accounts : deposit[a] \in Nat
  BY RegistryAssumption DEF TypeOK
<1> DEFINE new == [deposit EXCEPT ![u] = m]
<1>2. new \in [Accounts -> Int] /\ new[u] = m /\ \A a \in Accounts \ {u} : new[a] = deposit[a]
  BY <1>1
<1> HIDE DEF new
<1>3. Sum(new, Accounts) = Sum(deposit, Accounts) - deposit[u] + new[u]
  BY <1>1, <1>2, SumChange
<1>4. deposit[u] <= Sum(deposit, Accounts) /\ Sum(deposit, Accounts) \in Nat
  BY <1>1, SumBounds
<1>5. Sum(new, Accounts) = Sum(deposit, Accounts) - deposit[u] + m
  BY <1>2, <1>3
<1> QED
  BY <1>1, <1>4, <1>5 DEF new

\* register_user brings the fee; a deposit that delete_profile left behind is
\* written over and stays in the escrow.
LEMMA RegisterKeepsCovered ==
    ASSUME TypeOK, Covered, NEW u \in Accounts, NEW n \in Names, RegisterUser(u, n)
    PROVE  Covered'
<1>1. feeToken \in Tokens /\ feeToken' = feeToken /\ feeToken # None /\ feeAmount \in Nat
  BY DEF TypeOK, RegisterUser, feeVars
<1>2. escrow'[feeToken] = escrow[feeToken] + feeAmount /\ escrow[feeToken] \in Nat
  BY <1>1 DEF TypeOK, RegisterUser
<1>3. /\ Sum(deposit', Accounts) = Sum(deposit, Accounts) - deposit[u] + feeAmount
      /\ Sum(deposit, Accounts) \in Nat /\ deposit[u] \in Nat
  BY <1>1, DepositChanges DEF RegisterUser
<1>4. disturbed' = disturbed
  BY DEF RegisterUser
<1> QED
  BY <1>1, <1>2, <1>3, <1>4 DEF Covered

\* A refund takes from the escrow what it takes from the deposits.
LEMMA RefundKeepsCovered ==
    ASSUME TypeOK, Covered, NEW u \in Accounts, Refund(u), UNCHANGED <<feeVars, disturbed>>
    PROVE  Covered'
<1>0. feeToken' = feeToken /\ disturbed' = disturbed
  BY DEF feeVars
<1>1. CASE UNCHANGED moneyVars
  BY <1>0, <1>1 DEF Covered, moneyVars
<1>2. CASE /\ feeToken # None /\ escrow[feeToken] >= deposit[u]
           /\ escrow' = [escrow EXCEPT ![feeToken] = @ - deposit[u]]
           /\ deposit' = [deposit EXCEPT ![u] = 0]
  <2>1. feeToken \in Tokens /\ escrow[feeToken] \in Nat
    BY <1>2 DEF TypeOK
  <2>2. escrow'[feeToken] = escrow[feeToken] - deposit[u]
    BY <1>2, <2>1 DEF TypeOK
  <2>3. /\ Sum(deposit', Accounts) = Sum(deposit, Accounts) - deposit[u] + 0
        /\ Sum(deposit, Accounts) \in Nat /\ deposit[u] \in Nat
    BY <1>2, DepositChanges
  <2> QED
    BY <1>0, <1>2, <2>1, <2>2, <2>3 DEF Covered
<1> QED
  BY <1>1, <1>2 DEF Refund, CanPay, RefundAmount, DepositCleared

\* The first configuration finds no deposits; a later one for another token, and
\* a rescue, are disturbances.
LEMMA ConfigKeepsCovered ==
    ASSUME TypeOK, Covered, NEW t \in Tokens, NEW m \in Amounts, SetReservationConfig(t, m)
    PROVE  Covered'
<1>0. deposit' = deposit /\ escrow' = escrow /\ feeToken' = t /\ t # None
      /\ disturbed' = (disturbed \/ feeToken \notin {None, t})
  BY RegistryAssumption DEF SetReservationConfig, moneyVars
<1>1. CASE feeToken = None
  <2>1. Sum(deposit, Accounts) = 0
    BY <1>1, SumZero, RegistryAssumption DEF Covered
  <2>2. escrow[t] \in Nat
    BY DEF TypeOK
  <2> QED
    BY <1>0, <2>1, <2>2 DEF Covered
<1>2. CASE feeToken = t
  BY <1>0, <1>2 DEF Covered
<1>3. CASE feeToken \notin {None, t}
  BY <1>0, <1>3 DEF Covered
<1> QED
  BY <1>1, <1>2, <1>3

LEMMA CoveredInductive == TypeOK /\ Covered /\ [Next]_vars => Covered'
<1> SUFFICES ASSUME TypeOK, Covered, [Next]_vars PROVE Covered'
  OBVIOUS
<1>1. ASSUME NEW u \in Accounts, UpdateProfile(u) \/ UnregisterUser(u) PROVE Covered'
  BY <1>1, RefundKeepsCovered DEF UpdateProfile, UnregisterUser
<1>2. ASSUME NEW t \in Tokens, RescueToken(t) PROVE Covered'
  BY <1>2 DEF RescueToken, Covered, feeVars
<1>3. CASE UNCHANGED <<feeToken, deposit, escrow, disturbed>>
  BY <1>3 DEF Covered
<1>4. \/ UNCHANGED <<feeToken, deposit, escrow, disturbed>>
      \/ \E t \in Tokens : RescueToken(t) \/ \E m \in Amounts : SetReservationConfig(t, m)
      \/ \E u \in Accounts : \/ UpdateProfile(u) \/ UnregisterUser(u)
                             \/ \E n \in Names : RegisterUser(u, n)
  BY DEF Next, vars, Initialize, ProposeNewAdmin, ClaimAdmin, SetPrivyVerifier, DeleteProfile,
         UnlinkPrivyDid, RegisterPrivyDid, UpdatePrivyDid, RecoverPrivyDid, moneyVars, feeVars
<1> QED
  BY <1>1, <1>2, <1>3, <1>4, RegisterKeepsCovered, ConfigKeepsCovered

\* Unless an admin drained or switched the fee token, the registry can pay every
\* open deposit back at once, for every finite set of users.
THEOREM EscrowAlwaysCovers == Spec => []EscrowCoversDeposits
<1>1. Init => Covered
  BY DEF Init, Covered
<1>2. TypeOK /\ Covered => EscrowCoversDeposits
  <2> SUFFICES ASSUME TypeOK, Covered PROVE EscrowCoversDeposits
    OBVIOUS
  <2>1. DOMAIN deposit = Accounts
    BY DEF TypeOK
  <2> QED
    BY <2>1 DEF Covered, EscrowCoversDeposits, FoldFunction, Sum
<1> QED
  BY <1>1, <1>2, CoveredInductive, TypeCorrect, PTL DEF Spec
=============================================================================
