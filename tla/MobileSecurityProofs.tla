------------------------ MODULE MobileSecurityProofs ------------------------
(***************************************************************************)
(* What the phone keeps about its user, for every set of keys, tokens,     *)
(* phrases, names, versions, contacts and sessions and however long it is  *)
(* used.  Each part has an inductive invariant of its own; the parts share *)
(* no state, so together they are preserved by every step.  Where the code *)
(* loops over a list (a filter, a comparison of versions, the recent       *)
(* recipients) a lemma first says what the loop computes, by looking at    *)
(* the smallest index at which it would not.  Assumed is what the code     *)
(* leaves to chance and the runs fix: that no token is set or deleted      *)
(* during a rotation, the storage answers before the PIN button is pressed *)
(* again, one PIN is verified at a time, a payment is not confirmed while  *)
(* the status is read, one username is resolved at a time, and crash       *)
(* reports neither overlap nor fail to read their queue.                   *)
(***************************************************************************)
EXTENDS MobileSecurity, SequenceTheorems, FiniteSetTheorems, FunctionTheorems, WellFoundedInduction, TLAPS

-----------------------------------------------------------------------------
(***************************************************************************)
(* The keychain.                                                           *)
(***************************************************************************)
Values == Tokens \cup {NoToken}

RotationState ==
    [step : {"idle", "read", "write", "switch", "delete", "stamp"}, from : {0, 1},
     tokens : [Keys -> Values], left : SUBSET Keys, missed : SUBSET Keys]

\* What the callers are promised: the key is held, and no failed read bears on it.
Trusted(k) == last[k] # NoToken /\ k \notin doubted

\* The version is the one the rotation read until it switches, and then the
\* other; where the version could not be read, every key is in doubt.
VersionFollows ==
    Keys \subseteq doubted \/
        /\ rotation.step \in {"read", "write", "switch"} => version = rotation.from
        /\ rotation.step \in {"delete", "stamp"} => version = 1 - rotation.from

\* What a rotation has read and copied of the trusted keys.
SlotIsEmpty(k) == stored[PlaceOf(rotation.from)][k] = NoToken
HasRead(k) == rotation.tokens[k] = last[k]
HasWritten(k) == stored[PlaceOf(1 - rotation.from)][k] = last[k]
Copied ==
    \A k \in Keys : Trusted(k) =>
        /\ rotation.step = "read" /\ k \in rotation.missed => SlotIsEmpty(k)
        /\ rotation.step = "read" /\ k \notin rotation.left => HasRead(k)
        /\ rotation.step = "write" => HasRead(k)
        /\ rotation.step = "write" /\ k \notin rotation.left => HasWritten(k)
        /\ rotation.step \in {"switch", "delete", "stamp"} => HasWritten(k)

\* Only while it reads does a rotation turn to the bare key of a token.
MissedWhileReading == rotation.missed \subseteq rotation.left /\ (rotation.missed # {} => rotation.step = "read")

\* A key that is being deleted has been given up.
GivenUp == \A k \in deleting : last[k] = NoToken

KeychainInv ==
    /\ KeychainTypeOK /\ rotation \in RotationState /\ MissedWhileReading
    /\ VersionFollows /\ Copied /\ GivenUp /\ TokenKept

LEMMA PlacesDiffer ==
    ASSUME NEW v \in {0, 1}
    PROVE  /\ PlaceOf(v) \in Stores /\ PlaceOf(1 - v) \in Stores /\ "bare" \in Stores
           /\ PlaceOf(v) # PlaceOf(1 - v) /\ PlaceOf(v) # "bare" /\ PlaceOf(1 - v) # "bare"
           /\ 1 - v \in {0, 1} /\ 1 - (1 - v) = v
BY DEF PlaceOf, Stores

LEMMA IdleTyped ==
    Idle \in RotationState /\ Idle.step = "idle" /\ Idle.from = 0 /\ Idle.missed = {} /\ Idle.left = {}
BY DEF Idle, RotationState, Values

\* One key more is done with; at the last one the next step begins.
LEMMA Advances ==
    ASSUME NEW r \in RotationState, NEW k \in r.left, r.step \in {"read", "write", "delete"}
    PROVE  LET a == Advance(r, k)
           IN  /\ a \in RotationState /\ a.from = r.from /\ a.tokens = r.tokens /\ a.missed = r.missed
               /\ \/ a.step = r.step /\ a.left = r.left \ {k}
                  \/ r.left = {k} /\ a.left = Keys /\ a.step = Following(r.step)
<1>1. Following(r.step) \in {"write", "switch", "stamp"}
  BY DEF Following
<1> HIDE DEF Following
<1> QED
  BY <1>1 DEF Advance, RotationState

LEMMA KeychainTypes ==
    ASSUME KeychainInv
    PROVE  /\ stored \in [Stores -> [Keys -> Values]] /\ version \in {0, 1} /\ due \in BOOLEAN
           /\ last \in [Keys -> Values] /\ rotation \in RotationState /\ rotation.from \in {0, 1}
           /\ rotation.missed \subseteq rotation.left /\ rotation.left \subseteq Keys
           /\ deleting \subseteq Keys /\ doubted \subseteq Keys
           /\ NoToken \in Values /\ Tokens \subseteq Values /\ NoToken \notin Tokens
           /\ PlaceOf(version) \in Stores /\ PlaceOf(version) # "bare" /\ "bare" \in Stores
BY PlacesDiffer, TokensDiffer DEF KeychainInv, KeychainTypeOK, RotationState, MissedWhileReading, Values

\* Where nothing changes in the active slot and under the bare key of a key,
\* it reads the same.
LEMMA ReadsAlike ==
    ASSUME version' = version, NEW k \in Keys, stored'[PlaceOf(version)][k] = stored[PlaceOf(version)][k],
           stored'["bare"][k] = stored["bare"][k]
    PROVE  RotatedToken(k)' = RotatedToken(k)
BY DEF RotatedToken, LegacyToken, PlaceOf

\* While nothing is set or deleted, the invariant is that of the rotation.
LEMMA RotationKeeps ==
    ASSUME KeychainInv, stored' \in [Stores -> [Keys -> Values]], version' \in {0, 1}, rotation' \in RotationState,
           MissedWhileReading', due' \in BOOLEAN, last' = last, deleting' \subseteq deleting,
           doubted \subseteq doubted', doubted' \subseteq Keys, VersionFollows', Copied',
           \A k \in Keys : Trusted(k) => RotatedToken(k)' = RotatedToken(k)
    PROVE  KeychainInv'
<1>1. KeychainTypeOK'
  BY KeychainTypes DEF KeychainTypeOK, RotationState, Values
<1>2. TokenKept' /\ GivenUp'
  BY DEF KeychainInv, TokenKept, Trusted, GivenUp
<1> QED
  BY <1>1, <1>2 DEF KeychainInv, RotationState, Values

\* Steps that write nothing but the rotation itself, doubts, the stamp or the timer.
LEMMA BookkeepingStep ==
    ASSUME KeychainInv, UNCHANGED <<stored, version, last>>, due' \in BOOLEAN, rotation' \in RotationState,
           MissedWhileReading', deleting' \subseteq deleting,
           doubted \subseteq doubted', doubted' \subseteq Keys, VersionFollows', Copied'
    PROVE  KeychainInv' /\ \A k \in Keys : RotatedToken(k)' = RotatedToken(k)
<1>1. \A k \in Keys : RotatedToken(k)' = RotatedToken(k)
  BY ReadsAlike
<1> QED
  BY <1>1, RotationKeeps, KeychainTypes

\* A token is set in one place while nothing else is under way; where the
\* version was misread, the key is in doubt.
LEMMA SetStep ==
    ASSUME KeychainInv, ~OverlapSets, NEW k \in Keys, NEW t \in Tokens,
           SetRotatedToken(k, t) \/ SetSessionToken(k, t)
    PROVE  /\ KeychainInv'
           /\ \A j \in Keys \ {k} : RotatedToken(j)' = RotatedToken(j)
           /\ last' = [last EXCEPT ![k] = t]
           /\ \/ doubted' = doubted \ {k} /\ RotatedToken(k)' = t
              \/ doubted' = doubted \cup {k}
<1>0. /\ rotation = Idle /\ deleting = {} /\ last' = [last EXCEPT ![k] = t]
      /\ UNCHANGED <<version, rotation, deleting, due>>
  BY DEF SetRotatedToken, SetSessionToken, Undisturbed
<1>1. PICK p \in Stores :
        /\ stored' = [stored EXCEPT ![p][k] = t]
        /\ \/ /\ doubted' = doubted \ {k}
              /\ p = PlaceOf(version) \/ (p = "bare" /\ stored[PlaceOf(version)][k] = NoToken)
           \/ doubted' = doubted \cup {k}
  <2>1. CASE SetRotatedToken(k, t)
    <3>1. PICK v \in {version, 0} : /\ stored' = [stored EXCEPT ![PlaceOf(v)][k] = t]
                                    /\ doubted' = IF v = version THEN doubted \ {k} ELSE doubted \cup {k}
      BY <2>1 DEF SetRotatedToken, ActiveKeyVersions
    <3>2. PlaceOf(v) \in Stores
      BY DEF PlaceOf, Stores
    <3> QED
      BY <3>1, <3>2
  <2>2. CASE SetSessionToken(k, t)
    BY <2>2, KeychainTypes DEF SetSessionToken
  <2> QED
    BY <2>1, <2>2
<1>2. stored' \in [Stores -> [Keys -> Values]]
  BY <1>1, KeychainTypes
<1>3. \A q \in Stores, j \in Keys : stored'[q][j] = IF q = p /\ j = k THEN t ELSE stored[q][j]
  BY <1>1, <1>2, KeychainTypes
<1>4. \A j \in Keys \ {k} : RotatedToken(j)' = RotatedToken(j)
  BY <1>0, <1>3, ReadsAlike, KeychainTypes
<1>5. RotatedToken(k)' = t \/ doubted' = doubted \cup {k}
  <2>1. RotatedToken(k)' = IF stored'[PlaceOf(version)][k] # NoToken
                           THEN stored'[PlaceOf(version)][k] ELSE stored'["bare"][k]
    BY <1>0 DEF RotatedToken, LegacyToken, PlaceOf
  <2> QED
    BY <1>1, <1>3, <2>1, KeychainTypes
<1>6. last' \in [Keys -> Values] /\ \A j \in Keys : last'[j] = IF j = k THEN t ELSE last[j]
  BY <1>0, KeychainTypes
<1>7. TokenKept' /\ doubted' \subseteq Keys
  <2>1. \A j \in Keys : last[j] # NoToken /\ j \notin doubted => RotatedToken(j) = last[j]
    BY DEF KeychainInv, TokenKept
  <2>2. \A j \in Keys : last'[j] # NoToken /\ j \notin doubted' => RotatedToken(j)' = last'[j]
    BY <1>1, <1>4, <1>5, <1>6, <2>1
  <2> QED
    BY <1>1, <2>2, KeychainTypes DEF TokenKept
<1>8. KeychainTypeOK'
  BY <1>0, <1>2, <1>6, <1>7 DEF KeychainInv, KeychainTypeOK, Values, Stores
<1>9. VersionFollows' /\ Copied' /\ GivenUp' /\ MissedWhileReading'
  BY <1>0, IdleTyped DEF VersionFollows, Copied, GivenUp, MissedWhileReading
<1> QED
  BY <1>0, <1>1, <1>4, <1>5, <1>7, <1>8, <1>9, IdleTyped DEF KeychainInv, RotationState, Values

\* A token is deleted, or not, in one place; of the key nothing is promised.
LEMMA RemovalStep ==
    ASSUME KeychainInv, NEW k \in Keys, NEW p \in Stores, DeleteItem(p, k), last' = [last EXCEPT ![k] = NoToken],
           deleting' \subseteq deleting \cup {k}, UNCHANGED <<version, rotation, due, doubted>>
    PROVE  KeychainInv' /\ \A j \in Keys \ {k} : RotatedToken(j)' = RotatedToken(j)
<1>1. /\ stored' \in [Stores -> [Keys -> Values]]
      /\ \A q \in Stores, j \in Keys \ {k} : stored'[q][j] = stored[q][j]
  BY KeychainTypes DEF DeleteItem
<1>2. \A j \in Keys \ {k} : RotatedToken(j)' = RotatedToken(j)
  BY <1>1, ReadsAlike, KeychainTypes
<1>3. last' \in [Keys -> Values] /\ \A j \in Keys : last'[j] = IF j = k THEN NoToken ELSE last[j]
  BY KeychainTypes
<1>4. TokenKept' /\ GivenUp'
  <2>1. \A j \in Keys : last'[j] # NoToken /\ j \notin doubted' => RotatedToken(j)' = last'[j]
    BY <1>2, <1>3 DEF KeychainInv, TokenKept
  <2> QED
    BY <1>3, <2>1, KeychainTypes DEF KeychainInv, TokenKept, GivenUp
<1>5. KeychainTypeOK'
  <2>1. deleting' \subseteq Keys /\ doubted' \subseteq Keys
    BY KeychainTypes
  <2> QED
    BY <1>1, <1>3, <2>1 DEF KeychainInv, KeychainTypeOK, Values, Stores
<1>6. VersionFollows' /\ MissedWhileReading'
  BY DEF KeychainInv, VersionFollows, MissedWhileReading
<1>7. Copied'
  <2> SUFFICES ASSUME NEW j \in Keys, Trusted(j)'
               PROVE  /\ rotation.step = "read" /\ j \in rotation.missed => SlotIsEmpty(j)'
                      /\ rotation.step = "read" /\ j \notin rotation.left => HasRead(j)'
                      /\ rotation.step = "write" => HasRead(j)'
                      /\ rotation.step = "write" /\ j \notin rotation.left => HasWritten(j)'
                      /\ rotation.step \in {"switch", "delete", "stamp"} => HasWritten(j)'
    BY DEF Copied
  <2>1. j # k /\ last'[j] = last[j] /\ Trusted(j)
    BY <1>3 DEF Trusted
  <2>2. PlaceOf(rotation.from) \in Stores /\ PlaceOf(1 - rotation.from) \in Stores
    BY KeychainTypes, PlacesDiffer
  <2>3. /\ SlotIsEmpty(j)' <=> SlotIsEmpty(j)
        /\ HasRead(j)' <=> HasRead(j)
        /\ HasWritten(j)' <=> HasWritten(j)
    BY <1>1, <2>1, <2>2 DEF SlotIsEmpty, HasRead, HasWritten, PlaceOf
  <2> QED
    BY <2>1, <2>3 DEF KeychainInv, Copied
<1> QED
  BY <1>2, <1>4, <1>5, <1>6, <1>7 DEF KeychainInv, RotationState, Values

LEMMA DeleteStep ==
    ASSUME KeychainInv, NEW k \in Keys, DeleteRotatedToken(k) \/ DeleteLegacy(k)
    PROVE  /\ KeychainInv' /\ UNCHANGED doubted
           /\ \A j \in Keys \ {k} : RotatedToken(j)' = RotatedToken(j)
           /\ last' = [last EXCEPT ![k] = NoToken]
<1>1. CASE DeleteRotatedToken(k)
  <2>1. PICK p \in Stores : DeleteItem(p, k)
    <3>1. PICK v \in ActiveKeyVersions : DeleteItem(PlaceOf(v), k)
      BY <1>1 DEF DeleteRotatedToken
    <3>2. PlaceOf(v) \in Stores
      BY DEF PlaceOf, Stores
    <3> QED
      BY <3>1, <3>2
  <2> QED
    BY <1>1, <2>1, RemovalStep DEF DeleteRotatedToken
<1>2. CASE DeleteLegacy(k)
  <2>1. k \in deleting /\ last[k] = NoToken /\ last \in [Keys -> Values]
    BY <1>2, KeychainTypes DEF DeleteLegacy, KeychainInv, GivenUp
  <2>2. last' = [last EXCEPT ![k] = NoToken] /\ "bare" \in Stores
    BY <1>2, <2>1 DEF DeleteLegacy, Stores
  <2> QED
    BY <1>2, <2>2, RemovalStep DEF DeleteLegacy
<1> QED
  BY <1>1, <1>2

\* What a trusted key says of the rotation.
LEMMA TrustedFollows ==
    ASSUME KeychainInv, NEW k \in Keys, Trusted(k)
    PROVE  /\ rotation.step \in {"read", "write", "switch"} => version = rotation.from
           /\ rotation.step \in {"delete", "stamp"} => version = 1 - rotation.from
           /\ RotatedToken(k) = last[k]
BY DEF KeychainInv, VersionFollows, Trusted, TokenKept

\* A token has been read, from the slot or from under the bare key.
LEMMA ReadDone ==
    ASSUME KeychainInv, NEW k \in rotation.left, NEW t \in Values, rotation.step = "read",
           NEW r \in RotationState, r.step = "read", r.left = rotation.left, r.from = rotation.from, r.missed = {},
           r.tokens = [rotation.tokens EXCEPT ![k] = t], rotation' = Advance(r, k),
           UNCHANGED <<stored, version, deleting, due, last>>,
           doubted \subseteq doubted', doubted' \subseteq Keys, Trusted(k)' => t = last[k]
    PROVE  KeychainInv' /\ \A j \in Keys : RotatedToken(j)' = RotatedToken(j)
<1>1. k \in Keys /\ \A j \in Keys : r.tokens[j] = IF j = k THEN t ELSE rotation.tokens[j]
  BY KeychainTypes DEF RotationState
<1>2. /\ rotation' \in RotationState /\ rotation'.from = rotation.from /\ rotation'.tokens = r.tokens
      /\ rotation'.missed = {}
      /\ \/ rotation'.step = "read" /\ rotation'.left = rotation.left \ {k}
         \/ rotation.left = {k} /\ rotation'.left = Keys /\ rotation'.step = "write"
  BY Advances DEF Following
<1>3. VersionFollows'
  BY <1>2 DEF KeychainInv, VersionFollows
<1>4. Copied'
  <2> SUFFICES ASSUME NEW j \in Keys, Trusted(j)', rotation'.step = "write" \/ j \notin rotation'.left
               PROVE  rotation'.tokens[j] = last[j]
    BY <1>2 DEF Copied, HasRead, HasWritten, SlotIsEmpty
  <2>1. CASE j = k
    BY <1>1, <1>2, <2>1
  <2>2. CASE j # k
    <3>1. j \notin rotation.left /\ Trusted(j)
      BY <1>2, <2>2 DEF Trusted
    <3> QED
      BY <1>1, <1>2, <2>2, <3>1 DEF KeychainInv, Copied, HasRead
  <2> QED
    BY <2>1, <2>2
<1>5. MissedWhileReading'
  BY <1>2 DEF MissedWhileReading
<1> QED
  BY <1>2, <1>3, <1>4, <1>5, BookkeepingStep, KeychainTypes

LEMMA ReadSlotStep ==
    ASSUME KeychainInv, NEW k \in Keys, ReadSlot(k)
    PROVE  /\ KeychainInv' /\ UNCHANGED last /\ doubted \subseteq doubted' /\ doubted' \subseteq Keys
           /\ \A j \in Keys : RotatedToken(j)' = RotatedToken(j)
<1> DEFINE there == stored[PlaceOf(rotation.from)][k]
<1>0. /\ rotation.step = "read" /\ k \in rotation.left /\ rotation.missed = {}
      /\ UNCHANGED <<stored, version, deleting, due, last>>
  BY DEF ReadSlot
<1>1. PICK t \in {there, NoToken} :
        /\ rotation' = IF t # NoToken THEN Advance([rotation EXCEPT !.tokens[k] = t], k)
                       ELSE [rotation EXCEPT !.missed = {k}]
        /\ doubted' = IF t = there THEN doubted ELSE doubted \cup {k}
  BY DEF ReadSlot, Given
<1>2. there \in Values /\ t \in Values
  BY <1>1, KeychainTypes, PlacesDiffer
<1>3. doubted \subseteq doubted' /\ doubted' \subseteq Keys
  BY <1>1, KeychainTypes
<1>4. Trusted(k)' => Trusted(k) /\ t = there
  BY <1>0, <1>1 DEF Trusted
<1>5. Trusted(k) => IF there # NoToken THEN there = last[k] ELSE TRUE
  BY <1>0, TrustedFollows DEF RotatedToken
<1> HIDE DEF there
<1>6. CASE t # NoToken
  <2>1. PICK r : r = [rotation EXCEPT !.tokens[k] = t]
    OBVIOUS
  <2>2. /\ r \in RotationState /\ r.step = "read" /\ r.left = rotation.left /\ r.from = rotation.from
        /\ r.missed = {} /\ r.tokens = [rotation.tokens EXCEPT ![k] = t]
    BY <1>0, <1>2, <2>1, KeychainTypes DEF RotationState
  <2>3. rotation' = Advance(r, k) /\ (Trusted(k)' => t = last[k])
    BY <1>1, <1>4, <1>5, <1>6, <2>1
  <2> QED
    BY <1>0, <1>2, <1>3, <2>2, <2>3, ReadDone
<1>7. CASE t = NoToken
  <2>1. /\ rotation' \in RotationState /\ rotation'.step = "read" /\ rotation'.left = rotation.left
        /\ rotation'.from = rotation.from /\ rotation'.tokens = rotation.tokens /\ rotation'.missed = {k}
    BY <1>0, <1>1, <1>7, KeychainTypes DEF RotationState
  <2>2. VersionFollows'
    BY <1>0, <1>3, <2>1 DEF KeychainInv, VersionFollows
  <2>3. Copied'
    <3> SUFFICES ASSUME NEW j \in Keys, Trusted(j)'
                 PROVE  /\ j = k => SlotIsEmpty(j)'
                        /\ j \notin rotation.left => HasRead(j)'
      BY <2>1 DEF Copied
    <3>1. Trusted(j)
      BY <1>0, <1>3 DEF Trusted
    <3>2. j \notin rotation.left => HasRead(j)'
      BY <1>0, <2>1, <3>1 DEF KeychainInv, Copied, HasRead
    <3>3. j = k => SlotIsEmpty(j)'
      <4>1. PlaceOf(rotation.from)' = PlaceOf(rotation.from)
        BY <2>1 DEF PlaceOf
      <4> QED
        BY <1>0, <1>4, <1>7, <4>1 DEF SlotIsEmpty, there
    <3> QED
      BY <3>2, <3>3
  <2>4. MissedWhileReading'
    BY <1>0, <2>1 DEF MissedWhileReading
  <2> QED
    BY <1>0, <1>3, <2>1, <2>2, <2>3, <2>4, BookkeepingStep, KeychainTypes
<1> QED
  BY <1>0, <1>3, <1>6, <1>7

LEMMA ReadLegacyStep ==
    ASSUME KeychainInv, NEW k \in Keys, ReadLegacy(k)
    PROVE  /\ KeychainInv' /\ UNCHANGED last /\ doubted \subseteq doubted' /\ doubted' \subseteq Keys
           /\ \A j \in Keys : RotatedToken(j)' = RotatedToken(j)
<1>0. /\ rotation.step = "read" /\ k \in rotation.missed /\ k \in rotation.left
      /\ UNCHANGED <<stored, version, deleting, due, last>>
  BY KeychainTypes DEF ReadLegacy
<1>1. PICK t \in {LegacyToken(k), NoToken} :
        /\ rotation' = Advance([rotation EXCEPT !.tokens[k] = t, !.missed = {}], k)
        /\ doubted' = IF t = LegacyToken(k) THEN doubted ELSE doubted \cup {k}
  BY DEF ReadLegacy, Given
<1>2. LegacyToken(k) \in Values /\ t \in Values
  BY <1>1, KeychainTypes DEF LegacyToken
<1>3. doubted \subseteq doubted' /\ doubted' \subseteq Keys
  BY <1>1, KeychainTypes
<1>4. Trusted(k)' => Trusted(k) /\ t = LegacyToken(k)
  BY <1>0, <1>1 DEF Trusted
<1>5. Trusted(k) => LegacyToken(k) = last[k]
  BY <1>0, TrustedFollows DEF RotatedToken, KeychainInv, Copied, SlotIsEmpty
<1>6. PICK r : r = [rotation EXCEPT !.tokens[k] = t, !.missed = {}]
  OBVIOUS
<1>7. /\ r \in RotationState /\ r.step = "read" /\ r.left = rotation.left /\ r.from = rotation.from
      /\ r.missed = {} /\ r.tokens = [rotation.tokens EXCEPT ![k] = t]
  BY <1>0, <1>2, <1>6, KeychainTypes DEF RotationState
<1>8. rotation' = Advance(r, k) /\ (Trusted(k)' => t = last[k])
  BY <1>1, <1>4, <1>5, <1>6
<1> QED
  BY <1>0, <1>2, <1>3, <1>7, <1>8, ReadDone

\* The copy goes to the slot nobody reads, unless every key is in doubt.
LEMMA WriteStep ==
    ASSUME KeychainInv, NEW k \in Keys, WriteToken(k)
    PROVE  /\ KeychainInv' /\ UNCHANGED <<last, doubted>>
           /\ \A j \in Keys : Trusted(j) => RotatedToken(j)' = RotatedToken(j)
<1> DEFINE other == PlaceOf(1 - rotation.from)
<1>0. /\ rotation.step = "write" /\ k \in rotation.left /\ rotation' = Advance(rotation, k)
      /\ stored' = IF rotation.tokens[k] = NoToken THEN stored
                   ELSE [stored EXCEPT ![other][k] = rotation.tokens[k]]
      /\ UNCHANGED <<version, deleting, due, last, doubted>>
  BY DEF WriteToken
<1>1. \A j \in Keys : Trusted(j) => version = rotation.from
  BY <1>0, TrustedFollows
<1>2. /\ other \in Stores /\ other # "bare" /\ other # PlaceOf(rotation.from) /\ rotation.tokens[k] \in Values
  BY KeychainTypes, PlacesDiffer DEF RotationState
<1>3. /\ rotation' \in RotationState /\ rotation'.from = rotation.from /\ rotation'.tokens = rotation.tokens
      /\ rotation'.missed = rotation.missed
      /\ \/ rotation'.step = "write" /\ rotation'.left = rotation.left \ {k}
         \/ rotation.left = {k} /\ rotation'.left = Keys /\ rotation'.step = "switch"
  BY <1>0, KeychainTypes, Advances DEF Following
<1>10. MissedWhileReading'
  BY <1>0, <1>3 DEF KeychainInv, MissedWhileReading
<1> HIDE DEF other
<1>4. /\ stored' \in [Stores -> [Keys -> Values]]
      /\ \A q \in Stores \ {other} : stored'[q] = stored[q]
      /\ \A j \in Keys \ {k} : stored'[other][j] = stored[other][j]
      /\ rotation.tokens[k] # NoToken => stored'[other][k] = rotation.tokens[k]
  BY <1>0, <1>2, KeychainTypes
<1>5. \A j \in Keys : Trusted(j) => RotatedToken(j)' = RotatedToken(j)
  BY <1>0, <1>1, <1>2, <1>4, ReadsAlike, KeychainTypes
<1>6. VersionFollows'
  BY <1>0, <1>3 DEF KeychainInv, VersionFollows
<1>7. \A j \in Keys : Trusted(j) =>
        /\ rotation.tokens[j] = last[j] /\ last[j] # NoToken
        /\ j \notin rotation.left => stored[other][j] = last[j]
  BY <1>0 DEF KeychainInv, Copied, HasRead, HasWritten, Trusted, other
<1>8. \A j \in Keys : Trusted(j) /\ (j \notin rotation'.left \/ rotation'.step = "switch") =>
        stored'[other][j] = last[j]
  BY <1>3, <1>4, <1>7
<1>9. Copied'
  <2>1. PlaceOf(1 - rotation.from)' = other
    BY <1>3 DEF other, PlaceOf
  <2>2. \A j \in Keys : Trusted(j)' = Trusted(j)
    BY <1>0 DEF Trusted
  <2> QED
    BY <1>0, <1>3, <1>7, <1>8, <2>1, <2>2 DEF Copied, HasRead, HasWritten
<1> QED
  BY <1>0, <1>3, <1>4, <1>5, <1>6, <1>9, <1>10, RotationKeeps, KeychainTypes

\* The switch: what is trusted reads the same from the other slot.
LEMMA SwitchStep ==
    ASSUME KeychainInv, SwitchVersion
    PROVE  /\ KeychainInv' /\ UNCHANGED <<last, doubted>>
           /\ \A j \in Keys : Trusted(j) => RotatedToken(j)' = RotatedToken(j)
<1>0. /\ rotation.step = "switch" /\ version' = 1 - rotation.from
      /\ rotation' = [rotation EXCEPT !.step = "delete", !.left = Keys]
      /\ UNCHANGED <<stored, deleting, due, last, doubted>>
  BY DEF SwitchVersion, Following
<1>1. /\ rotation' \in RotationState /\ rotation'.from = rotation.from /\ rotation'.step = "delete"
      /\ version' \in {0, 1} /\ rotation'.missed = rotation.missed
  BY <1>0, KeychainTypes, PlacesDiffer DEF RotationState
<1>2. \A j \in Keys : Trusted(j) => stored[PlaceOf(1 - rotation.from)][j] = last[j] /\ last[j] # NoToken
  BY <1>0 DEF KeychainInv, Copied, HasWritten, Trusted
<1>3. \A j \in Keys : Trusted(j) => RotatedToken(j)' = RotatedToken(j)
  <2>1. \A j \in Keys : Trusted(j) => RotatedToken(j)' = last[j]
    BY <1>0, <1>2 DEF RotatedToken, LegacyToken, PlaceOf
  <2> QED
    BY <2>1, TrustedFollows
<1>4. VersionFollows'
  BY <1>0, <1>1 DEF VersionFollows
<1>5. Copied'
  <2>1. \A j \in Keys : Trusted(j)' = Trusted(j)
    BY <1>0 DEF Trusted
  <2> QED
    BY <1>0, <1>1, <1>2, <2>1 DEF Copied, HasWritten, PlaceOf
<1>6. MissedWhileReading'
  BY <1>0, <1>1 DEF KeychainInv, MissedWhileReading
<1> QED
  BY <1>0, <1>1, <1>3, <1>4, <1>5, <1>6, RotationKeeps, KeychainTypes

\* Whatever the best-effort deletions leave, what is trusted is in the active slot.
LEMMA DeleteOldStep ==
    ASSUME KeychainInv, NEW k \in Keys, DeleteOld(k)
    PROVE  /\ KeychainInv' /\ UNCHANGED <<last, doubted>>
           /\ \A j \in Keys : Trusted(j) => RotatedToken(j)' = RotatedToken(j)
<1> DEFINE active == PlaceOf(1 - rotation.from)
<1>0. PICK gone \in SUBSET {PlaceOf(rotation.from), "bare"} :
        stored' = [q \in Stores |-> IF q \in gone THEN [stored[q] EXCEPT ![k] = NoToken] ELSE stored[q]]
  BY DEF DeleteOld
<1>1. /\ rotation.step = "delete" /\ k \in rotation.left /\ rotation' = Advance(rotation, k)
      /\ UNCHANGED <<version, deleting, due, last, doubted>>
  BY DEF DeleteOld
<1>2. active \notin gone /\ active \in Stores
  BY <1>0, KeychainTypes, PlacesDiffer
<1>3. stored' \in [Stores -> [Keys -> Values]] /\ stored'[active] = stored[active]
  BY <1>0, <1>2, KeychainTypes
<1>4. /\ rotation' \in RotationState /\ rotation'.from = rotation.from /\ rotation'.missed = rotation.missed
      /\ rotation'.step \in {"delete", "stamp"}
  BY <1>1, KeychainTypes, Advances DEF Following
<1>9. MissedWhileReading'
  BY <1>1, <1>4 DEF KeychainInv, MissedWhileReading
<1>5. \A j \in Keys : Trusted(j) => stored[active][j] = last[j] /\ version = 1 - rotation.from /\ last[j] # NoToken
  BY <1>1, TrustedFollows DEF KeychainInv, Copied, HasWritten, Trusted
<1>6. \A j \in Keys : Trusted(j) => RotatedToken(j)' = RotatedToken(j)
  <2>1. \A j \in Keys : Trusted(j) => RotatedToken(j)' = last[j]
    BY <1>1, <1>3, <1>5 DEF RotatedToken, LegacyToken, PlaceOf
  <2> QED
    BY <2>1, TrustedFollows
<1>7. VersionFollows'
  BY <1>1, <1>4 DEF KeychainInv, VersionFollows
<1>8. Copied'
  <2>1. PlaceOf(1 - rotation.from)' = active
    BY <1>4 DEF PlaceOf
  <2>2. \A j \in Keys : Trusted(j)' = Trusted(j)
    BY <1>1 DEF Trusted
  <2> QED
    BY <1>1, <1>3, <1>4, <1>5, <2>1, <2>2 DEF Copied, HasWritten
<1> QED
  BY <1>1, <1>3, <1>4, <1>6, <1>7, <1>8, <1>9, RotationKeeps, KeychainTypes

LEMMA RestStep ==
    ASSUME KeychainInv, StartRotation \/ StampRotation \/ StopRotation \/ IntervalElapses
    PROVE  /\ KeychainInv' /\ UNCHANGED last /\ doubted \subseteq doubted' /\ doubted' \subseteq Keys
           /\ \A j \in Keys : RotatedToken(j)' = RotatedToken(j)
<1>0. /\ UNCHANGED <<stored, version, last>> /\ due' \in BOOLEAN /\ deleting' \subseteq deleting
      /\ doubted \subseteq doubted' /\ doubted' \subseteq Keys
  BY KeychainTypes DEF StartRotation, StampRotation, StopRotation, IntervalElapses
<1>1. CASE StartRotation
  <2>1. /\ rotation' \in RotationState /\ rotation'.step = "read" /\ rotation'.missed = {}
        /\ rotation'.left = Keys /\ (rotation'.from = version \/ doubted' = Keys)
    <3>1. PICK v \in {version, 0} :
            /\ rotation' = [Idle EXCEPT !.step = "read", !.from = v, !.left = Keys]
            /\ doubted' = IF v = version THEN doubted ELSE Keys
      BY <1>1 DEF StartRotation, ActiveKeyVersions
    <3>2. v \in {0, 1}
      BY KeychainTypes
    <3> QED
      BY <3>1, <3>2, IdleTyped DEF Idle, RotationState
  <2>2. VersionFollows' /\ Copied' /\ MissedWhileReading'
    BY <1>0, <2>1 DEF VersionFollows, Copied, MissedWhileReading
  <2> QED
    BY <1>0, <2>1, <2>2, BookkeepingStep
<1>2. CASE StampRotation \/ StopRotation
  <2>1. rotation' = Idle
    BY <1>2 DEF StampRotation, StopRotation
  <2>2. VersionFollows' /\ Copied' /\ MissedWhileReading'
    BY <2>1, IdleTyped DEF VersionFollows, Copied, MissedWhileReading
  <2> QED
    BY <1>0, <2>1, <2>2, IdleTyped, BookkeepingStep
<1>3. CASE IntervalElapses
  <2>1. UNCHANGED <<rotation, doubted>>
    BY <1>3 DEF IntervalElapses
  <2>2. VersionFollows' /\ Copied' /\ MissedWhileReading'
    BY <1>0, <2>1 DEF KeychainInv, VersionFollows, Copied, HasRead, HasWritten, SlotIsEmpty, Trusted, MissedWhileReading
  <2> QED
    BY <1>0, <2>1, <2>2, KeychainTypes, BookkeepingStep
<1> QED
  BY <1>0, <1>1, <1>2, <1>3

LEMMA KeychainStarts == ASSUME KeychainInit PROVE KeychainInv
<1>1. KeychainTypeOK
  BY IdleTyped DEF KeychainInit, KeychainTypeOK, Empty, Idle, Stores
<1>2. rotation \in RotationState /\ MissedWhileReading /\ VersionFollows /\ Copied
  BY IdleTyped DEF KeychainInit, VersionFollows, Copied, MissedWhileReading
<1>3. TokenKept /\ GivenUp
  BY DEF KeychainInit, TokenKept, GivenUp, Empty
<1> QED
  BY <1>1, <1>2, <1>3 DEF KeychainInv

LEMMA KeychainStep == ASSUME KeychainInv, ~OverlapSets, [KeychainNext]_keychainVars PROVE KeychainInv'
<1>1. CASE UNCHANGED keychainVars
  <2>1. UNCHANGED <<stored, version, rotation, deleting, due, last, doubted>>
    BY <1>1 DEF keychainVars
  <2>2. VersionFollows' /\ Copied' /\ MissedWhileReading'
    BY <2>1 DEF KeychainInv, VersionFollows, Copied, HasRead, HasWritten, SlotIsEmpty, Trusted, MissedWhileReading
  <2> QED
    BY <2>1, <2>2, KeychainTypes, BookkeepingStep
<1> QED
  BY <1>1, SetStep, DeleteStep, ReadSlotStep, ReadLegacyStep, WriteStep, SwitchStep, DeleteOldStep, RestStep
     DEF KeychainNext

\* The refinement mapping of MobileKeychain.
GivenKeys == [k \in Keys |-> last[k] # NoToken]
Read == [k \in Keys |-> RotatedToken(k)]

LEMMA MappingStarts == ASSUME KeychainInit PROVE Store!StoreInit
BY DEF KeychainInit, Store!StoreInit, RotatedToken, LegacyToken, PlaceOf, Empty, Stores

LEMMA ReadTypedNext == ASSUME KeychainInv' PROVE Read' \in Store!Values
<1>1. stored' \in [Stores -> [Keys -> Values]] /\ version' \in {0, 1}
  BY DEF KeychainInv, KeychainTypeOK, Values
<1>2. \A k \in Keys : RotatedToken(k)' \in Values
  BY <1>1 DEF RotatedToken, LegacyToken, PlaceOf, Stores
<1> QED
  BY <1>2 DEF Read, Values, Store!Values

\* A step that casts doubt and shows nothing.
LEMMA DoubtsOnly ==
    ASSUME UNCHANGED last, doubted \subseteq doubted', doubted' \subseteq Keys,
           \A k \in Keys : RotatedToken(k)' = RotatedToken(k)
    PROVE  Store!StoreNext
<1>1. GivenKeys' = GivenKeys /\ Read' = Read
  BY DEF GivenKeys, Read
<1>2. Store!ReadFails
  BY <1>1 DEF Store!ReadFails, GivenKeys, Read
<1> QED
  BY <1>2 DEF Store!StoreNext

\* A step after which what is trusted reads the same.
LEMMA HeldReadsSame ==
    ASSUME KeychainInv, KeychainInv', UNCHANGED <<last, doubted>>,
           \A k \in Keys : Trusted(k) => RotatedToken(k)' = RotatedToken(k)
    PROVE  Store!StoreNext
<1>1. GivenKeys' = GivenKeys
  BY DEF GivenKeys
<1>2. Read' \in Store!Values
  BY ReadTypedNext
<1>3. \A k \in Keys : Store!Held(k) => Read'[k] = Read[k]
  BY DEF Store!Held, GivenKeys, Read, Trusted
<1>4. Store!LeftoverAppears
  BY <1>1, <1>2, <1>3 DEF Store!LeftoverAppears, GivenKeys, Read
<1> QED
  BY <1>4 DEF Store!StoreNext

LEMMA MappingStep ==
    ASSUME KeychainInv, ~OverlapSets, [KeychainNext]_keychainVars
    PROVE  [Store!StoreNext]_<<GivenKeys, doubted, Read>>
<1>0. KeychainInv'
  BY KeychainStep
<1>1. ASSUME NEW k \in Keys, NEW t \in Tokens, SetRotatedToken(k, t) \/ SetSessionToken(k, t)
      PROVE  Store!StoreNext
  <2>1. /\ last' = [last EXCEPT ![k] = t] /\ last \in [Keys -> Values] /\ t # NoToken
        /\ \A j \in Keys \ {k} : RotatedToken(j)' = RotatedToken(j)
        /\ \/ doubted' = doubted \ {k} /\ RotatedToken(k)' = t
           \/ doubted' = doubted \cup {k}
    BY <1>1, SetStep, KeychainTypes
  <2>2. GivenKeys' = [GivenKeys EXCEPT ![k] = TRUE]
    BY <2>1 DEF GivenKeys
  <2>3. CASE doubted' = doubted \ {k} /\ RotatedToken(k)' = t
    <3>1. Read' = [Read EXCEPT ![k] = t]
      BY <2>1, <2>3 DEF Read
    <3>2. Store!SetToken(k, t)
      BY <2>2, <2>3, <3>1 DEF Store!SetToken, GivenKeys, Read
    <3> QED
      BY <3>2 DEF Store!StoreNext
  <2>4. CASE doubted' = doubted \cup {k}
    <3>1. \A j \in Keys \ {k} : Read'[j] = Read[j]
      BY <2>1 DEF Read
    <3>2. Store!SetTokenAstray(k)
      BY <1>0, <2>2, <2>4, <3>1, ReadTypedNext DEF Store!SetTokenAstray, GivenKeys, Read
    <3> QED
      BY <3>2 DEF Store!StoreNext
  <2> QED
    BY <2>1, <2>3, <2>4
<1>2. ASSUME NEW k \in Keys, DeleteRotatedToken(k) \/ DeleteLegacy(k) PROVE Store!StoreNext
  <2>1. /\ last' = [last EXCEPT ![k] = NoToken] /\ last \in [Keys -> Values] /\ UNCHANGED doubted
        /\ \A j \in Keys \ {k} : RotatedToken(j)' = RotatedToken(j)
    BY <1>2, DeleteStep, KeychainTypes
  <2>2. GivenKeys' = [GivenKeys EXCEPT ![k] = FALSE]
    BY <2>1 DEF GivenKeys
  <2>3. \A j \in Keys \ {k} : Read'[j] = Read[j]
    BY <2>1 DEF Read
  <2>4. Store!DeleteToken(k)
    BY <1>0, <2>1, <2>2, <2>3, ReadTypedNext DEF Store!DeleteToken, GivenKeys, Read
  <2> QED
    BY <2>4 DEF Store!StoreNext
<1>3. ASSUME NEW k \in Keys, ReadSlot(k) \/ ReadLegacy(k)
      PROVE  Store!StoreNext
  BY <1>3, ReadSlotStep, ReadLegacyStep, DoubtsOnly
<1>4. ASSUME NEW k \in Keys, WriteToken(k) \/ DeleteOld(k)
      PROVE  Store!StoreNext
  BY <1>0, <1>4, WriteStep, DeleteOldStep, HeldReadsSame
<1>5. CASE SwitchVersion
  BY <1>0, <1>5, SwitchStep, HeldReadsSame
<1>6. CASE StartRotation \/ StampRotation \/ StopRotation \/ IntervalElapses
  BY <1>6, RestStep, DoubtsOnly
<1>7. CASE UNCHANGED keychainVars
  BY <1>7 DEF keychainVars, GivenKeys, Read, RotatedToken, LegacyToken, PlaceOf
<1> QED
  BY <1>1, <1>2, <1>3, <1>4, <1>5, <1>6, <1>7 DEF KeychainNext

-----------------------------------------------------------------------------
(***************************************************************************)
(* The backup screens and the clipboard.                                   *)
(***************************************************************************)
BackupInv ==
    /\ screen \in {"elsewhere", "generating", "failed", "phrase", "verify", "recovery", "restoring"}
    /\ answers \in [given : 0..3, right : BOOLEAN]
    /\ clip \in {"other", "phrase"} /\ clipTimer \in BOOLEAN /\ cancelRef \in BOOLEAN
    /\ PhraseIsTimed

LEMMA BackupStarts == ASSUME BackupInit PROVE BackupInv
<1>1. clipTimer \in BOOLEAN /\ cancelRef \in BOOLEAN
  BY DEF BackupInit
<1>2. answers \in [given : 0..3, right : BOOLEAN]
  BY DEF BackupInit
<1> QED
  BY <1>1, <1>2 DEF BackupInit, BackupInv, PhraseIsTimed

LEMMA BackupRests == ASSUME BackupInv, UNCHANGED backupVars PROVE BackupInv'
BY DEF BackupInv, backupVars, PhraseIsTimed

LEMMA BackupStep == ASSUME BackupInv, BackupNext PROVE BackupInv'
<1>1. clipTimer' \in BOOLEAN /\ cancelRef' \in BOOLEAN
  BY DEF BackupInv, BackupNext, OpenBackup, Generated, HandleCopy, ClipTimerFires, TickBox, ContinueToQuiz, SelectWord,
         LeaveBackup, OpenRecovery, EnterWords, RecoverRefused, HandleRecover, Recovered, LeaveRecovery, SocialRecover,
         SocialEnds, ClearClipboard, backupVars
<1>2. CASE SelectWord
  <2>1. PICK given \in {answers.given, answers.given + 1} \ {0, 4}, right \in BOOLEAN :
            answers' = [given |-> given, right |-> right]
    BY <1>2 DEF SelectWord
  <2>2. given \in 0..3
    BY DEF BackupInv
  <2>3. answers' \in [given : 0..3, right : BOOLEAN]
    BY <2>1, <2>2
  <2> QED
    BY <1>1, <1>2, <2>3 DEF SelectWord, BackupInv, PhraseIsTimed
<1>3. ASSUME ~SelectWord PROVE BackupInv'
  <2>0. [given |-> 0, right |-> TRUE] \in [given : 0..3, right : BOOLEAN]
    OBVIOUS
  <2>1. answers' \in [given : 0..3, right : BOOLEAN]
    <3>1. answers' = answers \/ answers' = [given |-> 0, right |-> TRUE]
      BY <1>3 DEF BackupNext, OpenBackup, Generated, HandleCopy, ClipTimerFires, TickBox, ContinueToQuiz,
                  LeaveBackup, OpenRecovery, EnterWords, RecoverRefused, HandleRecover, Recovered, LeaveRecovery,
                  SocialRecover, SocialEnds, backupVars
    <3> QED
      BY <2>0, <3>1 DEF BackupInv
  <2>2. screen' \in {"elsewhere", "generating", "failed", "phrase", "verify", "recovery", "restoring"}
    BY <1>3 DEF BackupInv, BackupNext, OpenBackup, Generated, HandleCopy, ClipTimerFires, TickBox, ContinueToQuiz,
                LeaveBackup, OpenRecovery, EnterWords, RecoverRefused, HandleRecover, Recovered, LeaveRecovery,
                SocialRecover, SocialEnds, backupVars
  <2>3. clip' \in {"other", "phrase"} /\ PhraseIsTimed'
    BY <1>3 DEF BackupInv, BackupNext, OpenBackup, Generated, HandleCopy, ClipTimerFires, TickBox, ContinueToQuiz,
                LeaveBackup, OpenRecovery, EnterWords, RecoverRefused, HandleRecover, Recovered, LeaveRecovery,
                SocialRecover, SocialEnds, ClearClipboard, backupVars, PhraseIsTimed
  <2> QED
    BY <1>1, <2>1, <2>2, <2>3 DEF BackupInv
<1> QED
  BY <1>2, <1>3

-----------------------------------------------------------------------------
(***************************************************************************)
(* The biometric screen and its PIN.                                       *)
(***************************************************************************)

\* Without a sensor the mode of the modal has been read once the storage has
\* answered; the alert and the prompt are for a sensor that is there.
ModeIsRead == NoHardware /\ ~pinAnswer => pinIsSetup \/ pinStored = "mine"
PinInv ==
    /\ hardware \in {"checking", "available", "unavailable", "not_enrolled"} /\ pinStored \in {"none", "mine"}
    /\ onward \in {"no", "skipped", "biometric", "pin"}
    /\ {pinAnswer, pinModal, pinIsSetup, verifying, offered} \subseteq BOOLEAN
    /\ (verifying \/ offered => hardware = "available") /\ ~(verifying /\ offered)
    /\ (pinModal /\ ~pinIsSetup => pinStored = "mine")
    /\ ModeIsRead /\ PinProtects

LEMMA PinStarts == ASSUME PinInit PROVE PinInv
BY DEF PinInit, PinInv, ModeIsRead, NoHardware, PinProtects

LEMMA PinRests == ASSUME PinInv, UNCHANGED pinVars PROVE PinInv'
BY DEF PinInv, pinVars, ModeIsRead, NoHardware, PinProtects

LEMMA PinStep == ASSUME PinInv, ~SlowStorage, PinNext PROVE PinInv'
<1>0. {pinAnswer', pinModal', pinIsSetup', verifying', offered'} \subseteq BOOLEAN
  BY DEF PinInv, PinNext, HardwareChecked, PinAnswered, Mode, ContinueToPin, Prompt, Prompted, AnswerOffer, SavePin,
         VerifyPin, CancelPin, SkipBiometric, BiometricAgain
<1> USE <1>0 DEF PinInv, ModeIsRead, NoHardware, PinProtects
<1>1. CASE HardwareChecked
  BY <1>1 DEF HardwareChecked
<1>2. CASE PinAnswered
  BY <1>2 DEF PinAnswered, Mode
<1>3. CASE ContinueToPin
  BY <1>3 DEF ContinueToPin
<1>4. CASE Prompt
  BY <1>4 DEF Prompt
<1>5. CASE Prompted
  BY <1>5 DEF Prompted
<1>6. CASE AnswerOffer
  BY <1>6 DEF AnswerOffer
<1>7. CASE SavePin
  BY <1>7 DEF SavePin
<1>8. CASE VerifyPin
  BY <1>8 DEF VerifyPin
<1>9. CASE CancelPin \/ SkipBiometric
  BY <1>9 DEF CancelPin, SkipBiometric
<1>10. CASE BiometricAgain
  BY <1>10 DEF BiometricAgain
<1> QED
  BY <1>1, <1>2, <1>3, <1>4, <1>5, <1>6, <1>7, <1>8, <1>9, <1>10 DEF PinNext

-----------------------------------------------------------------------------
(***************************************************************************)
(* How an account begins.                                                  *)
(***************************************************************************)

\* The error under the field is the one of the name in it.
UsernameInv ==
    /\ handle \in Handles \cup {BadHandle, NoHandle} /\ checkTimer \in Handles \cup {NoHandle}
    /\ storedName \in Handles \cup {BadHandle, NoHandle} /\ checkCalls \subseteq Handles
    /\ {formatError, isChecking, submitting, onUsername} \subseteq BOOLEAN
    /\ isAvailable \in {"null", "yes", "no"} /\ typedCount \in 0..MaxTyped
    /\ (~formatError /\ handle # NoHandle => handle \in Handles)
    /\ StoredNameIsWellFormed

LEMMA UsernameStarts == ASSUME UsernameInit PROVE UsernameInv
<1>1. {formatError, isChecking, submitting, onUsername} \subseteq BOOLEAN /\ ~submitting
  BY DEF UsernameInit
<1> QED
  BY <1>1, AccountConstants DEF UsernameInit, UsernameInv, StoredNameIsWellFormed

LEMMA UsernameRests == ASSUME UsernameInv, UNCHANGED usernameVars PROVE UsernameInv'
BY DEF UsernameInv, usernameVars, StoredNameIsWellFormed, ValidateUsernameFormat

LEMMA UsernameStep == ASSUME UsernameInv, UsernameNext PROVE UsernameInv'
<1> USE DEF UsernameInv, StoredNameIsWellFormed, ValidateUsernameFormat
<1>1. ASSUME NEW n \in Handles \cup {BadHandle, NoHandle}, HandleChangeText(n) PROVE UsernameInv'
  <2>1. {formatError', isChecking', submitting', onUsername'} \subseteq BOOLEAN
    BY <1>1 DEF HandleChangeText
  <2>2. typedCount' \in 0..MaxTyped
    BY <1>1, AccountConstants DEF HandleChangeText
  <2>3. checkTimer' \in Handles \cup {NoHandle}
    BY <1>1 DEF HandleChangeText, TimerAfter, CancelledByRender
  <2> QED
    BY <1>1, <2>1, <2>2, <2>3 DEF HandleChangeText
<1>2. CASE DebouncedCheck
  BY <1>2 DEF DebouncedCheck
<1>3. ASSUME NEW n \in checkCalls, CheckAnswered(n) PROVE UsernameInv'
  BY <1>3 DEF CheckAnswered, CancelledByRender
<1>4. CASE ContinueUsername
  BY <1>4 DEF ContinueUsername, CanContinue
<1>5. CASE UsernameKept \/ LeaveUsername
  <2>1. formatError' \in BOOLEAN /\ isChecking' \in BOOLEAN /\ submitting' \in BOOLEAN /\ onUsername' \in BOOLEAN
    BY <1>5 DEF UsernameKept, LeaveUsername
  <2>2. ~submitting'
    BY <1>5 DEF UsernameKept, LeaveUsername
  <2> QED
    BY <1>5, <2>1, <2>2 DEF UsernameKept, LeaveUsername, CancelledByRender
<1> QED
  BY <1>1, <1>2, <1>3, <1>4, <1>5 DEF UsernameNext

\* A save that is about to be stored has been accepted.
ProfileInv ==
    /\ displayName \in {"none", "old", "new"} /\ sent \in {"none", "old", "new"}
    /\ cachedProfile \in {"none", "old", "new"} /\ accepted \subseteq {"old", "new"}
    /\ {loadingProfile, saving, onProfile} \subseteq BOOLEAN
    /\ avatar \in {"none", "remote", "file"} /\ saveStep \in {"idle", "upload", "put", "store"}
    /\ (saveStep # "idle" => saving /\ sent # "none")
    /\ (saveStep = "store" => sent \in accepted)
    /\ CachedProfileWasAccepted

LEMMA ProfileStarts == ASSUME ProfileInit PROVE ProfileInv
BY DEF ProfileInit, ProfileInv, CachedProfileWasAccepted

LEMMA ProfileRests == ASSUME ProfileInv, UNCHANGED profileVars PROVE ProfileInv'
BY DEF ProfileInv, profileVars, CachedProfileWasAccepted

LEMMA ProfileStep == ASSUME ProfileInv, ProfileNext PROVE ProfileInv'
<1> USE DEF ProfileInv, CachedProfileWasAccepted
<1>1. CASE ProfileRead \/ EditProfile \/ HandlePickAvatar
  BY <1>1 DEF ProfileRead, EditProfile, HandlePickAvatar
<1>2. CASE HandleSave
  BY <1>2 DEF HandleSave, FirstStep
<1>3. CASE AvatarUploaded \/ ProfilePut
  BY <1>3 DEF AvatarUploaded, ProfilePut
<1>4. CASE ProfileStored
  BY <1>4 DEF ProfileStored
<1>5. CASE SaveFails \/ HandleSkip
  BY <1>5 DEF SaveFails, SavingEnded, HandleSkip
<1> QED
  BY <1>1, <1>2, <1>3, <1>4, <1>5 DEF ProfileNext

\* Every overlay stands for an address being opened or a timer.
EntryInv ==
    /\ activeProvider \in BOOLEAN /\ secretKey \in BOOLEAN
    /\ opening \in Nat /\ privyTimers \in Nat /\ launches \in 0..MaxLaunches /\ opening + privyTimers <= launches
    /\ choice \in {"none", "personal", "merchant"} /\ recovery \in {"loading", "found"}
    /\ fields \in [filled : BOOLEAN, agree : BOOLEAN]

LEMMA EntryStarts == ASSUME EntryInit PROVE EntryInv
<1>1. activeProvider \in BOOLEAN /\ secretKey \in BOOLEAN /\ fields \in [filled : BOOLEAN, agree : BOOLEAN]
  BY DEF EntryInit
<1> QED
  BY <1>1, AccountConstants DEF EntryInit, EntryInv

LEMMA EntryRests == ASSUME EntryInv, UNCHANGED entryVars PROVE EntryInv'
BY DEF EntryInv, entryVars

LEMMA EntryStep == ASSUME EntryInv, EntryNext PROVE EntryInv'
<1> USE AccountConstants DEF EntryInv, privyVars
<1>1. CASE SplashEnds \/ SetUpManually \/ CloseOverlay
  BY <1>1 DEF SplashEnds, SetUpManually, CloseOverlay
<1>2. CASE HandleLaunchPrivy
  BY <1>2 DEF HandleLaunchPrivy
<1>3. CASE UrlOpened
  BY <1>3 DEF UrlOpened, TimerSet
<1>4. CASE PrivyTimerFires
  <2>1. activeProvider' \in BOOLEAN
    BY <1>4 DEF PrivyTimerFires
  <2> QED
    BY <1>4, <2>1 DEF PrivyTimerFires
<1>5. CASE SelectAccountType \/ ContinueAccountType
  BY <1>5 DEF SelectAccountType, ContinueAccountType
<1>6. CASE EditSecretKey \/ RecoverAccount \/ StatusFound \/ ContinueFound
  BY <1>6 DEF EditSecretKey, RecoverAccount, StatusFound, ContinueFound
<1>7. CASE EditPassword \/ PasswordContinue \/ PasswordSetupContinue \/ HandleUpdate
  BY <1>7 DEF EditPassword, PasswordContinue, PasswordSetupContinue, HandleUpdate
<1> QED
  BY <1>1, <1>2, <1>3, <1>4, <1>5, <1>6, <1>7 DEF EntryNext

LEMMA AccountShows ==
    ASSUME UsernameInv, ProfileInv, EntryInv
    PROVE  AccountTypeOK /\ StoredNameIsWellFormed /\ CachedProfileWasAccepted
<1>1. {opening, privyTimers, launches} \subseteq 0..MaxLaunches
  BY AccountConstants DEF EntryInv
<1>2. {formatError, isChecking, submitting, onUsername, loadingProfile, saving, onProfile, activeProvider,
        secretKey} \subseteq BOOLEAN
  BY DEF UsernameInv, ProfileInv, EntryInv
<1> QED
  BY <1>1, <1>2 DEF UsernameInv, ProfileInv, EntryInv, AccountTypeOK

-----------------------------------------------------------------------------
(***************************************************************************)
(* The wallet's keys.                                                      *)
(***************************************************************************)
Keys0 == Phrases \cup {NoPhrase}

\* Of the first n indices, those with a public key come from the phrase.
Derived(n) == \A i \in 0..n - 1 : public[i] # NoPhrase => secret[i] = mnemonic /\ public[i] = mnemonic

\* What a job has still to write, and what it has written.
WholeJob ==
    /\ job.kind \in {"create", "restore"} /\ job.phrase \in Phrases /\ job.index = 0
    /\ \/ job.writes = <<"mnemonic", "secret", "public", "reset">>
       \/ job.writes = <<"secret", "public", "reset">> /\ mnemonic = job.phrase
       \/ job.writes = <<"public", "reset">> /\ mnemonic = job.phrase /\ secret[0] = job.phrase
       \/ job.writes = <<"reset">> /\ mnemonic = job.phrase /\ secret[0] = job.phrase /\ public[0] = job.phrase
AddJob ==
    /\ job.kind = "add" /\ job.phrase = mnemonic /\ job.index = count /\ count < MaxAccounts
    /\ ~torn => Derived(count)
    /\ \/ job.writes = <<"secret", "public", "increment">>
       \/ job.writes = <<"public", "increment">> /\ secret[job.index] = mnemonic
       \/ job.writes = <<"increment">> /\ secret[job.index] = mnemonic /\ public[job.index] = mnemonic
RotateJob ==
    /\ job.kind = "rotate" /\ job.phrase = mnemonic /\ job.index \in 0..count - 1
    /\ ~torn => Derived(count)
    /\ \/ job.writes = <<"secret", "public">>
       \/ job.writes = <<"public">> /\ secret[job.index] = mnemonic
DeleteJob ==
    /\ job.kind = "delete" /\ job.phrase = NoPhrase
    /\ job.writes \in Seq({"secret", "public", "mnemonic", "zero"})
    /\ job.writes # <<>> /\ job.writes[Len(job.writes)] = "zero"

JobShape(j) == j = [kind |-> j.kind, phrase |-> j.phrase, index |-> j.index, writes |-> j.writes]

KeysInv ==
    /\ mnemonic \in Keys0 /\ count \in 0..MaxAccounts
    /\ secret \in [Indices -> Keys0] /\ public \in [Indices -> Keys0]
    /\ jobs \in 0..MaxJobs /\ torn \in BOOLEAN /\ erased \in BOOLEAN
    /\ JobShape(job)
    /\ \/ job = NoJob /\ (~torn => Derived(count))
       \/ WholeJob \/ AddJob \/ RotateJob \/ DeleteJob

LEMMA KeysStart == ASSUME KeysInit PROVE KeysInv
<1>1. torn \in BOOLEAN /\ erased \in BOOLEAN
  BY DEF KeysInit
<1> QED
  BY <1>1, KeysConstants DEF KeysInit, KeysInv, Keys0, Derived, JobShape, NoJob

LEMMA KeysRest == ASSUME KeysInv, UNCHANGED keyVars PROVE KeysInv'
BY DEF KeysInv, keyVars, JobShape, WholeJob, AddJob, RotateJob, DeleteJob, Derived

LEMMA Tuples ==
    ASSUME NEW a, NEW b, NEW c, NEW d
    PROVE  /\ Head(<<a>>) = a /\ Tail(<<a>>) = <<>>
           /\ Head(<<a, b>>) = a /\ Tail(<<a, b>>) = <<b>>
           /\ Head(<<a, b, c>>) = a /\ Tail(<<a, b, c>>) = <<b, c>>
           /\ Head(<<a, b, c, d>>) = a /\ Tail(<<a, b, c, d>>) = <<b, c, d>>
           /\ <<b>> # <<>> /\ <<b, c>> # <<>> /\ <<b, c, d>> # <<>>
OBVIOUS

\* A concatenation is the list with its length and its elements.
LEMMA Joined ==
    ASSUME NEW S, NEW s \in Seq(S), NEW t \in Seq(S), NEW u \in Seq(S), Len(u) = Len(s) + Len(t),
           \A i \in 1..Len(u) : u[i] = IF i <= Len(s) THEN s[i] ELSE t[i - Len(s)]
    PROVE  s \o t = u
<1>1. /\ s \o t \in Seq(S) /\ Len(s \o t) = Len(s) + Len(t)
      /\ \A i \in 1..Len(s) + Len(t) : (s \o t)[i] = IF i <= Len(s) THEN s[i] ELSE t[i - Len(s)]
  BY ConcatProperties
<1> QED
  BY <1>1, SeqEqual

\* The lists of writes, written out.
LEMMA WritesAre ==
    /\ WholeWallet = <<"mnemonic", "secret", "public", "reset">>
    /\ OneAccount = <<"secret", "public", "increment">>
    /\ StoreKeypair = <<"secret", "public">>
<1> DEFINE S == {"mnemonic", "secret", "public", "reset", "increment"}
<1>1. <<"mnemonic">> \o <<"secret", "public">> = <<"mnemonic", "secret", "public">>
  <2> DEFINE s == <<"mnemonic">>
             t == <<"secret", "public">>
             u == <<"mnemonic", "secret", "public">>
  <2>1. /\ s \in Seq(S) /\ t \in Seq(S) /\ u \in Seq(S) /\ Len(u) = Len(s) + Len(t)
        /\ \A i \in 1..Len(u) : u[i] = IF i <= Len(s) THEN s[i] ELSE t[i - Len(s)]
    OBVIOUS
  <2> HIDE DEF s, t, u, S
  <2>2. s \o t = u
    BY <2>1, Joined
  <2> QED
    BY <2>2 DEF s, t, u
<1>2. <<"mnemonic", "secret", "public">> \o <<"reset">> = <<"mnemonic", "secret", "public", "reset">>
  <2> DEFINE s == <<"mnemonic", "secret", "public">>
             t == <<"reset">>
             u == <<"mnemonic", "secret", "public", "reset">>
  <2>1. /\ s \in Seq(S) /\ t \in Seq(S) /\ u \in Seq(S) /\ Len(u) = Len(s) + Len(t)
        /\ \A i \in 1..Len(u) : u[i] = IF i <= Len(s) THEN s[i] ELSE t[i - Len(s)]
    OBVIOUS
  <2> HIDE DEF s, t, u, S
  <2>2. s \o t = u
    BY <2>1, Joined
  <2> QED
    BY <2>2 DEF s, t, u
<1>3. <<"secret", "public">> \o <<"increment">> = <<"secret", "public", "increment">>
  <2> DEFINE s == <<"secret", "public">>
             t == <<"increment">>
             u == <<"secret", "public", "increment">>
  <2>1. /\ s \in Seq(S) /\ t \in Seq(S) /\ u \in Seq(S) /\ Len(u) = Len(s) + Len(t)
        /\ \A i \in 1..Len(u) : u[i] = IF i <= Len(s) THEN s[i] ELSE t[i - Len(s)]
    OBVIOUS
  <2> HIDE DEF s, t, u, S
  <2>2. s \o t = u
    BY <2>1, Joined
  <2> QED
    BY <2>2 DEF s, t, u
<1> QED
  BY <1>1, <1>2, <1>3, Zenon DEF WholeWallet, OneAccount, StoreKeypair

LEMMA DeleteWrites ==
    ASSUME NEW n \in Nat
    PROVE  LET w == Counted(n) \o <<"mnemonic", "zero">> IN
           w \in Seq({"secret", "public", "mnemonic", "zero"}) /\ w # <<>> /\ w[Len(w)] = "zero"
<1> DEFINE S == {"secret", "public", "mnemonic", "zero"}
           c == Counted(n)
           e == <<"mnemonic", "zero">>
<1>1. c \in Seq(S) /\ Len(c) = 2 * n
  BY DEF Counted
<1>2. e \in Seq(S) /\ Len(e) = 2 /\ e[2] = "zero"
  OBVIOUS
<1> HIDE DEF c, e, S
<1>3. /\ c \o e \in Seq(S) /\ Len(c \o e) = Len(c) + Len(e)
      /\ \A i \in 1..Len(c) + Len(e) : (c \o e)[i] = IF i <= Len(c) THEN c[i] ELSE e[i - Len(c)]
  BY <1>1, <1>2, ConcatProperties
<1>4. Len(c \o e) = 2 * n + 2 /\ 2 * n + 2 \in 1..Len(c) + Len(e) /\ 2 * n + 2 - Len(c) = 2
  BY <1>1, <1>2, <1>3
<1>5. (c \o e)[2 * n + 2] = "zero"
  BY <1>1, <1>2, <1>3, <1>4
<1>6. c \o e # <<>>
  BY <1>3, <1>4
<1> QED
  BY <1>3, <1>4, <1>5, <1>6 DEF c, e, S

LEMMA StartKeeps ==
    ASSUME KeysInv, CreateNewWallet \/ RestoreWalletFromMnemonic \/ AddAccount \/ RotateKey \/ DeleteWallet
    PROVE  KeysInv'
<1>1. /\ job = NoJob /\ jobs' = jobs + 1 /\ jobs < MaxJobs /\ UNCHANGED <<mnemonic, secret, public, count, torn, erased>>
  BY DEF CreateNewWallet, RestoreWalletFromMnemonic, AddAccount, RotateKey, DeleteWallet, Start
<1>2. ~torn => Derived(count)
  BY <1>1 DEF KeysInv, NoJob, WholeJob, AddJob, RotateJob, DeleteJob
<1>3. Derived(count)' <=> Derived(count)
  BY <1>1 DEF Derived
<1>4. /\ mnemonic' \in Keys0 /\ count' \in 0..MaxAccounts
      /\ secret' \in [Indices -> Keys0] /\ public' \in [Indices -> Keys0]
      /\ jobs' \in 0..MaxJobs
  BY <1>1, KeysConstants DEF KeysInv
<1>7. JobShape(job)'
  BY DEF CreateNewWallet, RestoreWalletFromMnemonic, AddAccount, RotateKey, DeleteWallet, Start, JobShape
<1>5. torn' \in BOOLEAN /\ erased' \in BOOLEAN
  BY <1>1 DEF KeysInv
<1>6. WholeJob' \/ AddJob' \/ RotateJob' \/ DeleteJob'
  <2>1. CASE CreateNewWallet \/ RestoreWalletFromMnemonic
    <3>1. PICK p \in Phrases, k \in {"create", "restore"} : Start(k, p, 0, WholeWallet)
      BY <2>1 DEF CreateNewWallet, RestoreWalletFromMnemonic
    <3> QED
      BY <3>1, WritesAre DEF Start, WholeJob
  <2>2. CASE AddAccount
    BY <1>1, <1>2, <1>3, <2>2, WritesAre DEF AddAccount, Start, AddJob
  <2>3. CASE RotateKey
    <3>1. PICK i \in 0..count - 1 : Start("rotate", mnemonic, i, StoreKeypair)
      BY <2>3 DEF RotateKey
    <3> QED
      BY <1>1, <1>2, <1>3, <3>1, WritesAre DEF Start, RotateJob
  <2>4. CASE DeleteWallet
    <3>1. count \in Nat
      BY KeysConstants DEF KeysInv
    <3>2. job' = [kind |-> "delete", phrase |-> NoPhrase, index |-> 0, writes |-> Counted(count) \o <<"mnemonic", "zero">>]
      BY <2>4 DEF DeleteWallet, Start
    <3> QED
      BY <3>1, <3>2, DeleteWrites DEF DeleteJob
  <2> QED
    BY <2>1, <2>2, <2>3, <2>4
<1> QED
  BY <1>4, <1>5, <1>6, <1>7 DEF KeysInv

\* What one write leaves of the job.
LEMMA WriteTypes ==
    ASSUME KeysInv, Write
    PROVE  /\ torn' \in BOOLEAN /\ erased' \in BOOLEAN /\ jobs' \in 0..MaxJobs
           /\ (Head(job.writes) = "mnemonic" => job.phrase \in Keys0) => mnemonic' \in Keys0
           /\ job.phrase \in Keys0 => /\ secret' \in [Indices -> Keys0] /\ public' \in [Indices -> Keys0]
           /\ JobShape(job)'
<1>2. JobShape(job)'
  <2>1. job = [kind |-> job.kind, phrase |-> job.phrase, index |-> job.index, writes |-> job.writes]
    BY DEF KeysInv, JobShape
  <2>2. \/ job' = NoJob
        \/ job' = [job EXCEPT !.writes = Tail(job.writes)]
        \/ job' = [job EXCEPT !.writes = Tail(job.writes), !.index = job.index + 1]
    BY <2>1 DEF Write
  <2>3. ASSUME NEW i, NEW t, job' = [job EXCEPT !.writes = t, !.index = i] PROVE JobShape(job)'
    BY <2>1, <2>3 DEF JobShape
  <2>4. CASE job' = NoJob
    BY <2>4 DEF NoJob, JobShape
  <2>5. CASE job' = [job EXCEPT !.writes = Tail(job.writes)]
    BY <2>1, <2>5 DEF JobShape
  <2> QED
    BY <2>2, <2>3, <2>4, <2>5
<1>1. torn' \in BOOLEAN /\ erased' \in BOOLEAN
  BY DEF KeysInv, Write
<1> QED
  BY <1>1, <1>2 DEF KeysInv, Write

\* A write that is not the last of a job: the job goes on with the rest.
Goes(rest) ==
    job'.kind = job.kind /\ job'.phrase = job.phrase /\ job'.index = job.index /\ job'.writes = rest
Written(w) ==
    /\ mnemonic' = IF w = "mnemonic" THEN job.phrase ELSE mnemonic
    /\ secret' = IF w = "secret" THEN [secret EXCEPT ![job.index] = job.phrase] ELSE secret
    /\ public' = IF w = "public" THEN [public EXCEPT ![job.index] = job.phrase] ELSE public
    /\ count' = CASE w = "reset" -> 1 [] w = "zero" -> 0 [] w = "increment" -> count + 1 [] OTHER -> count

LEMMA WriteGoes ==
    ASSUME KeysInv, Write, NEW w, NEW rest, Head(job.writes) = w, Tail(job.writes) = rest, job.kind # "delete"
    PROVE  /\ Written(w)
           /\ rest # <<>> => Goes(rest) /\ torn' = torn
           /\ rest = <<>> => job' = NoJob /\ torn' = (torn /\ job.kind \notin {"create", "restore"})
<1>1. Written(w)
  BY DEF Write, Written
<1>2. ASSUME rest = <<>> PROVE job' = NoJob /\ torn' = (torn /\ job.kind \notin {"create", "restore"})
  <2>1. JobShape(job)
    BY DEF KeysInv
  <2> QED
    BY <1>2, <2>1 DEF Write, JobShape
<1>3. ASSUME rest # <<>> PROVE Goes(rest) /\ torn' = torn
  <2>1. JobShape(job)
    BY DEF KeysInv
  <2> QED
    BY <1>3, <2>1 DEF Goes, Write, JobShape
<1> QED
  BY <1>1, <1>2, <1>3

LEMMA WholeKeeps == ASSUME KeysInv, WholeJob, Write PROVE KeysInv'
<1>1. job.phrase \in Keys0 /\ 0 \in Indices /\ 1 \in 0..MaxAccounts
  BY KeysConstants DEF WholeJob, Keys0, Indices
<1>2. /\ torn' \in BOOLEAN /\ erased' \in BOOLEAN /\ jobs' \in 0..MaxJobs
      /\ mnemonic' \in Keys0 /\ secret' \in [Indices -> Keys0] /\ public' \in [Indices -> Keys0]
      /\ JobShape(job)'
  BY <1>1, WriteTypes
<1>3. CASE job.writes = <<"mnemonic", "secret", "public", "reset">>
  <2>0. Head(job.writes) = "mnemonic" /\ Tail(job.writes) = <<"secret", "public", "reset">> /\ job.kind # "delete" /\ <<"secret", "public", "reset">> # <<>>
    BY <1>3, Tuples DEF WholeJob
  <2>1. /\ Goes(<<"secret", "public", "reset">>) /\ mnemonic' = job.phrase /\ count' = count
    BY <2>0, WriteGoes DEF Written, WholeJob
  <2> QED
    BY <1>2, <2>1 DEF KeysInv, Goes, WholeJob
<1>4. CASE job.writes = <<"secret", "public", "reset">> /\ mnemonic = job.phrase
  <2>0. Head(job.writes) = "secret" /\ Tail(job.writes) = <<"public", "reset">> /\ job.kind # "delete" /\ <<"public", "reset">> # <<>>
    BY <1>4, Tuples DEF WholeJob
  <2>1. /\ Goes(<<"public", "reset">>) /\ mnemonic' = mnemonic /\ count' = count
        /\ secret' = [secret EXCEPT ![0] = job.phrase]
    BY <2>0, WriteGoes DEF Written, WholeJob
  <2> QED
    BY <1>1, <1>2, <1>4, <2>1 DEF KeysInv, Goes, WholeJob
<1>5. CASE job.writes = <<"public", "reset">> /\ mnemonic = job.phrase /\ secret[0] = job.phrase
  <2>0. Head(job.writes) = "public" /\ Tail(job.writes) = <<"reset">> /\ job.kind # "delete" /\ <<"reset">> # <<>>
    BY <1>5, Tuples DEF WholeJob
  <2>1. /\ Goes(<<"reset">>) /\ mnemonic' = mnemonic /\ count' = count
        /\ public' = [public EXCEPT ![0] = job.phrase] /\ secret' = secret
    BY <2>0, WriteGoes DEF Written, WholeJob
  <2> QED
    BY <1>1, <1>2, <1>5, <2>1 DEF KeysInv, Goes, WholeJob
<1>6. CASE job.writes = <<"reset">> /\ mnemonic = job.phrase /\ secret[0] = job.phrase /\ public[0] = job.phrase
  <2>1. job' = NoJob /\ count' = 1 /\ UNCHANGED <<mnemonic, secret, public>>
    BY <1>6, Tuples, WriteGoes DEF Written, WholeJob
  <2>2. Derived(count)'
    BY <1>6, <2>1 DEF Derived
  <2> QED
    BY <1>1, <1>2, <2>1, <2>2 DEF KeysInv
<1> QED
  BY <1>3, <1>4, <1>5, <1>6 DEF WholeJob

LEMMA AddKeeps == ASSUME KeysInv, AddJob, Write PROVE KeysInv'
<1>1. job.phrase \in Keys0 /\ count \in Nat /\ count \in Indices /\ count + 1 \in 0..MaxAccounts
  BY KeysConstants DEF KeysInv, AddJob, Indices
<1>2. /\ torn' \in BOOLEAN /\ erased' \in BOOLEAN /\ jobs' \in 0..MaxJobs
      /\ mnemonic' \in Keys0 /\ secret' \in [Indices -> Keys0] /\ public' \in [Indices -> Keys0]
      /\ JobShape(job)'
  BY <1>1, WriteTypes
<1>3. CASE job.writes = <<"secret", "public", "increment">>
  <2>1. /\ Goes(<<"public", "increment">>) /\ UNCHANGED <<mnemonic, count, public, torn>>
        /\ secret' = [secret EXCEPT ![count] = mnemonic]
    BY <1>3, Tuples, WriteGoes DEF Written, AddJob
  <2>2. Derived(count) => Derived(count)'
    BY <1>1, <2>1 DEF Derived, KeysInv
  <2> QED
    BY <1>1, <1>2, <2>1, <2>2 DEF KeysInv, Goes, AddJob
<1>4. CASE job.writes = <<"public", "increment">> /\ secret[job.index] = mnemonic
  <2>1. /\ Goes(<<"increment">>) /\ UNCHANGED <<mnemonic, count, secret, torn>>
        /\ public' = [public EXCEPT ![count] = mnemonic]
    BY <1>4, Tuples, WriteGoes DEF Written, AddJob
  <2>2. Derived(count) => Derived(count)'
    BY <1>1, <2>1 DEF Derived, KeysInv
  <2> QED
    BY <1>1, <1>2, <1>4, <2>1, <2>2 DEF KeysInv, Goes, AddJob
<1>5. CASE job.writes = <<"increment">> /\ secret[job.index] = mnemonic /\ public[job.index] = mnemonic
  <2>1. job' = NoJob /\ count' = count + 1 /\ UNCHANGED <<mnemonic, secret, public>> /\ (~torn' => ~torn)
    BY <1>5, Tuples, WriteGoes DEF Written, AddJob
  <2>2. Derived(count) => Derived(count)'
    <3>1. \A i \in 0..count' - 1 : i \in 0..count - 1 \/ i = count
      BY <1>1, <2>1
    <3> QED
      BY <1>5, <2>1, <3>1 DEF Derived, AddJob
  <2> QED
    BY <1>1, <1>2, <2>1, <2>2 DEF KeysInv, Goes, AddJob
<1> QED
  BY <1>3, <1>4, <1>5 DEF AddJob

LEMMA RotateKeeps == ASSUME KeysInv, RotateJob, Write PROVE KeysInv'
<1>1. job.phrase \in Keys0 /\ count \in Nat /\ job.index \in Indices
  BY KeysConstants DEF KeysInv, RotateJob, Indices
<1>2. /\ torn' \in BOOLEAN /\ erased' \in BOOLEAN /\ jobs' \in 0..MaxJobs
      /\ mnemonic' \in Keys0 /\ secret' \in [Indices -> Keys0] /\ public' \in [Indices -> Keys0]
      /\ JobShape(job)'
  BY <1>1, WriteTypes
<1>3. CASE job.writes = <<"secret", "public">>
  <2>1. /\ Goes(<<"public">>) /\ UNCHANGED <<mnemonic, count, public, torn>>
        /\ secret' = [secret EXCEPT ![job.index] = mnemonic]
    BY <1>3, Tuples, WriteGoes DEF Written, RotateJob
  <2>2. Derived(count) => Derived(count)'
    BY <1>1, <2>1 DEF Derived, KeysInv
  <2> QED
    BY <1>1, <1>2, <2>1, <2>2 DEF KeysInv, Goes, RotateJob
<1>4. CASE job.writes = <<"public">> /\ secret[job.index] = mnemonic
  <2>1. /\ job' = NoJob /\ UNCHANGED <<mnemonic, count, secret>> /\ (~torn' => ~torn)
        /\ public' = [public EXCEPT ![job.index] = mnemonic]
    BY <1>4, Tuples, WriteGoes DEF Written, RotateJob
  <2>2. Derived(count) => Derived(count)'
    BY <1>1, <1>4, <2>1 DEF Derived, KeysInv
  <2> QED
    BY <1>1, <1>2, <2>1, <2>2 DEF KeysInv, Goes, RotateJob
<1> QED
  BY <1>3, <1>4 DEF RotateJob

LEMMA DeleteKeeps == ASSUME KeysInv, DeleteJob, Write PROVE KeysInv'
<1> DEFINE S == {"secret", "public", "mnemonic", "zero"}
           ws == job.writes
<1>1. job.phrase \in Keys0 /\ count \in 0..MaxAccounts /\ 0 \in 0..MaxAccounts
  BY KeysConstants DEF KeysInv, DeleteJob, Keys0
<1>2. /\ torn' \in BOOLEAN /\ erased' \in BOOLEAN /\ jobs' \in 0..MaxJobs
      /\ mnemonic' \in Keys0 /\ secret' \in [Indices -> Keys0] /\ public' \in [Indices -> Keys0]
      /\ JobShape(job)'
  BY <1>1, WriteTypes
<1>3. ws \in Seq(S) /\ ws # <<>> /\ ws[Len(ws)] = "zero" /\ job.kind = "delete" /\ job.phrase = NoPhrase
  BY DEF DeleteJob
<1>4. /\ Head(ws) \in S /\ Tail(ws) \in Seq(S) /\ Len(ws) \in Nat /\ Len(ws) >= 1 /\ Len(Tail(ws)) = Len(ws) - 1
      /\ Head(ws) = ws[1] /\ \A i \in 1..Len(ws) - 1 : Tail(ws)[i] = ws[i + 1]
  <2> HIDE DEF S
  <2>1. Len(ws) \in Nat /\ Len(ws) # 0
    BY <1>3, EmptySeq
  <2> QED
    BY <1>3, <2>1, HeadTailProperties
<1>5. CASE Tail(ws) = <<>>
  <2>0. Len(Tail(ws)) = 0
    BY <1>4, <1>5, EmptySeq
  <2>1. Head(ws) = "zero"
    BY <1>3, <1>4, <2>0
  <2>2. job' = NoJob /\ count' = 0
    BY <1>5, <2>1 DEF Write, KeysInv, JobShape
  <2>3. Derived(count)'
    BY <2>2 DEF Derived
  <2> QED
    BY <1>1, <1>2, <2>2, <2>3 DEF KeysInv
<1>6. CASE Tail(ws) # <<>>
  <2>1. count' \in 0..MaxAccounts
    <3>1. count' = count \/ count' = 0
      BY <1>4 DEF Write
    <3> QED
      BY <1>1, <3>1
  <2>2. job' = [job EXCEPT !.writes = Tail(@), !.index = IF job.kind = "delete" /\ Head(ws) = "public" THEN @ + 1 ELSE @]
    BY <1>6 DEF Write, KeysInv, JobShape
  <2>3. Tail(ws)[Len(Tail(ws))] = "zero"
    BY <1>3, <1>4, <1>6
  <2>4. DeleteJob'
    BY <1>3, <1>4, <1>6, <2>2, <2>3 DEF DeleteJob
  <2> QED
    BY <1>2, <2>1, <2>4 DEF KeysInv
<1> QED
  BY <1>5, <1>6

LEMMA KeysStep == ASSUME KeysInv, KeysNext PROVE KeysInv'
<1>1. CASE CreateNewWallet \/ RestoreWalletFromMnemonic \/ AddAccount \/ RotateKey \/ DeleteWallet
  BY <1>1, StartKeeps
<1>2. CASE Write
  <2>1. job # NoJob
    BY <1>2 DEF Write, NoJob
  <2> QED
    BY <1>2, <2>1, WholeKeeps, AddKeeps, RotateKeeps, DeleteKeeps DEF KeysInv
<1>3. CASE CutOff
  <2>1. torn' /\ torn' \in BOOLEAN /\ erased' \in BOOLEAN
    BY <1>3 DEF CutOff
  <2> QED
    BY <1>3, <2>1 DEF CutOff, KeysInv, JobShape, NoJob
<1> QED
  BY <1>1, <1>2, <1>3 DEF KeysNext

LEMMA KeysShow ==
    ASSUME KeysInv, BackupInv, PinInv
    PROVE  KeysTypeOK /\ ListedKeysAreDerived /\ PhraseIsTimed /\ PinProtects
<1>1. ListedKeysAreDerived
  <2> SUFFICES ASSUME job = NoJob, ~torn PROVE \A i \in ListAccounts : secret[i] = mnemonic /\ public[i] = mnemonic
    BY DEF ListedKeysAreDerived
  <2>1. Derived(count)
    BY DEF KeysInv, NoJob, WholeJob, AddJob, RotateJob, DeleteJob
  <2> QED
    BY <2>1 DEF ListAccounts, Derived
<1> QED
  BY <1>1 DEF KeysInv, Keys0, BackupInv, PinInv, KeysTypeOK

-----------------------------------------------------------------------------
(***************************************************************************)
(* Lists.  What the filter of a list computes is shown without induction,  *)
(* by looking at a smallest index that would be an exception.              *)
(***************************************************************************)

Elements(s) == {s[i] : i \in 1..Len(s)}

LEMMA Smallest ==
    ASSUME NEW B, B \subseteq Nat, B # {}
    PROVE  \E n \in B : \A m \in B : n <= m
<1>1. PICK n \in B : \A m \in B : ~ (<<m, n>> \in OpToRel(<, Nat))
  BY NatLessThanWellFounded, WFMin
<1>2. ASSUME NEW m \in B PROVE n <= m
  <2>1. ~ (m < n)
    BY <1>1 DEF OpToRel
  <2> QED
    BY <2>1
<1> QED
  BY <1>2

\* g filters the first n members of a list.
IsFilter(g, list, S, n) ==
    g = [i \in 0..n |-> IF i = 0 THEN <<>>
                        ELSE IF list[i] \in S THEN Append(g[i - 1], list[i]) ELSE g[i - 1]]
\* The recursive function of the filter.
Sifts(list, S) == CHOOSE g : IsFilter(g, list, S, Len(list))

LEMMA FilterIsChoice ==
    ASSUME NEW list, NEW S
    PROVE  Filter(list, S) = Sifts(list, S)[Len(list)]
BY DEF Filter, Sifts, IsFilter

LEMMA FilterExists ==
    ASSUME NEW list, NEW S, Len(list) \in Nat
    PROVE  IsFilter(Sifts(list, S), list, S, Len(list))
<1> DEFINE B == {n \in Nat : \A g : ~IsFilter(g, list, S, n)}
<1>1. B = {}
  <2> SUFFICES ASSUME B # {} PROVE FALSE
    OBVIOUS
  <2>1. PICK n \in B : \A m \in B : n <= m
    <3> HIDE DEF B
    <3>1. B \subseteq Nat
      BY DEF B
    <3> QED
      BY <3>1, Smallest
  <2>2. n \in Nat /\ \A g : ~IsFilter(g, list, S, n)
    BY <2>1
  <2>3. CASE n = 0
    <3> DEFINE h == [i \in 0..0 |-> <<>>]
    <3>1. IsFilter(h, list, S, 0)
      BY DEF IsFilter
    <3> QED
      BY <2>2, <2>3, <3>1
  <2>4. CASE n > 0
    <3>1. n - 1 \in Nat /\ n - 1 \notin B
      BY <2>1, <2>2, <2>4
    <3>2. PICK g : IsFilter(g, list, S, n - 1)
      BY <3>1
    <3> DEFINE h == [i \in 0..n |-> IF i = n THEN (IF list[n] \in S THEN Append(g[n - 1], list[n]) ELSE g[n - 1])
                                    ELSE g[i]]
    <3>3. ASSUME NEW i \in 0..n
          PROVE  h[i] = IF i = 0 THEN <<>>
                        ELSE IF list[i] \in S THEN Append(h[i - 1], list[i]) ELSE h[i - 1]
      <4>1. CASE i = n
        <5>1. h[n - 1] = g[n - 1]
          BY <2>2, <2>4
        <5> QED
          BY <2>4, <4>1, <5>1
      <4>2. CASE i # n
        <5>1. i \in 0..(n - 1) /\ h[i] = g[i] /\ (i # 0 => h[i - 1] = g[i - 1])
          BY <2>2, <4>2
        <5>2. g[i] = IF i = 0 THEN <<>>
                     ELSE IF list[i] \in S THEN Append(g[i - 1], list[i]) ELSE g[i - 1]
          BY <3>2, <5>1 DEF IsFilter
        <5> QED
          BY <5>1, <5>2
      <4> QED
        BY <4>1, <4>2
    <3>4. IsFilter(h, list, S, n)
      BY <3>3 DEF IsFilter
    <3> QED
      BY <2>2, <3>4
  <2> QED
    BY <2>2, <2>3, <2>4
<1>2. \E g : IsFilter(g, list, S, Len(list))
  BY <1>1
<1> QED
  BY <1>2 DEF Sifts

LEMMA FilterAt ==
    ASSUME NEW list, NEW S, NEW g, NEW n \in Nat, IsFilter(g, list, S, n), NEW i \in 0..n
    PROVE  g[i] = IF i = 0 THEN <<>>
                  ELSE IF list[i] \in S THEN Append(g[i - 1], list[i]) ELSE g[i - 1]
BY DEF IsFilter

\* A filter keeps the members of the list that are in S and no other.
LEMMA FilterKeeps ==
    ASSUME NEW T, NEW list \in Seq(T), NEW S
    PROVE  /\ Filter(list, S) \in Seq(T)
           /\ Elements(Filter(list, S)) = Elements(list) \cap S
<1> DEFINE g == Sifts(list, S)
           Good(n) == g[n] \in Seq(T) /\ Elements(g[n]) = {list[i] : i \in 1..n} \cap S
           B == {n \in 0..Len(list) : ~Good(n)}
<1>1. Len(list) \in Nat /\ \A i \in 1..Len(list) : list[i] \in T
  BY ElementOfSeq
<1>2. IsFilter(g, list, S, Len(list))
  BY <1>1, FilterExists
<1> HIDE DEF g
<1>3. B = {}
  <2> SUFFICES ASSUME B # {} PROVE FALSE
    OBVIOUS
  <2>1. PICK n \in B : \A m \in B : n <= m
    <3> HIDE DEF B
    <3>1. B \subseteq Nat
      BY <1>1 DEF B
    <3> QED
      BY <3>1, Smallest
  <2>2. n \in 0..Len(list) /\ ~Good(n)
    BY <2>1
  <2>3. n # 0
    <3>1. g[0] = <<>>
      BY <1>1, <1>2, FilterAt
    <3>2. <<>> \in Seq(T) /\ Elements(<<>>) = {} /\ {list[i] : i \in 1..0} = {}
      BY DEF Elements
    <3>3. Good(0)
      BY <3>1, <3>2
    <3> HIDE DEF Good
    <3> QED
      BY <2>2, <3>3
  <2>4. n - 1 \in 0..Len(list) /\ n - 1 \notin B
    <3>1. n - 1 \in 0..Len(list) /\ ~(n <= n - 1)
      BY <1>1, <2>2, <2>3
    <3> HIDE DEF B
    <3> QED
      BY <2>1, <3>1
  <2>5. Good(n - 1)
    BY <2>4
  <2>6. g[n] = IF list[n] \in S THEN Append(g[n - 1], list[n]) ELSE g[n - 1]
    BY <1>1, <1>2, <2>2, <2>3, FilterAt
  <2>7. {list[i] : i \in 1..n} = {list[i] : i \in 1..n - 1} \cup {list[n]}
    BY <1>1, <2>2, <2>3
  <2> DEFINE s == g[n - 1]
             t == Append(s, list[n])
  <2>8. t \in Seq(T) /\ Elements(t) = Elements(s) \cup {list[n]}
    <3>1. s \in Seq(T) /\ list[n] \in T
      BY <1>1, <2>2, <2>3, <2>5
    <3> HIDE DEF s
    <3>2. /\ t \in Seq(T) /\ Len(t) = Len(s) + 1 /\ Len(s) \in Nat
          /\ \A i \in 1..Len(s) : t[i] = s[i]
          /\ t[Len(s) + 1] = list[n]
      BY <3>1
    <3> HIDE DEF t
    <3> QED
      BY <3>2 DEF Elements
  <2>9. Good(n)
    BY <2>5, <2>6, <2>7, <2>8
  <2> QED
    BY <2>2, <2>9
<1>4. Good(Len(list))
  <2> HIDE DEF Good
  <2> QED
    BY <1>1, <1>3
<1>5. Filter(list, S) = g[Len(list)]
  BY FilterIsChoice DEF g
<1>6. Elements(list) = {list[i] : i \in 1..Len(list)}
  BY DEF Elements
<1> QED
  BY <1>4, <1>5, <1>6

-----------------------------------------------------------------------------
(***************************************************************************)
(* The shell: consent to notifications.                                    *)
(***************************************************************************)
Steps == {"idle", "dialog", "decided", "token", "send"}

NotifyInv ==
    /\ permission \in Statuses /\ notifyPref \in {"unset", "on", "off"}
    /\ promptDismissed \in BOOLEAN /\ pushToken \in BOOLEAN /\ answeredPrompt \in BOOLEAN /\ asked \in BOOLEAN
    /\ notifyStep \in [Callers -> Steps]
    /\ notifPrompt \in {"unchecked", "hidden", "shown"} /\ launched \in 1..MaxLaunched
    /\ DialogWasAskedFor /\ NotAskedAgain
    /\ answeredPrompt => promptDismissed

LEMMA NotifyStarts == ASSUME NotifyInit PROVE NotifyInv
<1>1. promptDismissed \in BOOLEAN /\ pushToken \in BOOLEAN /\ answeredPrompt \in BOOLEAN /\ asked \in BOOLEAN
  BY DEF NotifyInit
<1> QED
  BY <1>1, ShellConstants DEF NotifyInit, NotifyInv, Callers, Steps, Statuses, DialogWasAskedFor, NotAskedAgain

LEMMA NotifyRests == ASSUME NotifyInv, UNCHANGED notifyVars PROVE NotifyInv'
BY DEF NotifyInv, notifyVars, DialogWasAskedFor, NotAskedAgain

LEMMA NotifyStep == ASSUME NotifyInv, NotifyNext PROVE NotifyInv'
<1> USE DEF NotifyNext, SetupNotifications, DialogAnswered, AnswerRead, TokenStored, RegisterEnds, PromptChecked,
            HandleEnableNotifications, HandleDismissNotifPrompt, ToggleNotifications, NotifyRelaunch
<1>1. /\ promptDismissed' \in BOOLEAN /\ pushToken' \in BOOLEAN
      /\ answeredPrompt' \in BOOLEAN /\ asked' \in BOOLEAN
  BY DEF NotifyInv
<1>2. /\ permission' \in Statuses /\ notifyPref' \in {"unset", "on", "off"}
      /\ notifPrompt' \in {"unchecked", "hidden", "shown"}
  BY DEF NotifyInv
<1>3. launched' \in 1..MaxLaunched
  BY ShellConstants DEF NotifyInv
<1>4. notifyStep' \in [Callers -> Steps]
  BY DEF NotifyInv, AfterRequest, Callers, Steps
<1>5. DialogWasAskedFor'
  BY DEF NotifyInv, DialogWasAskedFor, AfterRequest, RequestIfUndetermined, Callers, Steps
<1>6. (answeredPrompt => promptDismissed)'
  BY DEF NotifyInv, PromptMarked
<1>7. NotAskedAgain'
  BY DEF NotifyInv, NotAskedAgain, ShouldShowPrompt
<1> QED
  BY <1>1, <1>2, <1>3, <1>4, <1>5, <1>6, <1>7 DEF NotifyInv

-----------------------------------------------------------------------------
(***************************************************************************)
(* The theme.                                                              *)
(***************************************************************************)
ThemeInv ==
    /\ themeStored \in Preferences \cup {"unset"} /\ preference \in Preferences /\ promised \in Preferences
    /\ themeLoad \in {"out", "done"} /\ themeSaves \in Seq(Preferences)
    /\ themeLoad = "done" => preference = promised
    /\ themeLoad = "out" => /\ preference = "system" /\ themeSaves = <<>>
                            /\ promised = IF themeStored = "unset" THEN "system" ELSE themeStored

LEMMA ThemeStarts == ASSUME ThemeInit PROVE ThemeInv
BY DEF ThemeInit, ThemeInv, Preferences

LEMMA ThemeRests == ASSUME ThemeInv, UNCHANGED themeVars PROVE ThemeInv'
BY DEF ThemeInv, themeVars

LEMMA ThemeStep == ASSUME ThemeInv, ThemeNext PROVE ThemeInv'
<1>1. CASE Rehydrated \/ RehydrateFails
  BY <1>1 DEF Rehydrated, RehydrateFails, ThemeInv, Understood, Preferences
<1>2. ASSUME NEW p \in Preferences, SetPreference(p) PROVE ThemeInv'
  BY <1>2 DEF SetPreference, ThemeInv
<1>3. CASE PreferenceSaved
  <2>1. themeSaves \in Seq(Preferences) /\ themeSaves # <<>>
    BY <1>3 DEF PreferenceSaved, ThemeInv
  <2>2. Head(themeSaves) \in Preferences /\ Tail(themeSaves) \in Seq(Preferences)
    <3> HIDE DEF Preferences
    <3> QED
      BY <2>1, HeadTailProperties
  <2> QED
    BY <1>3, <2>2 DEF PreferenceSaved, ThemeInv
<1>4. CASE SystemThemeChanges \/ ThemeRelaunch
  <2>1. CASE SystemThemeChanges
    BY <2>1 DEF SystemThemeChanges, ThemeInv
  <2>2. CASE ThemeRelaunch
    <3>1. "system" \in Preferences /\ "unset" \notin Preferences
      BY DEF Preferences
    <3>2. promised' \in Preferences
      BY <2>2, <3>1 DEF ThemeRelaunch, ThemeInv
    <3> QED
      BY <2>2, <3>1, <3>2 DEF ThemeRelaunch, ThemeInv
  <2> QED
    BY <1>4, <2>1, <2>2
<1> QED
  BY <1>1, <1>2, <1>3, <1>4 DEF ThemeNext

LEMMA ThemeShows == ASSUME ThemeInv PROVE ThemeIsRemembered
BY DEF ThemeInv, ThemeIsRemembered

-----------------------------------------------------------------------------
(***************************************************************************)
(* The notices of the network and the toasts.                              *)
(***************************************************************************)
Toasts == [id : 0..MaxToasts, timed : BOOLEAN, hiding : BOOLEAN]
NoticeInv ==
    /\ connected \in {"null", "yes", "no"} /\ wasOffline \in BOOLEAN
    /\ toasts \in Seq(Toasts) /\ clock \in 0..MaxToasts
    /\ wasOffline => announced = "offline"

LEMMA NoticeStarts == ASSUME NoticeInit PROVE NoticeInv
<1>1. wasOffline \in BOOLEAN
  BY DEF NoticeInit
<1> QED
  BY <1>1, ShellConstants DEF NoticeInit, NoticeInv

LEMMA NoticeRests == ASSUME NoticeInv, UNCHANGED noticeVars PROVE NoticeInv'
BY DEF NoticeInv, noticeVars

LEMMA TimersTyped ==
    ASSUME NEW ts \in Seq(Toasts)
    PROVE  TimersRestarted(ts) \in Seq(Toasts)
<1>1. Len(ts) \in Nat /\ \A i \in 1..Len(ts) : ts[i] \in Toasts
  BY ElementOfSeq
<1>2. \A i \in 1..Len(ts) : [ts[i] EXCEPT !.timed = TRUE] \in Toasts
  BY <1>1 DEF Toasts
<1> DEFINE g == TimersRestarted(ts)
<1>3. g \in [1..Len(ts) -> Toasts]
  BY <1>2 DEF TimersRestarted
<1> QED
  BY <1>1, <1>3

LEMMA ToastTyped ==
    ASSUME NoticeInv
    PROVE  /\ [id |-> clock, timed |-> TRUE, hiding |-> FALSE] \in Toasts
           /\ ShowToast \in Seq(Toasts)
           /\ Append(ShowToast, [id |-> clock, timed |-> TRUE, hiding |-> FALSE]) \in Seq(Toasts)
<1>1. [id |-> clock, timed |-> TRUE, hiding |-> FALSE] \in Toasts
  BY DEF NoticeInv, Toasts
<1>2. TimersRestarted(toasts) \in Seq(Toasts)
  BY TimersTyped DEF NoticeInv
<1> DEFINE new == [id |-> clock, timed |-> TRUE, hiding |-> FALSE]
           ts == TimersRestarted(toasts)
<1>3. Append(ts, new) \in Seq(Toasts)
  <2> HIDE DEF new, ts
  <2> QED
    BY <1>1, <1>2, AppendProperties DEF new, ts
<1> DEFINE us == Append(ts, new)
<1>4. Append(us, new) \in Seq(Toasts)
  <2>1. us \in Seq(Toasts)
    BY <1>3
  <2> HIDE DEF new, us
  <2> QED
    BY <1>1, <2>1, AppendProperties DEF new
<1> QED
  BY <1>1, <1>3, <1>4 DEF ShowToast

LEMMA NoticeStep == ASSUME NoticeInv, NoticeNext PROVE NoticeInv'
<1>1. toasts' \in Seq(Toasts)
  <2>1. CASE AnyToast
    BY <2>1, ToastTyped DEF AnyToast
  <2>2. CASE ClockTicks
    BY <2>2 DEF ClockTicks, NoticeInv
  <2>3. ASSUME NEW i \in 1..Len(toasts), HideToast(i) PROVE toasts' \in Seq(Toasts)
    <3>1. Len(toasts) \in Nat /\ toasts \in [1..Len(toasts) -> Toasts] /\ toasts[i] \in Toasts
      BY ElementOfSeq, LenProperties DEF NoticeInv
    <3>2. [toasts[i] EXCEPT !.hiding = TRUE] \in Toasts
      BY <3>1 DEF Toasts
    <3>3. toasts' = [toasts EXCEPT ![i] = [toasts[i] EXCEPT !.hiding = TRUE]]
      BY <2>3 DEF HideToast
    <3>4. toasts' \in [1..Len(toasts) -> Toasts]
      BY <3>1, <3>2, <3>3
    <3> QED
      BY <3>1, <3>4
  <2>4. ASSUME NEW i \in 1..Len(toasts), RemoveToast(i) PROVE toasts' \in Seq(Toasts)
    <3> DEFINE S == {t \in {toasts[j] : j \in 1..Len(toasts)} : t.id # toasts[i].id}
    <3>1. toasts' = TimersRestarted(Filter(toasts, S))
      BY <2>4 DEF RemoveToast
    <3> HIDE DEF S
    <3>2. Filter(toasts, S) \in Seq(Toasts)
      BY FilterKeeps DEF NoticeInv
    <3> QED
      BY <3>1, <3>2, TimersTyped
  <2>5. ASSUME NEW c \in {"null", "yes", "no"}, NetworkStatus(c) PROVE toasts' \in Seq(Toasts)
    BY <2>5, ToastTyped DEF NetworkStatus, NetworkEffect, NoticeInv
  <2> QED
    BY <2>1, <2>2, <2>3, <2>4, <2>5 DEF NoticeNext
<1>2. wasOffline' \in BOOLEAN
  BY DEF NoticeNext, AnyToast, ClockTicks, HideToast, RemoveToast, NetworkStatus, NetworkEffect, WasOfflineAfter, NoticeInv
<1>3. connected' \in {"null", "yes", "no"} /\ (wasOffline => announced = "offline")'
  <2>1. ASSUME NEW c \in {"null", "yes", "no"}, NetworkStatus(c)
        PROVE  connected' \in {"null", "yes", "no"} /\ (wasOffline => announced = "offline")'
    BY <2>1 DEF NetworkStatus, NetworkEffect, WasOfflineAfter, NoticeInv
  <2>2. \/ \E c \in {"null", "yes", "no"} : NetworkStatus(c)
        \/ UNCHANGED <<connected, wasOffline, announced>>
    BY DEF NoticeNext, AnyToast, ClockTicks, HideToast, RemoveToast
  <2> QED
    BY <2>1, <2>2 DEF NoticeInv
<1>4. clock' \in 0..MaxToasts
  <2>1. clock' = clock \/ (clock < MaxToasts /\ clock' = clock + 1)
    BY DEF NoticeNext, AnyToast, ClockTicks, HideToast, RemoveToast, NetworkStatus
  <2> QED
    BY <2>1, ShellConstants DEF NoticeInv
<1> QED
  BY <1>1, <1>2, <1>3, <1>4 DEF NoticeInv

Closes ==
    connected' # connected /\ connected' = "yes" /\ Len(toasts') > Len(toasts) => announced = "offline"

LEMMA NoticeCloses == ASSUME NoticeInv, NoticeNext \/ UNCHANGED noticeVars PROVE Closes
<1>1. CASE UNCHANGED noticeVars
  BY <1>1 DEF noticeVars, Closes
<1>2. CASE NoticeNext
  <2> SUFFICES ASSUME connected' # connected, connected' = "yes", Len(toasts') > Len(toasts) PROVE announced = "offline"
    BY DEF Closes
  <2>1. NetworkStatus("yes")
    BY <1>2 DEF NoticeNext, AnyToast, ClockTicks, HideToast, RemoveToast, NetworkStatus
  <2>2. toasts' # toasts
    BY LenProperties DEF NoticeInv
  <2> QED
    BY <2>1, <2>2 DEF NetworkStatus, NetworkEffect, NoticeInv
<1> QED
  BY <1>1, <1>2

-----------------------------------------------------------------------------
(***************************************************************************)
(* The version gate.  The loop of compareVersions is a recursive function; *)
(* it exists, and its first value is that of the first place in which the  *)
(* versions differ.                                                        *)
(***************************************************************************)
\* g is the loop over the first n parts.
IsLoop(g, v, w, n) ==
    g = [i \in 1..n + 1 |-> IF i > n \/ Part(v, w, i) = Part(w, v, i)
                            THEN IF i > n THEN "same" ELSE g[i + 1]
                            ELSE IF Part(v, w, i) < Part(w, v, i) THEN "older" ELSE "newer"]
Longer(v, w) == IF Len(v) > Len(w) THEN Len(v) ELSE Len(w)
Loop(v, w) == CHOOSE g : IsLoop(g, v, w, Longer(v, w))

LEMMA CompareIsLoop ==
    ASSUME NEW v, NEW w
    PROVE  CompareVersions(v, w) = Loop(v, w)[1]
BY DEF CompareVersions, Loop, IsLoop, Longer

LEMMA PartsAreNumbers ==
    ASSUME NEW v \in Seq(Nat), NEW w \in Seq(Nat)
    PROVE  /\ Longer(v, w) \in Nat /\ Longer(v, w) <= Len(v) + Len(w) /\ Len(v) + Len(w) \in Nat
           /\ \A i \in Nat \ {0} : /\ Part(v, w, i) \in Nat /\ Part(w, v, i) \in Nat
                                   /\ Part(v, w, i) = Place(v, i) /\ Part(w, v, i) = Place(w, i)
                                   /\ i > Longer(v, w) => Part(v, w, i) = 0 /\ Part(w, v, i) = 0
<1>1. Len(v) \in Nat /\ Len(w) \in Nat /\ DOMAIN v = 1..Len(v) /\ DOMAIN w = 1..Len(w)
  BY LenProperties
<1>2. (\A i \in 1..Len(v) : v[i] \in Nat) /\ (\A i \in 1..Len(w) : w[i] \in Nat)
  BY ElementOfSeq
<1> QED
  BY <1>1, <1>2 DEF Part, Place, Longer

\* The place from i on, up to n, in which the versions differ first.
FirstDiffers(v, w, i, n, j) ==
    /\ j \in i..n /\ Part(v, w, j) # Part(w, v, j)
    /\ \A k \in i..j - 1 : Part(v, w, k) = Part(w, v, k)

LEMMA LoopExists ==
    ASSUME NEW v \in Seq(Nat), NEW w \in Seq(Nat)
    PROVE  IsLoop(Loop(v, w), v, w, Longer(v, w))
<1> DEFINE n == Longer(v, w)
           Older(i) == \E j \in 1..n : FirstDiffers(v, w, i, n, j) /\ Part(v, w, j) < Part(w, v, j)
           Newer(i) == \E j \in 1..n : FirstDiffers(v, w, i, n, j) /\ ~(Part(v, w, j) < Part(w, v, j))
           g == [i \in 1..n + 1 |-> IF Older(i) THEN "older" ELSE IF Newer(i) THEN "newer" ELSE "same"]
<1>1. n \in Nat
  BY PartsAreNumbers
<1> HIDE DEF n
<1>2. ASSUME NEW i \in 1..n, Part(v, w, i) = Part(w, v, i)
      PROVE  (Older(i) <=> Older(i + 1)) /\ (Newer(i) <=> Newer(i + 1))
  <2>1. ASSUME NEW j \in 1..n PROVE FirstDiffers(v, w, i, n, j) <=> FirstDiffers(v, w, i + 1, n, j)
    <3>1. ASSUME FirstDiffers(v, w, i, n, j) PROVE FirstDiffers(v, w, i + 1, n, j)
      BY <1>1, <1>2, <3>1 DEF FirstDiffers
    <3>2. ASSUME FirstDiffers(v, w, i + 1, n, j) PROVE FirstDiffers(v, w, i, n, j)
      <4>1. \A k \in i..j - 1 : k = i \/ k \in i + 1..j - 1
        BY <1>1
      <4> QED
        BY <1>1, <1>2, <3>2, <4>1 DEF FirstDiffers
    <3> QED
      BY <3>1, <3>2
  <2> QED
    BY <2>1
<1>3. ASSUME NEW i \in 1..n, Part(v, w, i) # Part(w, v, i)
      PROVE  /\ Older(i) <=> Part(v, w, i) < Part(w, v, i)
             /\ Newer(i) <=> ~(Part(v, w, i) < Part(w, v, i))
  <2>1. FirstDiffers(v, w, i, n, i)
    BY <1>1, <1>3 DEF FirstDiffers
  <2>2. ASSUME NEW j \in 1..n, FirstDiffers(v, w, i, n, j) PROVE j = i
    BY <1>1, <1>3, <2>2 DEF FirstDiffers
  <2> QED
    BY <2>1, <2>2
<1>4. ~Older(n + 1) /\ ~Newer(n + 1)
  BY <1>1 DEF FirstDiffers
<1>5. ASSUME NEW i \in 1..n + 1
      PROVE  g[i] = IF i > n \/ Part(v, w, i) = Part(w, v, i)
                    THEN IF i > n THEN "same" ELSE g[i + 1]
                    ELSE IF Part(v, w, i) < Part(w, v, i) THEN "older" ELSE "newer"
  <2> HIDE DEF Older, Newer
  <2>1. CASE i > n
    <3>1. i = n + 1
      BY <1>1, <2>1
    <3> QED
      BY <1>4, <2>1, <3>1
  <2>2. CASE i <= n /\ Part(v, w, i) = Part(w, v, i)
    <3>1. i \in 1..n /\ i + 1 \in 1..n + 1 /\ ~(i > n)
      BY <1>1, <2>2
    <3> QED
      BY <1>2, <2>2, <3>1
  <2>3. CASE i <= n /\ Part(v, w, i) # Part(w, v, i)
    <3>1. i \in 1..n /\ ~(i > n)
      BY <1>1, <2>3
    <3> QED
      BY <1>3, <2>3, <3>1
  <2> QED
    BY <1>1, <2>1, <2>2, <2>3
<1>6. IsLoop(g, v, w, n)
  <2> HIDE DEF Older, Newer
  <2> QED
    BY <1>5 DEF IsLoop
<1>7. \E f : IsLoop(f, v, w, n)
  <2> HIDE DEF g
  <2> QED
    BY <1>6
<1> QED
  BY <1>7 DEF Loop, n

LEMMA LoopAt ==
    ASSUME NEW v, NEW w, NEW n \in Nat, NEW g, IsLoop(g, v, w, n), NEW i \in 1..n + 1
    PROVE  g[i] = IF i > n \/ Part(v, w, i) = Part(w, v, i)
                  THEN IF i > n THEN "same" ELSE g[i + 1]
                  ELSE IF Part(v, w, i) < Part(w, v, i) THEN "older" ELSE "newer"
BY DEF IsLoop

\* The loop passes over parts that are equal.
LEMMA LoopSkips ==
    ASSUME NEW v, NEW w, NEW n \in Nat, NEW g, IsLoop(g, v, w, n), NEW e \in 1..n + 1,
           \A j \in 1..e - 1 : Part(v, w, j) = Part(w, v, j)
    PROVE  g[1] = g[e]
<1> DEFINE B == {i \in 1..e : g[i] # g[1]}
<1>1. B = {}
  <2> SUFFICES ASSUME B # {} PROVE FALSE
    OBVIOUS
  <2>1. PICK i \in B : \A m \in B : i <= m
    <3>1. B \subseteq Nat
      OBVIOUS
    <3> HIDE DEF B
    <3> QED
      BY <3>1, Smallest
  <2>2. i \in 1..e /\ g[i] # g[1] /\ i # 1
    BY <2>1
  <2>3. i - 1 \in 1..e /\ i - 1 \notin B /\ i - 1 \in 1..e - 1 /\ i - 1 \in 1..n + 1 /\ ~(i - 1 > n)
    <3>1. i - 1 \in 1..e /\ ~(i <= i - 1) /\ i - 1 \in 1..e - 1 /\ i - 1 \in 1..n + 1 /\ ~(i - 1 > n)
      BY <2>2
    <3> HIDE DEF B
    <3> QED
      BY <2>1, <3>1
  <2>4. g[i - 1] = g[1]
    BY <2>3
  <2>5. g[i - 1] = g[(i - 1) + 1] /\ (i - 1) + 1 = i
    <3> HIDE DEF B
    <3> QED
      BY <2>2, <2>3, LoopAt
  <2> QED
    BY <2>2, <2>4, <2>5
<1> QED
  BY <1>1

LEMMA GateCompares ==
    ASSUME NEW v \in Seq(Nat), NEW w \in Seq(Nat)
    PROVE  CompareVersions(v, w) = "older" <=> Before(v, w)
<1> DEFINE n == Longer(v, w)
           g == Loop(v, w)
<1>1. /\ n \in Nat /\ n <= Len(v) + Len(w) /\ Len(v) + Len(w) \in Nat
      /\ \A i \in Nat \ {0} : /\ Part(v, w, i) \in Nat /\ Part(w, v, i) \in Nat
                              /\ Part(v, w, i) = Place(v, i) /\ Part(w, v, i) = Place(w, i)
                              /\ i > n => Part(v, w, i) = 0 /\ Part(w, v, i) = 0
  BY PartsAreNumbers
<1>2. IsLoop(g, v, w, n)
  BY LoopExists
<1>3. CompareVersions(v, w) = g[1]
  BY CompareIsLoop
<1> HIDE DEF n, g
<1>4. ASSUME Before(v, w) PROVE g[1] = "older"
  <2>1. PICK i \in 1..Len(v) + Len(w) :
            Place(v, i) < Place(w, i) /\ \A j \in 1..i - 1 : Place(v, j) = Place(w, j)
    BY <1>4 DEF Before
  <2>2. Part(v, w, i) < Part(w, v, i) /\ \A j \in 1..i - 1 : Part(v, w, j) = Part(w, v, j)
    <3>1. i \in Nat \ {0} /\ \A j \in 1..i - 1 : j \in Nat \ {0}
      BY <1>1
    <3>2. Part(v, w, i) < Part(w, v, i)
      BY <1>1, <2>1, <3>1
    <3>3. ASSUME NEW j \in 1..i - 1 PROVE Part(v, w, j) = Part(w, v, j)
      BY <1>1, <2>1, <3>1
    <3> QED
      BY <3>2, <3>3
  <2>3. i \in 1..n + 1 /\ ~(i > n) /\ Part(v, w, i) # Part(w, v, i)
    BY <1>1, <2>2
  <2>4. g[1] = g[i]
    BY <1>1, <1>2, <2>2, <2>3, LoopSkips
  <2> QED
    BY <1>1, <1>2, <2>2, <2>3, <2>4, LoopAt
<1>5. ASSUME ~Before(v, w) PROVE g[1] # "older"
  <2> DEFINE D == {i \in 1..n : Part(v, w, i) # Part(w, v, i)}
  <2>1. CASE D = {}
    <3>0. n + 1 \in 1..n + 1 /\ n + 1 > n /\ \A j \in 1..(n + 1) - 1 : j \in 1..n
      BY <1>1
    <3>1. n + 1 \in 1..n + 1 /\ n + 1 > n /\ \A j \in 1..(n + 1) - 1 : Part(v, w, j) = Part(w, v, j)
      BY <2>1, <3>0
    <3>2. g[1] = g[n + 1]
      BY <1>1, <1>2, <3>1, LoopSkips
    <3>3. g[n + 1] = "same"
      BY <1>1, <1>2, <3>1, LoopAt
    <3> QED
      BY <3>2, <3>3
  <2>2. CASE D # {}
    <3>1. PICK d \in D : \A m \in D : d <= m
      <4>1. D \subseteq Nat
        BY <1>1
      <4> HIDE DEF D
      <4> QED
        BY <2>2, <4>1, Smallest
    <3>2. d \in 1..n /\ Part(v, w, d) # Part(w, v, d)
      BY <3>1
    <3>3. ASSUME NEW j \in 1..d - 1 PROVE Part(v, w, j) = Part(w, v, j)
      <4>1. j \in 1..n /\ ~(d <= j)
        BY <1>1, <3>2
      <4>2. j \notin D
        BY <3>1, <4>1
      <4> QED
        BY <4>1, <4>2
    <3>4. g[1] = g[d] /\ d \in 1..n + 1 /\ ~(d > n)
      <4>1. d \in 1..n + 1 /\ ~(d > n)
        BY <1>1, <3>2
      <4> QED
        BY <1>1, <1>2, <3>3, <4>1, LoopSkips
    <3>5. ~(Part(v, w, d) < Part(w, v, d))
      <4> SUFFICES ASSUME Part(v, w, d) < Part(w, v, d) PROVE Before(v, w)
        BY <1>5
      <4>1. d \in 1..Len(v) + Len(w) /\ Place(v, d) < Place(w, d)
        BY <1>1, <3>2
      <4>2. \A j \in 1..d - 1 : Place(v, j) = Place(w, j)
        BY <1>1, <3>3
      <4> QED
        BY <4>1, <4>2 DEF Before
    <3> QED
      BY <1>1, <1>2, <3>2, <3>4, <3>5, LoopAt
  <2> QED
    BY <2>1, <2>2
<1> QED
  BY <1>3, <1>4, <1>5

GateInv ==
    /\ installed \in Versions /\ required \in Versions \cup {<<>>} /\ forceUpdate \in BOOLEAN
    /\ GateIsRight

LEMMA GateStarts == ASSUME GateInit PROVE GateInv
BY DEF GateInit, GateInv, GateIsRight

LEMMA GateRests == ASSUME GateInv, UNCHANGED gateVars PROVE GateInv'
BY DEF GateInv, gateVars, GateIsRight

LEMMA GateStep == ASSUME GateInv, GateNext PROVE GateInv'
<1>1. PICK v \in Versions : CheckMinimumVersion(v)
  BY DEF GateNext
<1>2. forceUpdate' \in BOOLEAN
  BY <1>1 DEF CheckMinimumVersion
<1>3. installed \in Seq(Nat) /\ v \in Seq(Nat)
  BY ShellConstants DEF GateInv
<1>4. CompareVersions(installed, v) = "older" <=> Before(installed, v)
  BY <1>3, GateCompares
<1>5. installed' = installed /\ required' = v /\ forceUpdate' = (CompareVersions(installed, v) = "older")
  BY <1>1 DEF CheckMinimumVersion
<1>6. forceUpdate' <=> Before(installed', required')
  BY <1>4, <1>5
<1> QED
  BY <1>2, <1>5, <1>6 DEF GateInv, GateIsRight

-----------------------------------------------------------------------------
(***************************************************************************)
(* The contacts.  The hashes are sent in chunks: after each, the matches   *)
(* are those of the hashes sent so far.                                    *)
(***************************************************************************)
NameMaps == {m \in [AllNumbers -> DOMAIN Entries] : \A h \in AllNumbers : h \in HashesOf(m[h])}
Matched == AllNumbers \cap OnZaps

ContactInv ==
    /\ contactStep \in {"idle", "permission", "reading", "matching", "loaded"} /\ contactsFailed \in BOOLEAN
    /\ matches \in Seq(AllNumbers)
    /\ contactStep # "loaded" => ~contactsFailed /\ matchedContacts = {}
    /\ contactStep = "matching" =>
          /\ hashMap \in NameMaps /\ allHashes \in Seq(AllNumbers) /\ Elements(allHashes) = AllNumbers
          /\ nextChunk \in 1..Len(allHashes)
          /\ Elements(matches) = {allHashes[i] : i \in 1..nextChunk - 1} \cap OnZaps
    /\ ContactsAreComplete

LEMMA ContactStarts == ASSUME ContactInit PROVE ContactInv
<1>1. contactsFailed \in BOOLEAN
  BY DEF ContactInit
<1> QED
  BY <1>1 DEF ContactInit, ContactInv, ContactsAreComplete

LEMMA ContactRests == ASSUME ContactInv, UNCHANGED contactVars PROVE ContactInv'
<1>1. contactsFailed' \in BOOLEAN
  BY DEF ContactInv, contactVars
<1>2. ContactsAreComplete'
  BY DEF ContactInv, contactVars, ContactsAreComplete
<1> QED
  BY <1>1, <1>2 DEF ContactInv, contactVars

\* An order of the numbers lists each of them.
LEMMA OrdersAreComplete ==
    ASSUME NEW s \in Orders(AllNumbers)
    PROVE  s \in Seq(AllNumbers) /\ Elements(s) = AllNumbers /\ (AllNumbers # {} => 1 \in 1..Len(s))
<1> DEFINE S == AllNumbers
           n == Cardinality(S)
<1>1. IsFiniteSet(S) /\ n \in Nat
  BY PhoneBookIsFinite, FS_CardinalityType
<1>2. s \in [1..n -> S] /\ \A i, j \in 1..n : i # j => s[i] # s[j]
  BY DEF Orders
<1> HIDE DEF S
<1>3. s \in Injection(1..n, S)
  BY <1>2 DEF Injection, IsInjective
<1>4. IsFiniteSet(1..n) /\ Cardinality(1..n) = n
  <2> HIDE DEF n
  <2> QED
    BY <1>1, FS_Interval
<1>5. s \in Surjection(1..n, S)
  <2>1. Cardinality(1..n) = Cardinality(S)
    BY <1>4
  <2> HIDE DEF n
  <2> QED
    BY <1>1, <1>3, <2>1, FS_Injection
<1>6. s \in Seq(S) /\ Len(s) = n
  <2> HIDE DEF n
  <2> QED
    BY <1>1, <1>2
<1>7. Elements(s) = S
  <2> HIDE DEF n
  <2> QED
    BY <1>2, <1>5, <1>6 DEF Surjection, Elements
<1>8. ASSUME S # {} PROVE 1 \in 1..Len(s)
  <2>1. n # 0
    BY <1>1, <1>8, FS_EmptySet
  <2> HIDE DEF n
  <2> QED
    BY <1>1, <1>6, <2>1
<1> QED
  BY <1>6, <1>7, <1>8 DEF S

\* The elements of a concatenation and of a part of a sequence.
LEMMA ConcatElements ==
    ASSUME NEW T, NEW s \in Seq(T), NEW t \in Seq(T)
    PROVE  s \o t \in Seq(T) /\ Elements(s \o t) = Elements(s) \cup Elements(t)
<1>1. /\ s \o t \in Seq(T) /\ Len(s \o t) = Len(s) + Len(t)
      /\ \A i \in 1..Len(s) + Len(t) : (s \o t)[i] = IF i <= Len(s) THEN s[i] ELSE t[i - Len(s)]
  BY ConcatProperties
<1>2. Len(s) \in Nat /\ Len(t) \in Nat
  BY LenProperties
<1> DEFINE u == s \o t
<1> HIDE DEF u
<1>3. ASSUME NEW i \in 1..Len(u) PROVE u[i] \in Elements(s) \cup Elements(t)
  <2>1. CASE i <= Len(s)
    <3>1. i \in 1..Len(s) /\ u[i] = s[i]
      BY <1>1, <1>2, <2>1 DEF u
    <3> QED
      BY <3>1 DEF Elements
  <2>2. CASE ~(i <= Len(s))
    <3>1. i - Len(s) \in 1..Len(t) /\ u[i] = t[i - Len(s)]
      BY <1>1, <1>2, <2>2 DEF u
    <3> QED
      BY <3>1 DEF Elements
  <2> QED
    BY <2>1, <2>2
<1>4. ASSUME NEW i \in 1..Len(s) PROVE s[i] \in Elements(u)
  <2>1. i \in 1..Len(u) /\ u[i] = s[i]
    BY <1>1, <1>2 DEF u
  <2> QED
    BY <2>1 DEF Elements
<1>5. ASSUME NEW i \in 1..Len(t) PROVE t[i] \in Elements(u)
  <2>1. i + Len(s) \in 1..Len(u) /\ ~(i + Len(s) <= Len(s)) /\ (i + Len(s)) - Len(s) = i
    BY <1>1, <1>2 DEF u
  <2>2. u[i + Len(s)] = t[i]
    BY <1>1, <2>1 DEF u
  <2> QED
    BY <2>1, <2>2 DEF Elements
<1>6. Elements(u) = Elements(s) \cup Elements(t)
  <2>1. Elements(u) \subseteq Elements(s) \cup Elements(t)
    BY <1>3 DEF Elements
  <2>2. Elements(s) \subseteq Elements(u)
    BY <1>4 DEF Elements
  <2>3. Elements(t) \subseteq Elements(u)
    BY <1>5 DEF Elements
  <2> QED
    BY <2>1, <2>2, <2>3
<1> QED
  BY <1>1, <1>6 DEF u

LEMMA SubElements ==
    ASSUME NEW T, NEW s \in Seq(T), NEW a \in 1..Len(s), NEW b \in a..Len(s)
    PROVE  SubSeq(s, a, b) \in Seq(T) /\ Elements(SubSeq(s, a, b)) = {s[i] : i \in a..b}
<1>1. Len(s) \in Nat /\ a \in Int /\ b \in Int /\ \A i \in a..b : s[i] \in T
  <2>1. Len(s) \in Nat
    BY LenProperties
  <2>2. \A i \in a..b : i \in 1..Len(s)
    BY <2>1
  <2> QED
    BY <2>1, <2>2, ElementOfSeq
<1> DEFINE u == SubSeq(s, a, b)
<1>2. /\ u \in Seq(T) /\ Len(u) = b - a + 1
      /\ \A i \in 1..b - a + 1 : u[i] = s[a + i - 1]
  <2>1. /\ SubSeq(s, a, b) \in Seq(T)
        /\ Len(SubSeq(s, a, b)) = IF a <= b THEN b - a + 1 ELSE 0
        /\ \A i \in 1..b - a + 1 : SubSeq(s, a, b)[i] = s[a + i - 1]
    BY <1>1, SubSeqProperties
  <2> QED
    BY <1>1, <2>1
<1> HIDE DEF u
<1>3. Elements(u) \subseteq {s[i] : i \in a..b}
  <2>1. ASSUME NEW i \in 1..Len(u) PROVE u[i] \in {s[j] : j \in a..b}
    <3>1. a + i - 1 \in a..b /\ u[i] = s[a + i - 1]
      BY <1>1, <1>2
    <3> QED
      BY <3>1
  <2> QED
    BY <2>1 DEF Elements
<1>4. {s[i] : i \in a..b} \subseteq Elements(u)
  <2>1. ASSUME NEW i \in a..b PROVE s[i] \in Elements(u)
    <3>1. i - a + 1 \in 1..Len(u) /\ u[i - a + 1] = s[i]
      <4>1. i - a + 1 \in 1..b - a + 1 /\ a + (i - a + 1) - 1 = i
        BY <1>1
      <4> QED
        BY <1>2, <4>1
    <3> QED
      BY <3>1 DEF Elements
  <2> QED
    BY <2>1
<1> QED
  BY <1>2, <1>3, <1>4 DEF u

\* The list that is merged from all the matches.
LEMMA MergedIsComplete ==
    ASSUME hashMap \in NameMaps, NEW ms, NEW S, S = {ms[i] : i \in DOMAIN ms}, S = Matched
    PROVE  /\ {c.number : c \in Merged(ms)} = Matched
           /\ \A c \in Merged(ms) : c.number \in HashesOf(c.name)
           /\ Cardinality(Merged(ms)) = Cardinality(Matched)
<1> DEFINE M == Merged(ms)
           Card(h) == [name |-> hashMap[h], number |-> h]
<1>1. M = {Card(h) : h \in S}
  BY DEF Merged
<1>2. S \subseteq AllNumbers /\ \A h \in AllNumbers : h \in HashesOf(hashMap[h])
  BY DEF NameMaps, Matched
<1>3. {c.number : c \in M} = S /\ \A c \in M : c.number \in HashesOf(c.name)
  <2>1. \A h \in S : Card(h).number = h /\ Card(h).name = hashMap[h]
    OBVIOUS
  <2>2. \A c \in M : \E h \in S : c = Card(h)
    BY <1>1
  <2>3. \A h \in S : Card(h) \in M
    BY <1>1
  <2> HIDE DEF Card, M
  <2> QED
    BY <1>2, <2>1, <2>2, <2>3
<1> DEFINE f == [h \in S |-> Card(h)]
<1>4. f \in Injection(S, M)
  <2>1. f \in [S -> M]
    BY <1>1
  <2>2. \A g, h \in S : f[g] = f[h] => g = h
    OBVIOUS
  <2> HIDE DEF f, M
  <2>3. \A g, h \in DOMAIN f : f[g] = f[h] => g = h
    BY <2>1, <2>2
  <2> QED
    BY <2>1, <2>3 DEF Injection, IsInjective
<1>5. f \in Surjection(S, M)
  <2>1. f \in [S -> M]
    BY <1>1
  <2>2. \A c \in M : \E h \in S : f[h] = c
    BY <1>1
  <2> HIDE DEF f, M
  <2> QED
    BY <2>1, <2>2 DEF Surjection
<1>6. IsFiniteSet(S)
  BY PhoneBookIsFinite, <1>2, FS_Subset
<1>7. Cardinality(M) = Cardinality(S)
  <2> HIDE DEF f, M
  <2>1. ExistsBijection(S, M)
    BY <1>4, <1>5 DEF ExistsBijection, Bijection
  <2> QED
    BY <1>6, <2>1, FS_Bijection
<1> QED
  BY <1>3, <1>7

LEMMA BuildKeeps == ASSUME ContactInv, BuildPhoneHashMap PROVE ContactInv'
<1>1. /\ contactStep = "reading" /\ hashMap' \in NameMaps /\ allHashes' \in Orders(AllNumbers)
      /\ nextChunk' = 1 /\ matches' = <<>>
      /\ contactStep' = IF AllNumbers = {} THEN "loaded" ELSE "matching"
      /\ matchedContacts' = matchedContacts /\ contactsFailed' = contactsFailed
  BY DEF BuildPhoneHashMap, NameMaps
<1>2. ~contactsFailed /\ matchedContacts = {} /\ contactsFailed' \in BOOLEAN
  BY <1>1 DEF ContactInv
<1>3. PICK s : s = allHashes'
  OBVIOUS
<1>4. s \in Seq(AllNumbers) /\ Elements(s) = AllNumbers /\ (AllNumbers # {} => 1 \in 1..Len(s))
  BY <1>1, <1>3, OrdersAreComplete
<1>5. matches' \in Seq(AllNumbers) /\ Elements(matches') = {}
  BY <1>1 DEF Elements
<1>6. CASE AllNumbers = {}
  <2>1. ContactsAreComplete'
    BY <1>1, <1>2, <1>6 DEF ContactsAreComplete
  <2> QED
    BY <1>1, <1>2, <1>5, <1>6, <2>1 DEF ContactInv
<1>7. CASE AllNumbers # {}
  <2>1. {s[i] : i \in 1..nextChunk' - 1} = {}
    BY <1>1
  <2>2. nextChunk' \in 1..Len(s)
    BY <1>1, <1>4, <1>7
  <2>3. contactStep' = "matching" /\ ContactsAreComplete'
    BY <1>1, <1>7 DEF ContactsAreComplete
  <2>4. /\ allHashes' \in Seq(AllNumbers) /\ Elements(allHashes') = AllNumbers /\ nextChunk' \in 1..Len(allHashes')
        /\ Elements(matches') = {allHashes'[i] : i \in 1..nextChunk' - 1} \cap OnZaps
    BY <1>3, <1>4, <1>5, <2>1, <2>2
  <2> QED
    BY <1>1, <1>2, <1>5, <2>3, <2>4 DEF ContactInv
<1> QED
  BY <1>6, <1>7

LEMMA MatchKeeps == ASSUME ContactInv, BatchMatchContacts PROVE ContactInv'
<1> DEFINE n == nextChunk
           N == Len(allHashes)
           m == IF n + ChunkSize - 1 < N THEN n + ChunkSize - 1 ELSE N
           chunk == SubSeq(allHashes, n, m)
           found == Filter(chunk, OnZaps)
<1>1. /\ contactStep = "matching" /\ matches' = matches \o found /\ nextChunk' = n + ChunkSize
      /\ contactStep' = IF nextChunk' > N THEN "loaded" ELSE "matching"
      /\ matchedContacts' = IF nextChunk' > N THEN Merged(matches') ELSE matchedContacts
      /\ hashMap' = hashMap /\ allHashes' = allHashes /\ contactsFailed' = contactsFailed
  BY DEF BatchMatchContacts, Chunk
<1>2. /\ hashMap \in NameMaps /\ allHashes \in Seq(AllNumbers) /\ Elements(allHashes) = AllNumbers
      /\ n \in 1..N /\ matches \in Seq(AllNumbers)
      /\ Elements(matches) = {allHashes[i] : i \in 1..n - 1} \cap OnZaps
      /\ ~contactsFailed /\ matchedContacts = {}
  BY <1>1 DEF ContactInv
<1>3. ChunkSize \in Nat \ {0} /\ N \in Nat
  BY <1>2, LenProperties, ShellConstants
<1>4. m \in n..N
  BY <1>2, <1>3
<1> HIDE DEF m, n, N
<1>5. chunk \in Seq(AllNumbers) /\ Elements(chunk) = {allHashes[i] : i \in n..m}
  BY <1>2, <1>4, SubElements DEF N
<1> HIDE DEF chunk
<1>6. found \in Seq(AllNumbers) /\ Elements(found) = Elements(chunk) \cap OnZaps
  <2>1. PICK c \in Seq(AllNumbers) : c = chunk
    BY <1>5
  <2>2. /\ Filter(c, OnZaps) \in Seq(AllNumbers)
        /\ Elements(Filter(c, OnZaps)) = Elements(c) \cap OnZaps
    BY FilterKeeps
  <2> QED
    BY <2>1, <2>2
<1> HIDE DEF found
<1>7. matches' \in Seq(AllNumbers) /\ Elements(matches') = Elements(matches) \cup Elements(found)
  BY <1>1, <1>2, <1>6, ConcatElements
<1>8. Elements(matches') = {allHashes[i] : i \in 1..m} \cap OnZaps
  <2>1. {allHashes[i] : i \in 1..m} = {allHashes[i] : i \in 1..n - 1} \cup {allHashes[i] : i \in n..m}
    <3>1. \A i \in 1..m : i \in 1..n - 1 \/ i \in n..m
      BY <1>2, <1>3, <1>4
    <3>2. (\A i \in 1..n - 1 : i \in 1..m) /\ (\A i \in n..m : i \in 1..m)
      BY <1>2, <1>3, <1>4
    <3> QED
      BY <3>1, <3>2
  <2> QED
    BY <1>2, <1>5, <1>6, <1>7, <2>1
<1>9. contactsFailed' \in BOOLEAN
  BY <1>1 DEF ContactInv
<1>10. CASE n + ChunkSize > N
  <2>1. m = N
    BY <1>2, <1>3, <1>10 DEF m
  <2>2. Elements(matches') = Matched
    BY <1>2, <1>8, <2>1 DEF Matched, Elements, N
  <2>3. PICK ms : ms = matches'
    OBVIOUS
  <2>4. Matched = {ms[i] : i \in DOMAIN ms}
    <3>1. DOMAIN ms = 1..Len(ms)
      BY <1>7, <2>3, LenProperties
    <3> QED
      BY <2>2, <2>3, <3>1 DEF Elements
  <2>5. matchedContacts' = Merged(ms) /\ contactStep' = "loaded"
    BY <1>1, <1>10, <2>3
  <2>6. /\ {c.number : c \in Merged(ms)} = Matched
        /\ \A c \in Merged(ms) : c.number \in HashesOf(c.name)
        /\ Cardinality(Merged(ms)) = Cardinality(Matched)
    BY <1>2, <2>4, MergedIsComplete
  <2>7. ContactsAreComplete'
    BY <2>5, <2>6 DEF ContactsAreComplete, Matched
  <2> QED
    BY <1>1, <1>7, <1>9, <2>5, <2>7 DEF ContactInv
<1>11. CASE ~(n + ChunkSize > N)
  <2>1. m = n + ChunkSize - 1 /\ nextChunk' - 1 = m /\ nextChunk' \in 1..N
    BY <1>1, <1>2, <1>3, <1>11 DEF m
  <2>2. contactStep' = "matching" /\ matchedContacts' = {} /\ ~contactsFailed'
    BY <1>1, <1>2, <1>11
  <2>3. Elements(matches') = {allHashes'[i] : i \in 1..nextChunk' - 1} \cap OnZaps
    BY <1>1, <1>8, <2>1
  <2>4. Elements(allHashes') = AllNumbers /\ nextChunk' \in 1..Len(allHashes')
    BY <1>1, <1>2, <2>1 DEF N
  <2> QED
    BY <1>1, <1>2, <1>7, <1>9, <2>2, <2>3, <2>4 DEF ContactInv, ContactsAreComplete, Elements
<1> QED
  BY <1>10, <1>11

LEMMA ContactStepKeeps == ASSUME ContactInv, ContactNext PROVE ContactInv'
<1>1. CASE LoadContacts \/ (\E g \in BOOLEAN : RequestContactsPermission(g)) \/ MatchFails
  <2>1. contactsFailed' \in BOOLEAN
    BY <1>1 DEF LoadContacts, RequestContactsPermission, MatchFails, ContactInv
  <2> QED
    BY <1>1, <2>1 DEF LoadContacts, RequestContactsPermission, MatchFails, ContactInv, ContactsAreComplete
<1> QED
  BY <1>1, BuildKeeps, MatchKeeps DEF ContactNext

-----------------------------------------------------------------------------
(***************************************************************************)
(* The queue of crash reports, while reads succeed and reports do not      *)
(* overlap.  Its reports are older by one, at least, than the next, so     *)
(* what is displaced from a full queue has as many newer ones.             *)
(***************************************************************************)
Spaced(q, c) == \A i \in 1..Len(q) : q[i] \in 1..c /\ q[i] + (Len(q) - i) <= c

\* A report under way.
ReportSteps == {"read", "store", "flush", "post", "remove"}
GoesOn(r) ==
    /\ r \in [n : Nat, step : ReportSteps, read : Seq(Nat)] /\ r.n = crashes /\ crashes # 0
    /\ r.step \in {"read", "store"} => Spaced(crashQueue, crashes - 1)
    /\ r.step \in {"store", "post"} => r.read = crashQueue
    /\ r.step \in {"flush", "post", "remove"} => crashes \in Elements(crashQueue)
    /\ r.step = "remove" => Elements(crashQueue) \subseteq delivered
OneReport == reporting = {} \/ \E r : reporting = {r} /\ GoesOn(r)

Covered ==
    \A n \in 1..crashes :
        n \in delivered \/ n \in Elements(crashQueue) \/ (\E r \in reporting : r.n = n) \/ n + MaxQueuedReports <= crashes

CrashInv ==
    /\ hasError \in BOOLEAN /\ online \in BOOLEAN /\ crashes \in Nat
    /\ delivered \subseteq 1..crashes
    /\ crashQueue \in Seq(Nat) /\ Len(crashQueue) <= MaxQueuedReports /\ Spaced(crashQueue, crashes)
    /\ OneReport /\ Covered

LEMMA CrashStarts == ASSUME CrashInit PROVE CrashInv
<1>1. hasError \in BOOLEAN /\ online \in BOOLEAN
  BY DEF CrashInit
<1> QED
  BY <1>1, ShellConstants DEF CrashInit, CrashInv, OneReport, Covered, Spaced

LEMMA CrashRests == ASSUME CrashInv, UNCHANGED crashVars PROVE CrashInv'
<1>1. hasError' \in BOOLEAN /\ online' \in BOOLEAN
  BY DEF CrashInv, crashVars
<1>2. OneReport'
  BY DEF CrashInv, crashVars, OneReport, GoesOn
<1>3. Covered'
  BY DEF CrashInv, crashVars, Covered
<1> QED
  BY <1>1, <1>2, <1>3 DEF CrashInv, crashVars

\* A report is added to a queue of older ones.
LEMMA NewestKeeps ==
    ASSUME NEW q \in Seq(Nat), NEW c \in Nat \ {0}, Spaced(q, c - 1), Len(q) <= MaxQueuedReports
    PROVE  LET u == Newest(Append(q, c)) IN
           /\ u \in Seq(Nat) /\ Len(u) <= MaxQueuedReports /\ Spaced(u, c) /\ c \in Elements(u)
           /\ \A x \in Elements(q) : x \in Elements(u) \/ x + MaxQueuedReports <= c
<1> DEFINE a == Append(q, c)
           n == Len(q)
           M == MaxQueuedReports
<1>1. /\ a \in Seq(Nat) /\ Len(a) = n + 1 /\ n \in Nat
      /\ \A i \in 1..n : a[i] = q[i]
      /\ a[n + 1] = c
  OBVIOUS
<1>2. M \in Nat \ {0} /\ n <= M
  BY ShellConstants
<1>3. \A i \in 1..n : q[i] \in 1..c - 1 /\ q[i] + (n - i) <= c - 1
  BY DEF Spaced
<1> HIDE DEF a, n, M
<1>4. \A i \in 1..n + 1 : a[i] \in 1..c /\ a[i] + (n + 1 - i) <= c
  <2>1. ASSUME NEW i \in 1..n PROVE a[i] \in 1..c /\ a[i] + (n + 1 - i) <= c
    <3>1. a[i] = q[i] /\ q[i] \in 1..c - 1 /\ q[i] + (n - i) <= c - 1
      BY <1>1, <1>3
    <3> QED
      BY <1>1, <3>1
  <2>2. a[n + 1] \in 1..c /\ a[n + 1] + (n + 1 - (n + 1)) <= c
    BY <1>1
  <2>3. \A i \in 1..n + 1 : i \in 1..n \/ i = n + 1
    BY <1>1
  <2> SUFFICES ASSUME NEW i \in 1..n + 1 PROVE a[i] \in 1..c /\ a[i] + (n + 1 - i) <= c
    OBVIOUS
  <2> QED
    BY <2>1, <2>2, <2>3
<1> DEFINE u == Newest(a)
<1>5. CASE n < M
  <2>1. u = a
    BY <1>1, <1>2, <1>5 DEF Newest, M
  <2> HIDE DEF u
  <2>2. Spaced(u, c)
    <3>1. PICK k : k = n + 1
      OBVIOUS
    <3>2. Len(u) = k /\ \A i \in 1..k : u[i] \in 1..c /\ u[i] + (k - i) <= c
      BY <1>1, <1>4, <2>1, <3>1
    <3> QED
      BY <3>2 DEF Spaced
  <2>3. c \in Elements(u)
    <3>1. n + 1 \in 1..Len(u) /\ u[n + 1] = c
      BY <1>1, <2>1
    <3> QED
      BY <3>1 DEF Elements
  <2>4. ASSUME NEW x \in Elements(q) PROVE x \in Elements(u)
    <3>1. PICK i \in 1..n : x = q[i]
      BY DEF Elements, n
    <3>2. i \in 1..Len(u) /\ u[i] = x
      BY <1>1, <2>1, <3>1
    <3> QED
      BY <3>2 DEF Elements
  <2> QED
    BY <1>1, <1>2, <1>5, <2>1, <2>2, <2>3, <2>4 DEF a, M, u
<1>6. CASE n = M
  <2>1. u = SubSeq(a, 2, n + 1)
    <3>1. Len(a) > M /\ Len(a) - M + 1 = 2
      BY <1>1, <1>2, <1>6
    <3> QED
      BY <1>1, <3>1 DEF Newest, M
  <2>2. /\ u \in Seq(Nat) /\ Len(u) = n
        /\ \A i \in 1..n : u[i] = a[i + 1]
    <3>0. PICK lo, hi : lo = 2 /\ hi = n + 1
      OBVIOUS
    <3>1. lo \in Int /\ hi \in Int /\ \A i \in lo..hi : a[i] \in Nat
      BY <1>1, <1>4, <3>0
    <3>2. /\ SubSeq(a, lo, hi) \in Seq(Nat)
          /\ Len(SubSeq(a, lo, hi)) = IF lo <= hi THEN hi - lo + 1 ELSE 0
          /\ \A i \in 1..hi - lo + 1 : SubSeq(a, lo, hi)[i] = a[lo + i - 1]
      BY <3>1, SubSeqProperties
    <3>3. hi - lo + 1 = n /\ lo <= hi /\ \A i \in 1..n : lo + i - 1 = i + 1
      BY <1>1, <1>2, <1>6, <3>0
    <3> QED
      BY <2>1, <3>0, <3>2, <3>3
  <2> HIDE DEF u
  <2>3. ASSUME NEW i \in 1..n PROVE u[i] \in 1..c /\ u[i] + (n - i) <= c
    <3>1. i + 1 \in 1..n + 1 /\ n + 1 - (i + 1) = n - i
      BY <1>1
    <3> QED
      BY <1>4, <2>2, <3>1
  <2>4. Spaced(u, c)
    BY <2>2, <2>3 DEF Spaced
  <2>5. u[n] = c /\ n \in 1..n
    BY <1>1, <1>2, <1>6, <2>2
  <2>6. c \in Elements(u)
    BY <2>2, <2>5 DEF Elements
  <2>7. ASSUME NEW i \in 1..n PROVE q[i] \in Elements(u) \/ q[i] + M <= c
    <3>1. CASE i = 1
      <4>1. q[1] \in 1..c - 1 /\ q[1] + (n - 1) <= c - 1
        BY <1>3, <3>1
      <4> QED
        BY <1>1, <1>2, <1>6, <3>1, <4>1
    <3>2. CASE i # 1
      <4>1. i - 1 \in 1..n /\ (i - 1) + 1 = i
        BY <1>1, <3>2
      <4>2. u[i - 1] = q[i]
        BY <1>1, <2>2, <4>1
      <4> QED
        BY <2>2, <4>1, <4>2 DEF Elements
    <3> QED
      BY <3>1, <3>2
  <2>8. \A x \in Elements(q) : x \in Elements(u) \/ x + M <= c
    BY <2>7 DEF Elements, n
  <2> QED
    BY <1>2, <1>6, <2>2, <2>4, <2>6, <2>8 DEF u, a, M
<1> QED
  BY <1>1, <1>2, <1>5, <1>6

LEMMA StoreKeeps ==
    ASSUME ~HostileCrashes, CrashInv, NEW r, reporting = {r}, GoesOn(r), StoreReport(r)
    PROVE  CrashInv'
<1>1. /\ r.step = "store" /\ crashQueue' = Newest(Append(crashQueue, crashes))
      /\ reporting' = IF online THEN At(r, "flush") ELSE Ended(r)
      /\ UNCHANGED <<hasError, crashes, delivered, online>>
  BY DEF StoreReport, GoesOn
<1>2. /\ crashQueue \in Seq(Nat) /\ crashes \in Nat \ {0} /\ Spaced(crashQueue, crashes - 1)
      /\ Len(crashQueue) <= MaxQueuedReports
  BY <1>1 DEF CrashInv, GoesOn
<1>3. PICK u : u = crashQueue'
  OBVIOUS
<1>4. /\ u \in Seq(Nat) /\ Len(u) <= MaxQueuedReports /\ Spaced(u, crashes) /\ crashes \in Elements(u)
      /\ \A x \in Elements(crashQueue) : x \in Elements(u) \/ x + MaxQueuedReports <= crashes
  BY <1>1, <1>2, <1>3, NewestKeeps
<1>5. hasError' \in BOOLEAN /\ online' \in BOOLEAN
  BY <1>1 DEF CrashInv
<1>6. OneReport'
  <2>1. CASE ~online
    BY <1>1, <2>1 DEF Ended, OneReport
  <2>2. CASE online
    <3> DEFINE s == [r EXCEPT !.step = "flush"]
    <3>1. reporting' = {s}
      BY <1>1, <2>2 DEF At
    <3>2. s \in [n : Nat, step : ReportSteps, read : Seq(Nat)] /\ s.n = crashes /\ s.step = "flush"
      BY DEF GoesOn, ReportSteps
    <3> HIDE DEF s
    <3>3. GoesOn(s)'
      BY <1>1, <1>2, <1>3, <1>4, <3>2 DEF GoesOn
    <3> QED
      BY <3>1, <3>3 DEF OneReport
  <2> QED
    BY <2>1, <2>2
<1>7. Covered'
  <2> SUFFICES ASSUME NEW n \in 1..crashes
               PROVE  n \in delivered \/ n \in Elements(u) \/ n + MaxQueuedReports <= crashes
    BY <1>1, <1>3 DEF Covered
  <2>1. CASE n = crashes
    BY <1>4, <2>1
  <2>2. CASE n # crashes
    BY <1>4, <2>2 DEF CrashInv, Covered, GoesOn
  <2> QED
    BY <2>1, <2>2
<1> QED
  BY <1>1, <1>3, <1>4, <1>5, <1>6, <1>7 DEF CrashInv

\* The steps of a report that leave the queue as it is, or empty it.
LEMMA ReportKeeps ==
    ASSUME ~HostileCrashes, CrashInv, NEW r, reporting = {r}, GoesOn(r),
           ReadQueue(r) \/ PostReports(r) \/ PostFails(r) \/ RemoveQueue(r)
    PROVE  CrashInv'
<1>1. UNCHANGED <<hasError, crashes, online>>
  BY DEF ReadQueue, PostReports, PostFails, RemoveQueue
<1>2. hasError' \in BOOLEAN /\ online' \in BOOLEAN
  BY <1>1 DEF CrashInv
<1>3. crashes \in Nat \ {0} /\ r \in [n : Nat, step : ReportSteps, read : Seq(Nat)] /\ r.n = crashes
  BY DEF CrashInv, GoesOn
<1>4. \A x \in Elements(crashQueue) : x \in 1..crashes
  BY DEF CrashInv, Spaced, Elements
<1>5. CASE ReadQueue(r)
  <2>1. /\ UNCHANGED <<crashQueue, delivered>> /\ r.step \in {"read", "flush"}
        /\ reporting' = IF r.step = "flush" /\ crashQueue = <<>> THEN Ended(r)
                        ELSE (reporting \ {r}) \cup
                             {[r EXCEPT !.step = IF @ = "read" THEN "store" ELSE "post", !.read = crashQueue]}
    BY <1>5 DEF ReadQueue
  <2>2. ~(r.step = "flush" /\ crashQueue = <<>>)
    BY DEF GoesOn, Elements
  <2>0. PICK s : s = [r EXCEPT !.step = IF @ = "read" THEN "store" ELSE "post", !.read = crashQueue]
    OBVIOUS
  <2>3. reporting' = {s}
    BY <2>0, <2>1, <2>2
  <2>4. crashQueue \in Seq(Nat)
    BY DEF CrashInv
  <2>5. /\ s \in [n : Nat, step : ReportSteps, read : Seq(Nat)] /\ s.n = crashes /\ s.read = crashQueue
        /\ s.step = IF r.step = "read" THEN "store" ELSE "post"
    BY <1>3, <2>0, <2>1, <2>4 DEF ReportSteps
  <2>6. GoesOn(s)'
    BY <1>1, <1>3, <2>1, <2>5 DEF GoesOn
  <2>7. OneReport'
    BY <2>3, <2>6 DEF OneReport
  <2>8. Covered'
    BY <1>1, <1>3, <2>1, <2>3, <2>5 DEF Covered, CrashInv
  <2> QED
    BY <1>1, <1>2, <2>1, <2>7, <2>8 DEF CrashInv
<1>6. CASE PostReports(r)
  <2>1. /\ r.step = "post" /\ crashQueue' = crashQueue /\ crashes \in Elements(crashQueue)
        /\ reporting' = At(r, "remove") \/ reporting' = Ended(r)
    BY <1>6 DEF PostReports, GoesOn
  <2>2. delivered' = delivered \cup Elements(crashQueue)
    <3>1. r.read = crashQueue /\ DOMAIN crashQueue = 1..Len(crashQueue)
      BY <2>1, LenProperties DEF GoesOn, CrashInv
    <3> QED
      BY <1>6, <3>1 DEF PostReports, Elements
  <2>3. delivered' \subseteq 1..crashes
    BY <1>4, <2>2 DEF CrashInv
  <2>4. OneReport'
    <3>1. CASE reporting' = Ended(r)
      BY <3>1 DEF Ended, OneReport
    <3>2. CASE reporting' = At(r, "remove")
      <4> DEFINE s == [r EXCEPT !.step = "remove"]
      <4>1. reporting' = {s}
        BY <3>2 DEF At
      <4>2. s \in [n : Nat, step : ReportSteps, read : Seq(Nat)] /\ s.n = crashes /\ s.step = "remove"
        BY <1>3 DEF ReportSteps
      <4> HIDE DEF s
      <4>3. GoesOn(s)'
        BY <1>1, <1>3, <2>1, <2>2, <4>2 DEF GoesOn
      <4> QED
        BY <4>1, <4>3 DEF OneReport
    <3> QED
      BY <2>1, <3>1, <3>2
  <2>5. Covered'
    BY <1>1, <1>3, <2>1, <2>2 DEF Covered, CrashInv
  <2> QED
    BY <1>1, <1>2, <2>1, <2>3, <2>4, <2>5 DEF CrashInv
<1>7. CASE PostFails(r)
  <2>1. /\ crashQueue' = crashQueue /\ delivered' = delivered /\ crashes \in Elements(crashQueue) /\ reporting' = {}
    BY <1>7 DEF PostFails, AfterFailure, Ended, GoesOn
  <2>2. OneReport'
    BY <2>1 DEF OneReport
  <2>3. Covered'
    BY <1>1, <1>3, <2>1 DEF Covered, CrashInv
  <2> QED
    BY <1>1, <1>2, <2>1, <2>2, <2>3 DEF CrashInv
<1>8. CASE RemoveQueue(r)
  <2>1. /\ crashQueue' = <<>> /\ delivered' = delivered /\ crashes \in Elements(crashQueue) /\ reporting' = {}
        /\ Elements(crashQueue) \subseteq delivered
    BY <1>8 DEF RemoveQueue, Ended, GoesOn
  <2>2. OneReport'
    BY <2>1 DEF OneReport
  <2>3. Covered'
    BY <1>1, <1>3, <2>1 DEF Covered, CrashInv
  <2>4. crashQueue' \in Seq(Nat) /\ Len(crashQueue') <= MaxQueuedReports /\ Spaced(crashQueue', crashes')
    BY <2>1, ShellConstants DEF Spaced
  <2> QED
    BY <1>1, <1>2, <2>1, <2>2, <2>3, <2>4 DEF CrashInv
<1> QED
  BY <1>5, <1>6, <1>7, <1>8

LEMMA CrashStep == ASSUME ~HostileCrashes, CrashInv, CrashNext PROVE CrashInv'
<1>1. CASE ComponentDidCatch
  <2>1. /\ hasError' \in BOOLEAN /\ online' \in BOOLEAN
    BY <1>1 DEF ComponentDidCatch, CrashInv
  <2>0. PICK s : s = [n |-> crashes + 1, step |-> "read", read |-> <<>>]
    OBVIOUS
  <2>2. /\ reporting = {} /\ reporting' = {s} /\ crashes' = crashes + 1 /\ crashes \in Nat
        /\ crashQueue' = crashQueue /\ delivered' = delivered
    BY <1>1, <2>0 DEF ComponentDidCatch, CrashInv
  <2>3. s \in [n : Nat, step : ReportSteps, read : Seq(Nat)] /\ s.n = crashes' /\ s.step = "read"
    BY <2>0, <2>2 DEF ReportSteps
  <2>4. /\ (crashes + 1) - 1 = crashes /\ crashes + 1 # 0
    BY <2>2
  <2>5. GoesOn(s)'
    <3>1. Spaced(crashQueue', crashes' - 1)
      BY <2>2, <2>4 DEF CrashInv
    <3> QED
      BY <2>2, <2>3, <2>4, <3>1 DEF GoesOn
  <2>6. OneReport'
    BY <2>2, <2>5 DEF OneReport
  <2>7. Covered'
    <3> SUFFICES ASSUME NEW n \in 1..crashes + 1
                 PROVE  n \in delivered \/ n \in Elements(crashQueue) \/ s.n = n \/ n + MaxQueuedReports <= crashes + 1
      BY <2>2 DEF Covered
    <3>1. CASE n = crashes + 1
      BY <2>2, <2>3, <3>1
    <3>2. CASE n # crashes + 1
      <4>1. n \in 1..crashes
        BY <2>2, <3>2
      <4>2. n \in delivered \/ n \in Elements(crashQueue) \/ n + MaxQueuedReports <= crashes
        BY <2>2, <4>1 DEF CrashInv, Covered
      <4> QED
        BY <2>2, <4>1, <4>2, ShellConstants
    <3> QED
      BY <3>1, <3>2
  <2>8. Spaced(crashQueue, crashes + 1)
    BY <2>2 DEF CrashInv, Spaced
  <2>9. delivered \subseteq 1..crashes + 1
    BY <2>2 DEF CrashInv
  <2> QED
    BY <2>1, <2>2, <2>6, <2>7, <2>8, <2>9 DEF CrashInv
<1>2. CASE HandleRetry \/ Reconnect
  <2>1. /\ hasError' \in BOOLEAN /\ online' \in BOOLEAN
    BY <1>2 DEF HandleRetry, Reconnect, CrashInv
  <2>2. UNCHANGED <<crashes, crashQueue, reporting, delivered>>
    BY <1>2 DEF HandleRetry, Reconnect
  <2>3. OneReport'
    BY <2>2 DEF CrashInv, OneReport, GoesOn
  <2>4. Covered'
    BY <2>2 DEF CrashInv, Covered
  <2> QED
    BY <2>1, <2>2, <2>3, <2>4 DEF CrashInv
<1>3. ASSUME NEW r \in reporting, ReadQueue(r) \/ StoreReport(r) \/ PostReports(r) \/ PostFails(r) \/ RemoveQueue(r)
      PROVE  CrashInv'
  <2>1. reporting = {r} /\ GoesOn(r)
    BY DEF CrashInv, OneReport
  <2> QED
    BY <1>3, <2>1, StoreKeeps, ReportKeeps
<1> QED
  BY <1>1, <1>2, <1>3 DEF CrashNext

LEMMA CrashShows == ASSUME CrashInv PROVE ReportsKept
<1>1. DOMAIN crashQueue = 1..Len(crashQueue)
  BY LenProperties DEF CrashInv
<1> QED
  BY <1>1 DEF CrashInv, Covered, Elements, ReportsKept

-----------------------------------------------------------------------------
(***************************************************************************)
(* The biometric components: the guard, the settings, the payment dialog.  *)
(***************************************************************************)
StoreInv ==
    /\ enrolled \in BOOLEAN /\ bioPref \in BOOLEAN /\ pinHash \in BOOLEAN /\ bioHash \in {"none", "enrolled", "empty"}
SettingsInv ==
    /\ sLoading \in BOOLEAN /\ sEnabled \in BOOLEAN /\ sAble \in BOOLEAN /\ pinSetup \in BOOLEAN /\ allowed \in BOOLEAN
    /\ sPrompt \in {"none", "enable", "disable"}

\* At most one PIN is verified at a time, and what it read is what is stored.
PinRecords == [n : {1, 2}, right : BOOLEAN, left : 1..MaxPinAttempts]
OnePin == pinTries = {} \/ \E t \in PinRecords : pinTries = {t} /\ t.left = attemptsLeft
ScreenInv ==
    /\ gLoading \in BOOLEAN /\ gEnabled \in BOOLEAN /\ gHasPIN \in BOOLEAN /\ gPrompt \in BOOLEAN
    /\ showPIN \in BOOLEAN /\ authComplete \in BOOLEAN /\ proved \in BOOLEAN
    /\ authComplete = proved
TryInv ==
    /\ attemptsLeft \in 0..MaxPinAttempts /\ wrongPins \in Nat /\ mounts \in 1..MaxMounts
    /\ wrongPins + attemptsLeft <= MaxPinAttempts
    /\ OnePin

\* Every press became a prompt or a payment; before the status is read none was made.
DialogInv ==
    /\ pLoading \in BOOLEAN /\ pEnabled \in BOOLEAN /\ isProcessing \in BOOLEAN
PayInv ==
    /\ pPrompts \in Nat /\ paying \in Nat /\ paid \in Nat /\ granted \in Nat /\ pays \in 0..MaxPays
    /\ pPrompts + paying + paid <= pays /\ granted + pPrompts <= pays
    /\ pLoading => pays = 0
    /\ pEnabled => paid + paying <= granted

BiometricInv == StoreInv /\ SettingsInv /\ ScreenInv /\ TryInv /\ DialogInv /\ PayInv

LEMMA BiometricStarts == ASSUME BiometricInit PROVE BiometricInv
<1>1. StoreInv
  BY DEF BiometricInit, StoreInv
<1>2. SettingsInv
  BY DEF BiometricInit, SettingsInv
<1>3. ScreenInv
  BY DEF BiometricInit, ScreenInv
<1>4. TryInv
  BY GuardConstants DEF BiometricInit, TryInv, OnePin
<1>5. DialogInv
  BY DEF BiometricInit, DialogInv
<1>6. PayInv
  BY GuardConstants DEF BiometricInit, PayInv
<1> QED
  BY <1>1, <1>2, <1>3, <1>4, <1>5, <1>6 DEF BiometricInv

LEMMA BiometricRests == ASSUME BiometricInv, UNCHANGED biometricVars PROVE BiometricInv'
<1> USE DEF BiometricInv, biometricVars, storeVars, guardVars, settingsVars, payVars
<1>1. StoreInv'
  BY DEF StoreInv
<1>2. SettingsInv'
  BY DEF SettingsInv
<1>3. ScreenInv'
  BY DEF ScreenInv
<1>4. TryInv'
  BY DEF TryInv, OnePin
<1>5. DialogInv'
  BY DEF DialogInv
<1>6. PayInv'
  BY DEF PayInv
<1> QED
  BY <1>1, <1>2, <1>3, <1>4, <1>5, <1>6

LEMMA BiometricStep == ASSUME ~OverlapPins, ~EarlyPresses, BiometricInv, BiometricNext PROVE BiometricInv'
<1> USE DEF BiometricInv, storeVars, guardVars, settingsVars, payVars
<1>1. StoreInv'
  <2>1. \/ UNCHANGED <<bioPref, pinHash, enrolled>>
        \/ enrolled' = ~enrolled /\ UNCHANGED <<bioPref, pinHash>>
        \/ UNCHANGED <<pinHash, enrolled>> /\ \E ok \in BOOLEAN : bioPref' = (bioPref \/ ok)
        \/ UNCHANGED <<pinHash, enrolled>> /\ bioPref' = FALSE
    BY DEF BiometricNext, EnrollmentChanges, GuardStatusRead, GuardStatusFails, GuardPromptEnds, HandlePINSubmit,
           PinVerified, HandleCancel, GuardRemounts, SettingsStatusRead, HandleToggle, EnableBiometric, DisableBiometric,
           PinSetupForm, PayStatusRead, HandlePayConfirm, PayPromptEnds, PaymentEnds
  <2>2. enrolled' \in BOOLEAN /\ bioPref' \in BOOLEAN /\ pinHash' \in BOOLEAN
    BY <2>1 DEF StoreInv
  <2>3. \/ bioHash' = bioHash \/ bioHash' = "none" \/ \E ok \in BOOLEAN : bioHash' = HashAfter(ok)
    BY DEF BiometricNext, EnrollmentChanges, GuardStatusRead, GuardStatusFails, GuardPromptEnds, HandlePINSubmit,
           PinVerified, HandleCancel, GuardRemounts, SettingsStatusRead, HandleToggle, EnableBiometric, DisableBiometric,
           PinSetupForm, PayStatusRead, HandlePayConfirm, PayPromptEnds, PaymentEnds
  <2>4. bioHash' \in {"none", "enrolled", "empty"}
    BY <2>3 DEF StoreInv, HashAfter, EnrollmentHash
  <2> QED
    BY <2>2, <2>4 DEF StoreInv
<1>2. SettingsInv'
  <2>1. CASE SettingsStatusRead \/ PinSetupForm \/ \E on \in BOOLEAN : HandleToggle(on)
    <3>1. sLoading' \in BOOLEAN /\ sEnabled' \in BOOLEAN /\ sAble' \in BOOLEAN /\ pinSetup' \in BOOLEAN /\ allowed' \in BOOLEAN
      BY <2>1 DEF SettingsInv, StoreInv, SettingsStatusRead, PinSetupForm, HandleToggle
    <3> QED
      BY <2>1, <3>1 DEF SettingsInv, SettingsStatusRead, PinSetupForm, HandleToggle
  <2>2. ASSUME NEW ok \in BOOLEAN, EnableBiometric(ok) PROVE SettingsInv'
    <3>1. sLoading' \in BOOLEAN /\ sEnabled' \in BOOLEAN /\ sAble' \in BOOLEAN /\ pinSetup' \in BOOLEAN /\ allowed' \in BOOLEAN
      BY <2>2 DEF SettingsInv, StoreInv, EnableBiometric
    <3> QED
      BY <2>2, <3>1 DEF SettingsInv, EnableBiometric
  <2>3. ASSUME NEW ok \in BOOLEAN, DisableBiometric(ok) PROVE SettingsInv'
    <3>1. sLoading' \in BOOLEAN /\ sEnabled' \in BOOLEAN /\ sAble' \in BOOLEAN /\ pinSetup' \in BOOLEAN /\ allowed' \in BOOLEAN
      BY <2>3 DEF SettingsInv, StoreInv, DisableBiometric
    <3> QED
      BY <2>3, <3>1 DEF SettingsInv, DisableBiometric
  <2>4. \/ SettingsStatusRead \/ PinSetupForm \/ (\E on \in BOOLEAN : HandleToggle(on))
        \/ (\E ok \in BOOLEAN : EnableBiometric(ok) \/ DisableBiometric(ok))
        \/ UNCHANGED settingsVars
    BY DEF BiometricNext, EnrollmentChanges, GuardStatusRead, GuardStatusFails, GuardPromptEnds, HandlePINSubmit,
           PinVerified, HandleCancel, GuardRemounts, PayStatusRead, HandlePayConfirm, PayPromptEnds, PaymentEnds
  <2> QED
    BY <2>1, <2>2, <2>3, <2>4 DEF SettingsInv
<1>3. ScreenInv'
  <2>1. CASE GuardStatusRead \/ GuardStatusFails \/ (\E ok \in BOOLEAN : GuardPromptEnds(ok)) \/ HandleCancel \/ GuardRemounts
    BY <2>1 DEF ScreenInv, StoreInv, GuardStatusRead, GuardStatusFails, GuardPromptEnds, PromptEnded, HandleCancel, GuardRemounts, CompleteReset
  <2>2. ASSUME NEW t \in pinTries, PinVerified(t) PROVE ScreenInv'
    <3>1. t.right \in BOOLEAN
      BY DEF TryInv, OnePin, PinRecords
    <3> QED
      BY <2>2, <3>1 DEF ScreenInv, PinVerified
  <2>3. \/ GuardStatusRead \/ GuardStatusFails \/ (\E ok \in BOOLEAN : GuardPromptEnds(ok)) \/ HandleCancel \/ GuardRemounts
        \/ (\E t \in pinTries : PinVerified(t))
        \/ UNCHANGED <<gLoading, gEnabled, gHasPIN, gPrompt, showPIN, authComplete, proved>>
    BY DEF BiometricNext, EnrollmentChanges, HandlePINSubmit, SettingsStatusRead, HandleToggle, EnableBiometric, DisableBiometric,
           PinSetupForm, PayStatusRead, HandlePayConfirm, PayPromptEnds, PaymentEnds
  <2> QED
    BY <2>1, <2>2, <2>3 DEF ScreenInv
<1>4. TryInv'
  <2>1. ASSUME NEW right \in BOOLEAN, HandlePINSubmit(right) PROVE TryInv'
    <3>1. PICK n \in {1, 2} : pinTries' = pinTries \cup {[n |-> n, right |-> right, left |-> attemptsLeft]}
      BY <2>1 DEF HandlePINSubmit
    <3>2. pinTries = {} /\ attemptsLeft > 0 /\ UNCHANGED <<attemptsLeft, wrongPins, mounts>>
      BY <2>1 DEF HandlePINSubmit
    <3>3. PICK t : t = [n |-> n, right |-> right, left |-> attemptsLeft]
      OBVIOUS
    <3>4. attemptsLeft \in 1..MaxPinAttempts
      BY <3>2, GuardConstants DEF TryInv
    <3>5. t \in PinRecords /\ t.left = attemptsLeft'
      BY <3>2, <3>3, <3>4 DEF PinRecords
    <3>6. OnePin'
      BY <3>1, <3>2, <3>3, <3>5 DEF OnePin
    <3> QED
      BY <3>2, <3>6 DEF TryInv
  <2>2. ASSUME NEW t \in pinTries, PinVerified(t) PROVE TryInv'
    <3>1. t.left = attemptsLeft /\ pinTries = {t} /\ t.left \in 1..MaxPinAttempts
      BY DEF TryInv, OnePin, PinRecords
    <3>2. OnePin'
      BY <2>2, <3>1 DEF PinVerified, OnePin
    <3>3. mounts' = mounts /\ mounts' \in 1..MaxMounts
      BY <2>2 DEF PinVerified, TryInv
    <3>4. \/ attemptsLeft' = MaxPinAttempts /\ wrongPins' = 0
          \/ attemptsLeft' = attemptsLeft - 1 /\ wrongPins' = wrongPins + 1
      BY <2>2, <3>1 DEF PinVerified, AttemptsAfter
    <3>5. attemptsLeft' \in 0..MaxPinAttempts /\ wrongPins' \in Nat /\ wrongPins' + attemptsLeft' <= MaxPinAttempts
      BY <3>1, <3>4, GuardConstants DEF TryInv
    <3> QED
      BY <3>2, <3>3, <3>5 DEF TryInv
  <2>3. CASE GuardRemounts
    BY <2>3, GuardConstants DEF GuardRemounts, TryInv, OnePin
  <2>4. \/ (\E right \in BOOLEAN : HandlePINSubmit(right)) \/ (\E t \in pinTries : PinVerified(t)) \/ GuardRemounts
        \/ UNCHANGED <<attemptsLeft, wrongPins, mounts, pinTries>>
    BY DEF BiometricNext, EnrollmentChanges, GuardStatusRead, GuardStatusFails, GuardPromptEnds, HandleCancel,
           SettingsStatusRead, HandleToggle, EnableBiometric, DisableBiometric,
           PinSetupForm, PayStatusRead, HandlePayConfirm, PayPromptEnds, PaymentEnds
  <2> QED
    BY <2>1, <2>2, <2>3, <2>4 DEF TryInv, OnePin
<1>5. DialogInv'
  BY DEF DialogInv, StoreInv, BiometricNext, EnrollmentChanges, GuardStatusRead, GuardStatusFails, GuardPromptEnds, HandlePINSubmit, PinVerified,
         HandleCancel, GuardRemounts, SettingsStatusRead, HandleToggle, EnableBiometric, DisableBiometric, PinSetupForm,
         PayStatusRead, HandlePayConfirm, PayPromptEnds, PaymentEnds
<1>6. PayInv'
  <2>1. CASE PayStatusRead
    BY <2>1, GuardConstants DEF PayStatusRead, PayInv, DialogInv
  <2>2. CASE HandlePayConfirm
    BY <2>2, GuardConstants DEF HandlePayConfirm, NeedsPrompt, PayInv, DialogInv
  <2>3. ASSUME NEW ok \in BOOLEAN, PayPromptEnds(ok) PROVE PayInv'
    BY <2>3, GuardConstants DEF PayPromptEnds, PayInv, DialogInv
  <2>4. ASSUME NEW ok \in BOOLEAN, PaymentEnds(ok) PROVE PayInv'
    BY <2>4, GuardConstants DEF PaymentEnds, PayInv, DialogInv
  <2>5. \/ PayStatusRead \/ HandlePayConfirm \/ (\E ok \in BOOLEAN : PayPromptEnds(ok) \/ PaymentEnds(ok))
        \/ UNCHANGED payVars
    BY DEF BiometricNext, EnrollmentChanges, GuardStatusRead, GuardStatusFails, GuardPromptEnds, HandlePINSubmit, PinVerified,
         HandleCancel, GuardRemounts, SettingsStatusRead, HandleToggle, EnableBiometric, DisableBiometric, PinSetupForm
  <2>6. CASE UNCHANGED payVars
    BY <2>6 DEF PayInv
  <2> QED
    BY <2>1, <2>2, <2>3, <2>4, <2>5, <2>6
<1> QED
  BY <1>1, <1>2, <1>3, <1>4, <1>5, <1>6

LEMMA BiometricShows ==
    ASSUME BiometricInv
    PROVE  BiometricTypeOK /\ GuardProves /\ PinsAreLimited /\ PaymentsAreProved
<1> USE DEF BiometricInv
<1>1. /\ {enrolled, bioPref, pinHash, gLoading, gEnabled, gHasPIN, gPrompt, showPIN, authComplete, proved, sLoading,
          sEnabled, pinSetup, allowed, pLoading, pEnabled, isProcessing, sAble} \subseteq BOOLEAN
  BY Zenon DEF StoreInv, SettingsInv, ScreenInv, DialogInv
<1>2. {pPrompts, paying, pays, paid, granted} \subseteq 0..MaxPays
  BY GuardConstants DEF PayInv
<1>3. pinTries \subseteq [n : {1, 2}, right : BOOLEAN, left : 1..MaxPinAttempts]
  BY DEF TryInv, OnePin, PinRecords
<1>4. BiometricTypeOK
  BY <1>1, <1>2, <1>3 DEF BiometricTypeOK, StoreInv, SettingsInv, TryInv
<1>5. GuardProves
  BY DEF GuardProves, ChildrenShown, ScreenInv
<1>6. PinsAreLimited
  BY GuardConstants DEF PinsAreLimited, TryInv
<1> QED
  BY <1>4, <1>5, <1>6 DEF PaymentsAreProved, PayInv

LEMMA DisablingStep ==
    ASSUME BiometricInv, BiometricNext \/ UNCHANGED biometricVars
    PROVE  bioPref /\ ~bioPref' => allowed'
<1> USE DEF BiometricInv, biometricVars, storeVars, guardVars, settingsVars, payVars
<1> SUFFICES ASSUME bioPref, ~bioPref' PROVE allowed'
  OBVIOUS
<1>1. PICK ok \in BOOLEAN : EnableBiometric(ok) \/ DisableBiometric(ok)
  BY DEF BiometricNext, EnrollmentChanges, GuardStatusRead, GuardStatusFails, GuardPromptEnds, HandlePINSubmit, PinVerified,
         HandleCancel, GuardRemounts, SettingsStatusRead, HandleToggle, PinSetupForm,
         PayStatusRead, HandlePayConfirm, PayPromptEnds, PaymentEnds
<1> QED
  BY <1>1 DEF EnableBiometric, DisableBiometric, DisableProceeds

-----------------------------------------------------------------------------
(***************************************************************************)
(* The recent recipients.  A name's rank in a log is the number of names   *)
(* mentioned later than it was last; the list holds the names of the       *)
(* lowest ranks, in their order.                                           *)
(***************************************************************************)
Mention(L, a) == CHOOSE i \in DOMAIN L : L[i] = a /\ \A j \in DOMAIN L : L[j] = a => j <= i
Newer(L, a) == {m \in Elements(L) : Mention(L, m) > Mention(L, a)}
Rank(L, a) == Cardinality(Newer(L, a))
Follows(r, L) ==
    /\ \A i \in 1..Len(r) : r[i] \in Elements(L) /\ Rank(L, r[i]) = i - 1
    /\ Len(r) = IF Cardinality(Elements(L)) < MaxRecents THEN Cardinality(Elements(L)) ELSE MaxRecents

LEMMA MentionUnique ==
    ASSUME NEW T, NEW L \in Seq(T), NEW a, NEW i \in 1..Len(L), L[i] = a, \A j \in 1..Len(L) : L[j] = a => j <= i
    PROVE  Mention(L, a) = i
<1>1. DOMAIN L = 1..Len(L) /\ Len(L) \in Nat
  BY LenProperties
<1> DEFINE P(k) == L[k] = a /\ \A j \in DOMAIN L : L[j] = a => j <= k
<1>2. i \in DOMAIN L /\ P(i)
  BY <1>1
<1>3. ASSUME NEW k \in DOMAIN L, P(k) PROVE k = i
  <2>1. k <= i /\ i <= k /\ k \in Nat /\ i \in Nat
    BY <1>1, <1>2, <1>3
  <2> QED
    BY <2>1
<1>4. Mention(L, a) = CHOOSE k \in DOMAIN L : P(k)
  BY DEF Mention
<1> HIDE DEF P
<1> QED
  BY <1>2, <1>3, <1>4

LEMMA MentionIs ==
    ASSUME NEW T, NEW L \in Seq(T), NEW a \in Elements(L)
    PROVE  /\ Mention(L, a) \in 1..Len(L) /\ L[Mention(L, a)] = a
           /\ \A j \in 1..Len(L) : L[j] = a => j <= Mention(L, a)
<1>1. DOMAIN L = 1..Len(L) /\ Len(L) \in Nat
  BY LenProperties
<1> DEFINE n == Len(L)
           B == {m \in 0..n - 1 : L[n - m] = a}
<1>2. PICK k \in 1..n : L[k] = a
  BY DEF Elements
<1>3. n - k \in B /\ B \subseteq Nat
  BY <1>1, <1>2
<1>4. PICK m \in B : \A l \in B : m <= l
  <2> HIDE DEF B
  <2>1. B # {}
    BY <1>3
  <2> QED
    BY <1>3, <2>1, Smallest
<1>5. n - m \in 1..n /\ L[n - m] = a
  BY <1>1, <1>4
<1>6. ASSUME NEW j \in 1..n, L[j] = a PROVE j <= n - m
  <2>1. n - j \in 0..n - 1 /\ n - (n - j) = j
    BY <1>1
  <2>2. n - j \in B
    BY <1>6, <2>1
  <2>3. m <= n - j /\ m \in 0..n - 1
    BY <1>4, <2>2
  <2> QED
    BY <1>1, <2>3
<1>7. Mention(L, a) = n - m
  <2>1. PICK i : i = n - m
    OBVIOUS
  <2>2. i \in 1..Len(L) /\ L[i] = a /\ \A j \in 1..Len(L) : L[j] = a => j <= i
    BY <1>5, <1>6, <2>1
  <2> QED
    BY <2>1, <2>2, MentionUnique
<1> QED
  BY <1>5, <1>6, <1>7

LEMMA NamesAreFinite ==
    ASSUME NEW T, NEW L \in Seq(T)
    PROVE  IsFiniteSet(Elements(L)) /\ Cardinality(Elements(L)) \in Nat
<1>1. Len(L) \in Nat /\ L \in [1..Len(L) -> T]
  BY LenProperties
<1> DEFINE n == Len(L)
           E == Elements(L)
<1>2. L \in Surjection(1..n, E)
  BY <1>1 DEF Surjection, Elements
<1>3. IsFiniteSet(1..n)
  <2> HIDE DEF n
  <2> QED
    BY <1>1, FS_Interval DEF n
<1> HIDE DEF n, E
<1>4. IsFiniteSet(E)
  BY <1>2, <1>3, FS_Surjection
<1> QED
  BY <1>4, FS_CardinalityType DEF E

\* Ranks are natural numbers below the number of names, different for
\* different names, and the later a name was mentioned the lower.
LEMMA RanksAre ==
    ASSUME NEW T, NEW L \in Seq(T), NEW a \in Elements(L)
    PROVE  /\ Rank(L, a) \in Nat /\ Rank(L, a) < Cardinality(Elements(L))
           /\ \A b \in Elements(L) : /\ Rank(L, b) \in Nat
                                     /\ Mention(L, a) > Mention(L, b) <=> Rank(L, a) < Rank(L, b)
                                     /\ Rank(L, a) = Rank(L, b) => a = b
<1> DEFINE E == Elements(L)
<1>1. IsFiniteSet(E) /\ Cardinality(E) \in Nat
  BY NamesAreFinite
<1>2. \A b \in E : Mention(L, b) \in Nat /\ L[Mention(L, b)] = b
  <2>1. Len(L) \in Nat
    BY LenProperties
  <2>2. \A b \in E : Mention(L, b) \in 1..Len(L) /\ L[Mention(L, b)] = b
    BY MentionIs
  <2> QED
    BY <2>1, <2>2
<1> HIDE DEF E
<1>3. \A b \in E : Newer(L, b) \in SUBSET E /\ b \notin Newer(L, b) /\ IsFiniteSet(Newer(L, b)) /\ Rank(L, b) \in Nat
  <2>1. ASSUME NEW b \in E PROVE Newer(L, b) \in SUBSET E /\ b \notin Newer(L, b)
    BY <1>2 DEF Newer, E
  <2>2. ASSUME NEW b \in E PROVE IsFiniteSet(Newer(L, b)) /\ Rank(L, b) \in Nat
    BY <1>1, <2>1, FS_Subset, FS_CardinalityType DEF Rank
  <2> QED
    BY <2>1, <2>2
<1>4. ASSUME NEW b \in E, NEW c \in E, Mention(L, b) > Mention(L, c) PROVE Rank(L, b) < Rank(L, c)
  <2>1. Newer(L, b) \in SUBSET Newer(L, c)
    BY <1>2, <1>4 DEF Newer, E
  <2>2. b \in Newer(L, c)
    BY <1>4 DEF Newer, E
  <2>3. Newer(L, b) # Newer(L, c)
    BY <1>3, <2>2
  <2>4. Rank(L, b) <= Rank(L, c) /\ Rank(L, b) # Rank(L, c)
    BY <1>3, <2>1, <2>3, FS_Subset DEF Rank
  <2> QED
    BY <1>3, <2>4
<1>5. a \in E
  BY DEF E
<1>6. Rank(L, a) < Cardinality(E)
  <2>1. Newer(L, a) # E
    BY <1>3, <1>5
  <2>2. Rank(L, a) <= Cardinality(E) /\ Rank(L, a) # Cardinality(E)
    BY <1>1, <1>3, <1>5, <2>1, FS_Subset DEF Rank
  <2> QED
    BY <1>1, <1>3, <1>5, <2>2
<1>7. ASSUME NEW b \in E
      PROVE  /\ Mention(L, a) > Mention(L, b) <=> Rank(L, a) < Rank(L, b)
             /\ Rank(L, a) = Rank(L, b) => a = b
  <2>1. CASE Mention(L, a) = Mention(L, b)
    BY <1>2, <1>3, <1>5, <2>1
  <2>2. CASE Mention(L, a) > Mention(L, b)
    BY <1>2, <1>3, <1>4, <1>5, <2>2
  <2>3. CASE Mention(L, b) > Mention(L, a)
    BY <1>2, <1>3, <1>4, <1>5, <2>3
  <2> QED
    BY <1>2, <1>5, <2>1, <2>2, <2>3
<1> QED
  BY <1>3, <1>5, <1>6, <1>7 DEF E

\* A name is recorded.
LEMMA RanksAfter ==
    ASSUME NEW T, NEW L \in Seq(T), NEW x \in T
    PROVE  LET M == Append(L, x) IN
           /\ M \in Seq(T) /\ Elements(M) = Elements(L) \cup {x} /\ Rank(M, x) = 0
           /\ \A a \in Elements(L) \ {x} :
                 /\ x \notin Elements(L) => Rank(M, a) = Rank(L, a) + 1
                 /\ x \in Elements(L) /\ Rank(L, x) < Rank(L, a) => Rank(M, a) = Rank(L, a)
                 /\ x \in Elements(L) /\ ~(Rank(L, x) < Rank(L, a)) => Rank(M, a) = Rank(L, a) + 1
<1> DEFINE M == Append(L, x)
           n == Len(L)
           E == Elements(L)
<1>1. /\ M \in Seq(T) /\ Len(M) = n + 1 /\ n \in Nat
      /\ \A i \in 1..n : M[i] = L[i]
      /\ M[n + 1] = x
  OBVIOUS
<1> HIDE DEF M
<1>2. Elements(M) = E \cup {x}
  BY <1>1 DEF Elements
<1>3. Mention(M, x) = n + 1
  <2>1. PICK i : i = n + 1
    OBVIOUS
  <2>2. i \in 1..Len(M) /\ M[i] = x /\ \A j \in 1..Len(M) : M[j] = x => j <= i
    BY <1>1, <2>1
  <2> HIDE DEF n
  <2> QED
    BY <1>1, <2>1, <2>2, MentionUnique
<1>4. ASSUME NEW a \in E \ {x} PROVE Mention(M, a) = Mention(L, a) /\ Mention(L, a) \in 1..n
  <2>1. /\ Mention(L, a) \in 1..n /\ L[Mention(L, a)] = a
        /\ \A j \in 1..n : L[j] = a => j <= Mention(L, a)
    BY MentionIs
  <2>2. PICK i : i = Mention(L, a)
    OBVIOUS
  <2>3. i \in 1..Len(M) /\ M[i] = a
    BY <1>1, <2>1, <2>2
  <2>4. \A j \in 1..Len(M) : M[j] = a => j <= i
    <3>1. ASSUME NEW j \in 1..Len(M), M[j] = a PROVE j <= i
      <4>1. j \in 1..n
        BY <1>1, <3>1
      <4> QED
        BY <1>1, <2>1, <2>2, <3>1, <4>1
    <3> QED
      BY <3>1
  <2>5. Mention(M, a) = i
    BY <1>1, <2>3, <2>4, MentionUnique
  <2> QED
    BY <2>1, <2>2, <2>5
<1> HIDE DEF n, E
<1>5. Newer(M, x) = {}
  <2>1. ASSUME NEW a \in Elements(M) PROVE ~(Mention(M, a) > Mention(M, x))
    <3>1. CASE a = x
      BY <1>1, <1>3, <3>1
    <3>2. CASE a # x
      BY <1>1, <1>2, <1>3, <1>4, <3>2
    <3> QED
      BY <3>1, <3>2
  <2> QED
    BY <2>1 DEF Newer
<1>6. Rank(M, x) = 0
  BY <1>5, FS_EmptySet DEF Rank
<1>7. ASSUME NEW a \in E \ {x} PROVE Newer(M, a) = Newer(L, a) \cup {x}
  <2>1. ASSUME NEW b \in E \ {x} PROVE b \in Newer(M, a) <=> b \in Newer(L, a)
    BY <1>2, <1>4, <2>1 DEF Newer, E
  <2>2. x \in Newer(M, a)
    <3>1. Mention(M, x) > Mention(M, a)
      BY <1>1, <1>3, <1>4
    <3> QED
      BY <1>2, <3>1 DEF Newer
  <2>3. Newer(M, a) \subseteq E \cup {x} /\ Newer(L, a) \subseteq E
    BY <1>2 DEF Newer, E
  <2> QED
    BY <2>1, <2>2, <2>3
<1>8. ASSUME NEW a \in E \ {x}
      PROVE  /\ IsFiniteSet(Newer(L, a)) /\ Rank(L, a) \in Nat
             /\ Rank(M, a) = IF x \in Newer(L, a) THEN Rank(L, a) ELSE Rank(L, a) + 1
  <2>1. IsFiniteSet(Newer(L, a))
    <3>1. IsFiniteSet(E) /\ Newer(L, a) \in SUBSET E
      BY NamesAreFinite DEF Newer, E
    <3> QED
      BY <3>1, FS_Subset
  <2>2. Rank(L, a) \in Nat
    BY <2>1, FS_CardinalityType DEF Rank
  <2> QED
    BY <1>7, <2>1, <2>2, FS_AddElement DEF Rank
<1>9. ASSUME NEW a \in E \ {x}
      PROVE  x \in Newer(L, a) <=> x \in E /\ Rank(L, x) < Rank(L, a)
  <2>1. x \in Newer(L, a) <=> x \in E /\ Mention(L, x) > Mention(L, a)
    BY DEF Newer, E
  <2>2. ASSUME x \in E PROVE Mention(L, x) > Mention(L, a) <=> Rank(L, x) < Rank(L, a)
    BY <2>2, RanksAre DEF E
  <2> QED
    BY <2>1, <2>2
<1> QED
  BY <1>1, <1>2, <1>6, <1>8, <1>9 DEF M, E

\* The recursive function of Others, over the first n members.
IsOthers(g, name, list, n) ==
    g = [i \in 0..n |-> IF i = 0 THEN <<>> ELSE IF list[i] # name THEN Append(g[i - 1], list[i]) ELSE g[i - 1]]

LEMMA OthersExist ==
    ASSUME NEW T, NEW list \in Seq(T), NEW name
    PROVE  \E g : IsOthers(g, name, list, Len(list)) /\ Others(name, list) = g[Len(list)]
<1> DEFINE n == Len(list)
           S == Elements(list) \ {name}
           f == Sifts(list, S)
           h == CHOOSE g : IsOthers(g, name, list, n)
<1>1. n \in Nat
  BY LenProperties
<1>2. \A i \in 1..n : list[i] \in S <=> list[i] # name
  BY DEF Elements
<1>3. IsFilter(f, list, S, n)
  <2> HIDE DEF S
  <2> QED
    BY <1>1, FilterExists
<1> HIDE DEF f, S
<1>4. IsOthers(f, name, list, n)
  <2>1. f = [i \in 0..n |-> IF i = 0 THEN <<>> ELSE IF list[i] \in S THEN Append(f[i - 1], list[i]) ELSE f[i - 1]]
    BY <1>3 DEF IsFilter
  <2>2. \A i \in 0..n : f[i] = IF i = 0 THEN <<>> ELSE IF list[i] # name THEN Append(f[i - 1], list[i]) ELSE f[i - 1]
    <3>1. ASSUME NEW i \in 0..n
          PROVE  f[i] = IF i = 0 THEN <<>> ELSE IF list[i] # name THEN Append(f[i - 1], list[i]) ELSE f[i - 1]
      <4>1. f[i] = IF i = 0 THEN <<>> ELSE IF list[i] \in S THEN Append(f[i - 1], list[i]) ELSE f[i - 1]
        BY <2>1
      <4>2. CASE i = 0
        BY <4>1, <4>2
      <4>3. CASE i # 0
        <5>1. i \in 1..n
          BY <1>1, <4>3
        <5> QED
          BY <1>2, <4>1, <4>3, <5>1
      <4> QED
        BY <4>2, <4>3
    <3> QED
      BY <3>1
  <2>3. f = [i \in 0..n |-> f[i]]
    BY <2>1
  <2> QED
    BY <2>2, <2>3 DEF IsOthers
<1>5. IsOthers(h, name, list, n)
  <2> HIDE DEF n
  <2> QED
    BY <1>4
<1>6. Others(name, list) = h[n]
  BY DEF Others, IsOthers
<1> HIDE DEF h
<1> QED
  BY <1>5, <1>6

\* The list without the name that stands at k, or, with k behind the end, the list.
LEMMA OthersAre ==
    ASSUME NEW T, NEW list \in Seq(T), NEW name, NEW k \in 1..Len(list) + 1,
           \A i \in 1..Len(list) : list[i] = name <=> i = k
    PROVE  LET u == Others(name, list) IN
           /\ u \in Seq(T)
           /\ k <= Len(list) => Len(u) = Len(list) - 1
           /\ k = Len(list) + 1 => Len(u) = Len(list)
           /\ \A j \in 1..Len(u) : (j < k => u[j] = list[j]) /\ (k <= j => u[j] = list[j + 1])
<1> DEFINE n == Len(list)
<1>1. n \in Nat /\ \A i \in 1..n : list[i] \in T
  BY ElementOfSeq
<1>2. PICK g : IsOthers(g, name, list, n) /\ Others(name, list) = g[n]
  BY OthersExist
<1> DEFINE Good(i) == /\ g[i] \in Seq(T)
                      /\ i < k => Len(g[i]) = i
                      /\ k <= i => Len(g[i]) = i - 1
                      /\ \A j \in 1..Len(g[i]) : (j < k => g[i][j] = list[j]) /\ (k <= j => g[i][j] = list[j + 1])
           B == {i \in 0..n : ~Good(i)}
<1>3. \A i \in 0..n : g[i] = IF i = 0 THEN <<>> ELSE IF list[i] # name THEN Append(g[i - 1], list[i]) ELSE g[i - 1]
  BY <1>2 DEF IsOthers
<1> HIDE DEF n
<1>4. B = {}
  <2> SUFFICES ASSUME B # {} PROVE FALSE
    OBVIOUS
  <2>1. PICK i \in B : \A m \in B : i <= m
    <3> HIDE DEF Good
    <3>1. B \subseteq Nat
      BY <1>1
    <3> HIDE DEF B
    <3> QED
      BY <3>1, Smallest
  <2>2. i \in 0..n /\ ~Good(i)
    BY <2>1
  <2>3. i # 0
    <3>1. g[0] = <<>>
      BY <1>1, <1>3
    <3>2. <<>> \in Seq(T) /\ Len(<<>>) = 0 /\ k \in Nat /\ k >= 1
      BY <1>1 DEF n
    <3>3. Good(0)
      BY <3>1, <3>2
    <3> HIDE DEF Good
    <3> QED
      BY <2>2, <3>3
  <2>4. i - 1 \in 0..n /\ i - 1 \notin B
    <3>1. i - 1 \in 0..n /\ ~(i <= i - 1)
      BY <1>1, <2>2, <2>3
    <3> HIDE DEF B
    <3> QED
      BY <2>1, <3>1
  <2>5. Good(i - 1)
    BY <2>4
  <2>6. g[i] = IF list[i] # name THEN Append(g[i - 1], list[i]) ELSE g[i - 1]
    BY <1>3, <2>2, <2>3
  <2>7. i \in 1..n /\ list[i] \in T /\ (list[i] = name <=> i = k) /\ k \in Nat \ {0}
    BY <1>1, <2>2, <2>3 DEF n
  <2> DEFINE s == g[i - 1]
  <2>8. /\ s \in Seq(T) /\ Len(s) \in Nat
        /\ i - 1 < k => Len(s) = i - 1
        /\ k <= i - 1 => Len(s) = i - 2
        /\ \A j \in 1..Len(s) : (j < k => s[j] = list[j]) /\ (k <= j => s[j] = list[j + 1])
    <3>1. s \in Seq(T) /\ Len(s) \in Nat
      BY <2>5, LenProperties
    <3>2. i - 1 - 1 = i - 2
      BY <1>1, <2>2
    <3> QED
      BY <2>5, <3>1, <3>2
  <2> HIDE DEF s
  <2>9. CASE i = k
    <3>1. g[i] = s
      BY <2>6, <2>7, <2>9 DEF s
    <3>2. i - 1 < k /\ ~(i < k) /\ k <= i /\ Len(s) = i - 1
      BY <1>1, <2>7, <2>8, <2>9
    <3>3. Good(i)
      BY <2>8, <3>1, <3>2
    <3> QED
      BY <2>2, <3>3
  <2>10. CASE i # k
    <3> DEFINE t == Append(s, list[i])
    <3>1. g[i] = t
      BY <2>6, <2>7, <2>10 DEF s
    <3>2. /\ t \in Seq(T) /\ Len(t) = Len(s) + 1
          /\ \A j \in 1..Len(s) : t[j] = s[j]
          /\ t[Len(s) + 1] = list[i]
      BY <2>7, <2>8
    <3> HIDE DEF t
    <3>3. (i < k => Len(s) = i - 1) /\ (k <= i => k <= i - 1 /\ Len(s) = i - 2)
      BY <1>1, <2>7, <2>8, <2>10
    <3>4. (i < k => Len(t) = i) /\ (k <= i => Len(t) = i - 1)
      BY <1>1, <2>7, <3>2, <3>3
    <3>5. ASSUME NEW j \in 1..Len(t) PROVE (j < k => t[j] = list[j]) /\ (k <= j => t[j] = list[j + 1])
      <4>1. CASE j \in 1..Len(s)
        BY <2>8, <3>2, <4>1
      <4>2. CASE j = Len(s) + 1
        <5>1. (j < k => j = i) /\ (k <= j => j + 1 = i)
          BY <1>1, <2>7, <2>8, <2>10, <3>3, <4>2
        <5> QED
          BY <3>2, <4>2, <5>1
      <4> QED
        BY <2>8, <3>2, <4>1, <4>2
    <3>6. Good(i)
      BY <3>1, <3>2, <3>4, <3>5
    <3> QED
      BY <2>2, <3>6
  <2> QED
    BY <2>9, <2>10
<1>5. Good(n)
  <2> HIDE DEF Good
  <2> QED
    BY <1>1, <1>4
<1>6. k <= n => ~(n < k)
  BY <1>1 DEF n
<1>7. k = n + 1 => n < k
  BY <1>1
<1> QED
  BY <1>2, <1>5, <1>6, <1>7 DEF n

\* The list after a name was recorded: the name, then the others, cut.
LEMMA WithRecentIs ==
    ASSUME NEW T, NEW list \in Seq(T), NEW name \in T, NEW u \in Seq(T), u = Others(name, list)
    PROVE  LET r == WithRecent(name, list) IN
           /\ r \in Seq(T) /\ Len(r) = (IF Len(u) + 1 < MaxRecents THEN Len(u) + 1 ELSE MaxRecents)
           /\ r[1] = name /\ \A j \in 1..Len(r) - 1 : r[j + 1] = u[j]
<1> DEFINE h == <<name>>
           v == h \o u
<1>1. h \in Seq(T) /\ Len(h) = 1 /\ h[1] = name
  OBVIOUS
<1>2. Len(u) \in Nat /\ MaxRecents \in Nat \ {0}
  BY LenProperties, ApiConstants
<1> HIDE DEF h
<1>3. /\ v \in Seq(T) /\ Len(v) = Len(h) + Len(u)
      /\ \A i \in 1..Len(h) + Len(u) : v[i] = IF i <= Len(h) THEN h[i] ELSE u[i - Len(h)]
  BY <1>1, ConcatProperties
<1> HIDE DEF v
<1>4. /\ Len(v) = Len(u) + 1 /\ v[1] = name
      /\ \A j \in 1..Len(u) : v[j + 1] = u[j]
  <2>1. Len(v) = Len(u) + 1
    BY <1>1, <1>2, <1>3
  <2>2. v[1] = name
    <3>1. 1 \in 1..Len(h) + Len(u) /\ 1 <= Len(h)
      BY <1>1, <1>2
    <3> QED
      BY <1>1, <1>3, <3>1
  <2>3. ASSUME NEW j \in 1..Len(u) PROVE v[j + 1] = u[j]
    <3>1. j + 1 \in 1..Len(h) + Len(u) /\ ~(j + 1 <= Len(h)) /\ (j + 1) - Len(h) = j
      BY <1>1, <1>2
    <3> QED
      BY <1>3, <3>1
  <2> QED
    BY <2>1, <2>2, <2>3
<1>5. PICK lo, hi : lo = 1 /\ hi = IF Len(v) < MaxRecents THEN Len(v) ELSE MaxRecents
  OBVIOUS
<1>6. lo \in Int /\ hi \in Int /\ hi >= 1 /\ hi <= Len(v) /\ Len(v) \in Nat
  BY <1>2, <1>4, <1>5
<1>7. \A i \in lo..hi : v[i] \in T
  <2>1. \A i \in lo..hi : i \in 1..Len(v)
    BY <1>5, <1>6
  <2> QED
    BY <1>3, <2>1, ElementOfSeq
<1> DEFINE r == SubSeq(v, lo, hi)
<1>8. /\ r \in Seq(T) /\ Len(r) = (IF lo <= hi THEN hi - lo + 1 ELSE 0)
      /\ \A i \in 1..hi - lo + 1 : r[i] = v[lo + i - 1]
  BY <1>6, <1>7, SubSeqProperties
<1>9. WithRecent(name, list) = r
  BY <1>5 DEF WithRecent, v, h
<1> HIDE DEF r
<1>10. Len(r) = hi /\ \A i \in 1..hi : r[i] = v[i]
  <2>1. lo <= hi /\ hi - lo + 1 = hi /\ \A i \in 1..hi : lo + i - 1 = i
    BY <1>5, <1>6
  <2> QED
    BY <1>8, <2>1
<1>11. r[1] = name /\ \A j \in 1..Len(r) - 1 : r[j + 1] = u[j]
  <2>1. 1 \in 1..hi
    BY <1>6
  <2>2. ASSUME NEW j \in 1..hi - 1 PROVE r[j + 1] = u[j]
    <3>1. j + 1 \in 1..hi /\ j \in 1..Len(u)
      BY <1>2, <1>4, <1>6
    <3> QED
      BY <1>4, <1>10, <3>1
  <2> QED
    BY <1>4, <1>10, <2>1, <2>2
<1>12. Len(r) = IF Len(u) + 1 < MaxRecents THEN Len(u) + 1 ELSE MaxRecents
  BY <1>4, <1>5, <1>10
<1> QED
  BY <1>8, <1>9, <1>11, <1>12

LEMMA RecentKeeps ==
    ASSUME NEW T, NEW r \in Seq(T), NEW L \in Seq(T), NEW x \in T, Follows(r, L)
    PROVE  WithRecent(x, r) \in Seq(T) /\ Follows(WithRecent(x, r), Append(L, x))
<1> DEFINE n == Len(r)
           E == Elements(L)
           c == Cardinality(E)
           M == Append(L, x)
           R == MaxRecents
<1>1. n \in Nat /\ R \in Nat \ {0} /\ c \in Nat /\ IsFiniteSet(E)
  BY LenProperties, ApiConstants, NamesAreFinite
<1>2. /\ \A i \in 1..n : r[i] \in E /\ Rank(L, r[i]) = i - 1
      /\ n = IF c < R THEN c ELSE R
  BY DEF Follows
<1>3. \A i, j \in 1..n : r[i] = r[j] => i = j
  <2>1. ASSUME NEW i \in 1..n, NEW j \in 1..n, r[i] = r[j] PROVE i = j
    <3>1. i - 1 = j - 1
      BY <1>2, <2>1
    <3> QED
      BY <1>1, <3>1
  <2> QED
    BY <2>1
<1>4. \E k \in 1..n + 1 : \A i \in 1..n : r[i] = x <=> i = k
  <2>1. CASE \E k \in 1..n : r[k] = x
    <3>1. PICK k \in 1..n : r[k] = x
      BY <2>1
    <3>2. k \in 1..n + 1
      BY <1>1
    <3> QED
      BY <1>3, <3>1, <3>2
  <2>2. CASE ~ \E k \in 1..n : r[k] = x
    <3>1. n + 1 \in 1..n + 1 /\ \A i \in 1..n : i # n + 1
      BY <1>1
    <3> QED
      BY <2>2, <3>1
  <2> QED
    BY <2>1, <2>2
<1>5. PICK k \in 1..n + 1 : \A i \in 1..n : r[i] = x <=> i = k
  BY <1>4
<1>6. PICK u : u = Others(x, r)
  OBVIOUS
<1>7. /\ u \in Seq(T) /\ Len(u) \in Nat
      /\ k <= n => Len(u) = n - 1
      /\ k = n + 1 => Len(u) = n
      /\ \A j \in 1..Len(u) : (j < k => u[j] = r[j]) /\ (k <= j => u[j] = r[j + 1])
  <2>1. /\ u \in Seq(T)
        /\ k <= n => Len(u) = n - 1
        /\ k = n + 1 => Len(u) = n
        /\ \A j \in 1..Len(u) : (j < k => u[j] = r[j]) /\ (k <= j => u[j] = r[j + 1])
    BY <1>5, <1>6, OthersAre
  <2> QED
    BY <2>1, LenProperties
<1>8. PICK w : w = WithRecent(x, r)
  OBVIOUS
<1>9. /\ w \in Seq(T) /\ Len(w) = (IF Len(u) + 1 < R THEN Len(u) + 1 ELSE R)
      /\ w[1] = x /\ \A j \in 1..Len(w) - 1 : w[j + 1] = u[j]
  BY <1>6, <1>7, <1>8, WithRecentIs
<1>10. /\ M \in Seq(T) /\ Elements(M) = E \cup {x} /\ Rank(M, x) = 0
       /\ \A a \in E \ {x} :
             /\ x \notin E => Rank(M, a) = Rank(L, a) + 1
             /\ x \in E /\ Rank(L, x) < Rank(L, a) => Rank(M, a) = Rank(L, a)
             /\ x \in E /\ ~(Rank(L, x) < Rank(L, a)) => Rank(M, a) = Rank(L, a) + 1
  BY RanksAfter
<1>11. ASSUME x \in E
       PROVE  Rank(L, x) \in Nat /\ Rank(L, x) < c /\ (Rank(L, x) < n => k = Rank(L, x) + 1)
  <2>1. /\ Rank(L, x) \in Nat /\ Rank(L, x) < c
        /\ \A b \in E : Rank(L, x) = Rank(L, b) => x = b
    BY <1>11, RanksAre
  <2>2. ASSUME Rank(L, x) < n PROVE k = Rank(L, x) + 1
    <3>1. PICK p : p = Rank(L, x) + 1
      OBVIOUS
    <3>2. p \in 1..n /\ p - 1 = Rank(L, x)
      BY <1>1, <2>1, <2>2, <3>1
    <3>3. r[p] = x
      BY <1>2, <2>1, <3>2
    <3> QED
      BY <1>5, <3>1, <3>2, <3>3
  <2> QED
    BY <2>1, <2>2
<1> HIDE DEF n, c, E, M, R
<1>12. ASSUME NEW j \in 1..Len(u) PROVE u[j] \in E \ {x} /\ Rank(M, u[j]) = j
  <2>1. CASE j < k
    <3>1. j \in 1..n /\ u[j] = r[j] /\ j # k
      BY <1>1, <1>5, <1>7, <2>1
    <3>2. r[j] \in E \ {x} /\ Rank(L, r[j]) = j - 1
      BY <1>2, <1>5, <3>1
    <3>3. x \in E => ~(Rank(L, x) < j - 1)
      BY <1>1, <1>11, <2>1, <3>1
    <3>4. (j - 1) + 1 = j
      OBVIOUS
    <3> QED
      BY <1>10, <3>1, <3>2, <3>3, <3>4
  <2>2. CASE k <= j
    <3>1. k \in 1..n /\ j + 1 \in 1..n /\ u[j] = r[j + 1] /\ j + 1 # k /\ (j + 1) - 1 = j /\ k - 1 < j
      BY <1>1, <1>5, <1>7, <2>2
    <3>2. r[j + 1] \in E \ {x} /\ Rank(L, r[j + 1]) = j
      BY <1>2, <1>5, <3>1
    <3>3. x \in E /\ Rank(L, x) = k - 1
      BY <1>2, <1>5, <3>1
    <3> QED
      BY <1>10, <3>1, <3>2, <3>3
  <2> QED
    BY <1>1, <2>1, <2>2
<1>13. ASSUME NEW i \in 1..Len(w) PROVE w[i] \in Elements(M) /\ Rank(M, w[i]) = i - 1
  <2>1. CASE i = 1
    BY <1>9, <1>10, <2>1
  <2>2. CASE i # 1
    <3>1. i - 1 \in 1..Len(w) - 1 /\ i - 1 \in 1..Len(u) /\ (i - 1) + 1 = i
      BY <1>1, <1>7, <1>9, <2>2
    <3>2. w[i] = u[i - 1]
      BY <1>9, <3>1
    <3> QED
      BY <1>10, <1>12, <3>1, <3>2
  <2> QED
    BY <2>1, <2>2
<1>14. Len(w) = IF Cardinality(Elements(M)) < R THEN Cardinality(Elements(M)) ELSE R
  <2>1. Cardinality(Elements(M)) = IF x \in E THEN c ELSE c + 1
    <3>1. Cardinality(E \cup {x}) = IF x \in E THEN Cardinality(E) ELSE Cardinality(E) + 1
      BY <1>1, FS_AddElement
    <3>2. Elements(M) = E \cup {x}
      BY <1>10
    <3> QED
      BY <3>1, <3>2 DEF c
  <2>2. CASE k <= n
    <3>1. k \in 1..n /\ r[k] = x
      BY <1>1, <1>5, <2>2
    <3>2. x \in E /\ Len(u) = n - 1
      BY <1>2, <1>7, <2>2, <3>1
    <3> QED
      BY <1>1, <1>2, <1>9, <2>1, <3>2
  <2>3. CASE k = n + 1
    <3>1. Len(u) = n
      BY <1>7, <2>3
    <3>2. CASE x \in E
      <4>1. ~(Rank(L, x) < n) /\ Rank(L, x) < c /\ Rank(L, x) \in Nat
        BY <1>1, <1>11, <2>3, <3>2
      <4>2. n = R /\ ~(c < R)
        BY <1>1, <1>2, <4>1
      <4> QED
        BY <1>1, <1>9, <2>1, <3>1, <3>2, <4>2
    <3>3. CASE x \notin E
      BY <1>1, <1>2, <1>9, <2>1, <3>1, <3>3
    <3> QED
      BY <3>2, <3>3
  <2> QED
    BY <1>1, <1>5, <2>2, <2>3
<1>15. Follows(w, M)
  BY <1>13, <1>14 DEF Follows, R
<1> QED
  BY <1>8, <1>9, <1>15 DEF M

-----------------------------------------------------------------------------
(***************************************************************************)
(* The API client.                                                         *)
(***************************************************************************)
HeldTokens == used \cup {NoSession}
Kinds == {"other", "resolve", "verify", "lookup"}
Fetches == [n : 0..2 * MaxFetches, token : Sessions \cup {NoSession}, kind : Kinds, name : Usernames \cup {NoName}]

SessionInv ==
    /\ session \in HeldTokens /\ used \subseteq Sessions /\ rejected \subseteq used
    /\ undeleted \subseteq used /\ NoSession \notin rejected /\ RejectedIsNotStored
    /\ fetches \subseteq Fetches /\ \A f \in fetches : f.token \in HeldTokens
    /\ linking \in {"idle", "verify", "lookup", "linked", "refused"}
\* One exchange of a Privy token is under way, at most.
LinkInv ==
    /\ fetchCount \in 0..MaxFetches + 1
    /\ \A f \in fetches : f.kind \in {"verify", "lookup"} => f.kind = linking
    /\ \A f, g \in fetches : f.kind \in {"verify", "lookup"} /\ g.kind \in {"verify", "lookup"} => f = g
    /\ \A f \in fetches : f.kind = "verify" => fetchCount <= MaxFetches
\* And one name is resolved, or recorded, with the list that is stored.
RecentInv ==
    /\ recents \in Seq(Usernames) /\ log \in Seq(Usernames) /\ Follows(recents, log)
    /\ \A f \in fetches : f.kind = "resolve" => f.name \in Usernames /\ remembering = {}
    /\ \A f, g \in fetches : f.kind = "resolve" /\ g.kind = "resolve" => f = g
    /\ remembering = {} \/ \E s : remembering = {s} /\ s.name \in Usernames /\ s.read = recents
ApiInv == SessionInv /\ LinkInv /\ RecentInv

LEMMA ApiStarts == ASSUME ApiInit PROVE ApiInv
<1>1. SessionInv
  BY DEF ApiInit, SessionInv, HeldTokens, RejectedIsNotStored
<1>2. LinkInv
  BY ApiConstants DEF ApiInit, LinkInv
<1>3. Follows(<<>>, <<>>)
  <2>1. Elements(<<>>) = {} /\ Len(<<>>) = 0
    BY DEF Elements
  <2>2. Cardinality({}) = 0
    BY FS_EmptySet
  <2> QED
    BY <2>1, <2>2, ApiConstants DEF Follows
<1>4. RecentInv
  BY <1>3 DEF ApiInit, RecentInv
<1> QED
  BY <1>1, <1>2, <1>4 DEF ApiInv

LEMMA ApiRests == ASSUME ApiInv, UNCHANGED apiVars PROVE ApiInv'
<1>1. SessionInv'
  BY DEF ApiInv, apiVars, SessionInv, HeldTokens, RejectedIsNotStored
<1>2. LinkInv'
  BY DEF ApiInv, apiVars, LinkInv
<1>3. RecentInv'
  BY DEF ApiInv, apiVars, RecentInv
<1> QED
  BY <1>1, <1>2, <1>3 DEF ApiInv

\* A request is sent.
LEMMA FetchingKeeps ==
    ASSUME SessionInv, LinkInv, NEW kind \in Kinds, NEW name \in Usernames \cup {NoName}, Fetching(kind, name),
           UNCHANGED <<session, used, rejected, undeleted>>, linking' \in {linking, "verify"}
    PROVE  SessionInv'
<1>0. PICK t \in {session, NoSession} :
        fetches' = fetches \cup {[n |-> fetchCount, token |-> t, kind |-> kind, name |-> name]}
  BY DEF Fetching, ReadTokens
<1>1. PICK f : f = [n |-> fetchCount, token |-> t, kind |-> kind, name |-> name]
  OBVIOUS
<1>2. fetches' = fetches \cup {f} /\ fetchCount < MaxFetches
  BY <1>0, <1>1 DEF Fetching
<1>3. fetchCount \in 0..2 * MaxFetches
  BY <1>2, ApiConstants DEF LinkInv
<1>4. t \in Sessions \cup {NoSession} /\ t \in HeldTokens
  BY DEF SessionInv, HeldTokens
<1>5. f \in Fetches /\ f.token = t
  BY <1>1, <1>3, <1>4 DEF Fetches
<1> QED
  BY <1>2, <1>4, <1>5 DEF SessionInv, HeldTokens, RejectedIsNotStored

LEMMA ApiStep == ASSUME ~OverlapResolves, ApiInv, ApiNext PROVE ApiInv'
<1> USE DEF ApiInv
<1>0. MaxFetches \in Nat /\ fetchCount \in 0..MaxFetches + 1
  BY ApiConstants DEF LinkInv
<1>1. ASSUME NEW t \in Sessions, SetSession(t) PROVE ApiInv'
  <2>1. SessionInv'
    BY <1>1 DEF SetSession, SessionInv, HeldTokens, RejectedIsNotStored
  <2>2. LinkInv'
    BY <1>1 DEF SetSession, LinkInv
  <2>3. RecentInv'
    BY <1>1 DEF SetSession, RecentInv
  <2> QED
    BY <2>1, <2>2, <2>3
<1>2. CASE OtherFetch
  <2>0. "other" \in Kinds
    BY DEF Kinds
  <2>1. SessionInv'
    BY <1>2, <2>0, FetchingKeeps DEF OtherFetch
  <2>2. PICK f : /\ fetches' = fetches \cup {f}
                 /\ \E t : f = [n |-> fetchCount, token |-> t, kind |-> "other", name |-> NoName]
    BY <1>2 DEF OtherFetch, Fetching
  <2>3. /\ fetches' = fetches \cup {f} /\ f.kind = "other" /\ fetchCount' = fetchCount + 1 /\ fetchCount < MaxFetches
        /\ UNCHANGED <<recents, remembering, log, linking>>
    BY <1>2, <2>2 DEF OtherFetch, Fetching
  <2>4. LinkInv'
    BY <1>0, <2>3 DEF LinkInv
  <2>5. RecentInv'
    BY <2>3 DEF RecentInv
  <2> QED
    BY <2>1, <2>4, <2>5
<1>3. ASSUME NEW name \in Usernames, ResolveUsername(name) PROVE ApiInv'
  <2>0. "resolve" \in Kinds
    BY DEF Kinds
  <2>1. SessionInv'
    BY <1>3, <2>0, FetchingKeeps DEF ResolveUsername
  <2>2. PICK f : /\ fetches' = fetches \cup {f}
                 /\ \E t : f = [n |-> fetchCount, token |-> t, kind |-> "resolve", name |-> name]
    BY <1>3 DEF ResolveUsername, Fetching
  <2>3. /\ fetches' = fetches \cup {f} /\ f.kind = "resolve" /\ f.name = name
        /\ fetchCount' = fetchCount + 1 /\ fetchCount < MaxFetches
        /\ UNCHANGED <<recents, remembering, log, linking>>
        /\ remembering = {} /\ \A g \in fetches : g.kind # "resolve"
    BY <1>3, <2>2 DEF ResolveUsername, Fetching, NoneResolving
  <2>4. LinkInv'
    BY <1>0, <2>3 DEF LinkInv
  <2>5. RecentInv'
    BY <2>3 DEF RecentInv
  <2> QED
    BY <2>1, <2>4, <2>5
<1>4. CASE RecoverWalletViaPrivy
  <2>0. "verify" \in Kinds
    BY DEF Kinds
  <2>1. SessionInv'
    BY <1>4, <2>0, FetchingKeeps DEF RecoverWalletViaPrivy
  <2>2. PICK f : /\ fetches' = fetches \cup {f}
                 /\ \E t : f = [n |-> fetchCount, token |-> t, kind |-> "verify", name |-> NoName]
    BY <1>4 DEF RecoverWalletViaPrivy, Fetching
  <2>3. /\ fetches' = fetches \cup {f} /\ f.kind = "verify" /\ linking' = "verify" /\ linking \notin {"verify", "lookup"}
        /\ fetchCount' = fetchCount + 1 /\ fetchCount < MaxFetches
        /\ UNCHANGED <<recents, remembering, log>>
    BY <1>4, <2>2 DEF RecoverWalletViaPrivy, Fetching
  <2>4. LinkInv'
    BY <1>0, <2>3 DEF LinkInv
  <2>5. RecentInv'
    BY <2>3 DEF RecentInv
  <2> QED
    BY <2>1, <2>4, <2>5
<1>5. ASSUME NEW s \in remembering, SaveRecentRecipient(s) PROVE ApiInv'
  <2>1. SessionInv'
    BY <1>5 DEF SaveRecentRecipient, SessionInv, HeldTokens, RejectedIsNotStored
  <2>2. LinkInv'
    BY <1>5 DEF SaveRecentRecipient, LinkInv
  <2>3. remembering = {s} /\ s.name \in Usernames /\ s.read = recents
    BY DEF RecentInv
  <2>4. /\ recents' = WithRecent(s.name, recents) /\ log' = Append(log, s.name) /\ remembering' = {} /\ fetches' = fetches
    BY <1>5, <2>3 DEF SaveRecentRecipient
  <2>5. PICK r, L, x, q, M : r = recents /\ L = log /\ x = s.name /\ q = WithRecent(x, r) /\ M = Append(L, x)
    OBVIOUS
  <2>6. r \in Seq(Usernames) /\ L \in Seq(Usernames) /\ x \in Usernames /\ Follows(r, L)
    BY <2>3, <2>5 DEF RecentInv
  <2>7. q \in Seq(Usernames) /\ Follows(q, M) /\ M \in Seq(Usernames)
    BY <2>5, <2>6, RecentKeeps, AppendProperties
  <2>8. recents' = q /\ log' = M
    BY <2>4, <2>5
  <2>9. RecentInv'
    BY <2>4, <2>7, <2>8 DEF RecentInv
  <2> QED
    BY <2>1, <2>2, <2>9
<1>6. ASSUME NEW f \in fetches, Unauthorized(f) \/ FetchFails(f) \/ OtherAnswered(f) \/ LookedUp(f) PROVE ApiInv'
  <2>1. SessionInv'
    BY <1>6 DEF Unauthorized, SessionCleared, FetchFails, OtherAnswered, LookedUp, SessionInv, HeldTokens, RejectedIsNotStored
  <2>2. LinkInv'
    BY <1>6 DEF Unauthorized, FetchFails, OtherAnswered, LookedUp, LinkInv
  <2>3. RecentInv'
    <3>1. fetches' \subseteq fetches /\ UNCHANGED <<recents, remembering, log>>
      BY <1>6 DEF Unauthorized, FetchFails, OtherAnswered, LookedUp
    <3> QED
      BY <3>1 DEF RecentInv
  <2> QED
    BY <2>1, <2>2, <2>3
<1>7. ASSUME NEW f \in fetches, Resolved(f) PROVE ApiInv'
  <2>1. SessionInv'
    BY <1>7 DEF Resolved, SessionInv, HeldTokens, RejectedIsNotStored
  <2>2. LinkInv'
    BY <1>7 DEF Resolved, LinkInv
  <2>3. PICK s : s = [name |-> f.name, read |-> recents]
    OBVIOUS
  <2>4. remembering' = {s} /\ s.name \in Usernames /\ s.read = recents
    BY <1>7, <2>3 DEF Resolved, RecentInv
  <2>5. \A g \in fetches' : g.kind # "resolve"
    BY <1>7 DEF Resolved, RecentInv
  <2>6. RecentInv'
    BY <1>7, <2>4, <2>5 DEF Resolved, RecentInv
  <2> QED
    BY <2>1, <2>2, <2>6
<1>8. ASSUME NEW f \in fetches, Verified(f) PROVE ApiInv'
  <2>0. PICK t \in {session, NoSession} :
          fetches' = (fetches \ {f}) \cup {[n |-> fetchCount, token |-> t, kind |-> "lookup", name |-> NoName]}
    BY <1>8 DEF Verified, ReadTokens
  <2>1. PICK g : g = [n |-> fetchCount, token |-> t, kind |-> "lookup", name |-> NoName]
    OBVIOUS
  <2>2. /\ f.kind = "verify" /\ linking' = "lookup" /\ fetchCount' = fetchCount + 1 /\ fetches' = (fetches \ {f}) \cup {g}
        /\ g.kind = "lookup" /\ g.token = t
        /\ UNCHANGED <<session, used, rejected, undeleted, recents, remembering, log>>
    BY <1>8, <2>0, <2>1 DEF Verified
  <2>3. fetchCount <= MaxFetches /\ \A h \in fetches \ {f} : h.kind \notin {"verify", "lookup"}
    BY <2>2 DEF LinkInv
  <2>4. fetchCount \in 0..2 * MaxFetches /\ fetchCount + 1 \in 0..MaxFetches + 1
    BY <1>0, <2>3
  <2>5. t \in Sessions \cup {NoSession} /\ t \in HeldTokens
    BY DEF SessionInv, HeldTokens
  <2>6. g \in Fetches
    BY <2>1, <2>4, <2>5 DEF Fetches, Kinds
  <2>7. SessionInv'
    BY <2>2, <2>5, <2>6 DEF SessionInv, HeldTokens, RejectedIsNotStored
  <2>8. LinkInv'
    BY <2>2, <2>3, <2>4 DEF LinkInv
  <2>9. RecentInv'
    BY <2>2 DEF RecentInv
  <2> QED
    BY <2>7, <2>8, <2>9
<1> QED
  BY <1>1, <1>2, <1>3, <1>4, <1>5, <1>6, <1>7, <1>8 DEF ApiNext

LEMMA ApiShows ==
    ASSUME ApiInv
    PROVE  ApiTypeOK /\ RejectedIsNotStored /\ RecentsFollowLog
<1> USE DEF ApiInv
<1>1. /\ DOMAIN recents = 1..Len(recents) /\ DOMAIN log = 1..Len(log) /\ Len(recents) \in Nat
      /\ \A i \in 1..Len(recents) : recents[i] \in Usernames
  BY LenProperties, ElementOfSeq DEF RecentInv
<1>2. RecentsFollowLog
  <2>1. \A a : LastMention(a) = Mention(log, a)
    BY DEF LastMention, Mention
  <2> DEFINE names == {log[i] : i \in DOMAIN log}
             newer(name) == {m \in names : LastMention(m) > LastMention(name)}
  <2>2. names = Elements(log)
    BY <1>1 DEF Elements
  <2>3. \A a : newer(a) = Newer(log, a)
    BY <2>1, <2>2 DEF Newer
  <2>4. /\ \A i \in 1..Len(recents) : recents[i] \in Elements(log) /\ Cardinality(Newer(log, recents[i])) = i - 1
        /\ Len(recents) = IF Cardinality(Elements(log)) < MaxRecents THEN Cardinality(Elements(log)) ELSE MaxRecents
    BY DEF RecentInv, Follows, Rank
  <2>5. RecentsFollowLog <=>
          /\ \A i \in DOMAIN recents : recents[i] \in names /\ Cardinality(newer(recents[i])) = i - 1
          /\ Len(recents) = IF Cardinality(names) < MaxRecents THEN Cardinality(names) ELSE MaxRecents
    BY DEF RecentsFollowLog
  <2> HIDE DEF names, newer
  <2> QED
    BY <1>1, <2>2, <2>3, <2>4, <2>5
<1>3. Len(recents) <= MaxRecents
  <2>1. Cardinality(Elements(log)) \in Nat
    BY NamesAreFinite DEF RecentInv
  <2> QED
    BY <2>1, ApiConstants DEF RecentInv, Follows
<1>4. session \in Sessions \cup {NoSession} /\ fetches \subseteq Fetches
  BY DEF SessionInv, HeldTokens
<1>5. ApiTypeOK
  BY <1>1, <1>3, <1>4 DEF ApiTypeOK, SessionInv, Fetches, Kinds
<1> QED
  BY <1>2, <1>5 DEF SessionInv

-----------------------------------------------------------------------------
(***************************************************************************)
(* The parts side by side: one is used, the others rest.                   *)
(***************************************************************************)
SecurityInv ==
    /\ part \in Parts
    /\ KeychainInv /\ KeysInv /\ BackupInv /\ PinInv
    /\ UsernameInv /\ ProfileInv /\ EntryInv
    /\ NotifyInv /\ GateInv /\ NoticeInv /\ ContactInv /\ CrashInv /\ ThemeInv
    /\ BiometricInv /\ ApiInv

LEMMA SecurityStart == Init => SecurityInv
BY KeychainStarts, KeysStart, BackupStarts, PinStarts, UsernameStarts, ProfileStarts, EntryStarts,
   NotifyStarts, GateStarts, NoticeStarts, ContactStarts, CrashStarts, ThemeStarts,
   BiometricStarts, ApiStarts DEF Init, SecurityInv

\* What a step does to a part: one of its own steps, or nothing.
LEMMA PartsMove ==
    ASSUME [Next]_vars
    PROVE  /\ part' = part
           /\ KeychainNext \/ UNCHANGED keychainVars
           /\ KeysNext \/ UNCHANGED keyVars
           /\ BackupNext \/ UNCHANGED backupVars
           /\ PinNext \/ UNCHANGED pinVars
           /\ UsernameNext \/ UNCHANGED usernameVars
           /\ ProfileNext \/ UNCHANGED profileVars
           /\ EntryNext \/ UNCHANGED entryVars
           /\ NotifyNext \/ UNCHANGED notifyVars
           /\ GateNext \/ UNCHANGED gateVars
           /\ NoticeNext \/ UNCHANGED noticeVars
           /\ ContactNext \/ UNCHANGED contactVars
           /\ CrashNext \/ UNCHANGED crashVars
           /\ ThemeNext \/ UNCHANGED themeVars
           /\ BiometricNext \/ UNCHANGED biometricVars
           /\ ApiNext \/ UNCHANGED apiVars
<1> USE DEF Next, vars, Except, OfKeys, OfAccount, OfShell, NotKeys, NotAccount, NotShell
<1>1. part' = part /\ (KeychainNext \/ UNCHANGED keychainVars)
  OBVIOUS
<1>2. /\ KeysNext \/ UNCHANGED keyVars
      /\ BackupNext \/ UNCHANGED backupVars
      /\ PinNext \/ UNCHANGED pinVars
  OBVIOUS
<1>3. /\ UsernameNext \/ UNCHANGED usernameVars
      /\ ProfileNext \/ UNCHANGED profileVars
      /\ EntryNext \/ UNCHANGED entryVars
  OBVIOUS
<1>4. /\ NotifyNext \/ UNCHANGED notifyVars
      /\ GateNext \/ UNCHANGED gateVars
      /\ NoticeNext \/ UNCHANGED noticeVars
  OBVIOUS
<1>5. /\ ContactNext \/ UNCHANGED contactVars
      /\ CrashNext \/ UNCHANGED crashVars
      /\ ThemeNext \/ UNCHANGED themeVars
  OBVIOUS
<1>6. /\ BiometricNext \/ UNCHANGED biometricVars
      /\ ApiNext \/ UNCHANGED apiVars
  OBVIOUS
<1> QED
  BY <1>1, <1>2, <1>3, <1>4, <1>5, <1>6

\* The races the code leaves open, which the runs with a finding switch on.
Orderly == ~OverlapSets /\ ~SlowStorage /\ ~OverlapPins /\ ~EarlyPresses /\ ~OverlapResolves /\ ~HostileCrashes

LEMMA SecurityStep ==
    ASSUME Orderly
    PROVE  SecurityInv /\ [Next]_vars => SecurityInv'
<1> SUFFICES ASSUME SecurityInv, [Next]_vars PROVE SecurityInv'
  OBVIOUS
<1>1. KeychainInv'
  BY PartsMove, KeychainStep DEF SecurityInv, Orderly
<1>2. KeysInv' /\ BackupInv' /\ PinInv'
  BY PartsMove, KeysStep, KeysRest, BackupStep, BackupRests, PinStep, PinRests DEF SecurityInv, Orderly
<1>3. UsernameInv' /\ ProfileInv' /\ EntryInv'
  BY PartsMove, UsernameStep, UsernameRests, ProfileStep, ProfileRests, EntryStep, EntryRests DEF SecurityInv
<1>4. NotifyInv' /\ GateInv' /\ NoticeInv'
  BY PartsMove, NotifyStep, NotifyRests, GateStep, GateRests, NoticeStep, NoticeRests DEF SecurityInv
<1>5. ContactInv' /\ CrashInv' /\ ThemeInv'
  BY PartsMove, ContactStepKeeps, ContactRests, CrashStep, CrashRests, ThemeStep, ThemeRests DEF SecurityInv, Orderly
<1>6. BiometricInv' /\ ApiInv'
  BY PartsMove, BiometricStep, BiometricRests, ApiStep, ApiRests DEF SecurityInv, Orderly
<1>7. part' \in Parts
  BY PartsMove DEF SecurityInv, Parts
<1> QED
  BY <1>1, <1>2, <1>3, <1>4, <1>5, <1>6, <1>7 DEF SecurityInv

LEMMA SecurityHolds == ASSUME Orderly PROVE Spec => []SecurityInv
BY SecurityStart, SecurityStep, PTL DEF Spec

LEMMA ShellTyped ==
    ASSUME NotifyInv, GateInv, NoticeInv, ContactInv, CrashInv, ThemeInv
    PROVE  ShellTypeOK
<1>1. {promptDismissed, pushToken, answeredPrompt, asked, forceUpdate, wasOffline, contactsFailed, hasError,
       online} \subseteq BOOLEAN
  BY Zenon DEF NotifyInv, GateInv, NoticeInv, ContactInv, CrashInv
<1>2. \A i \in DOMAIN toasts : toasts[i] \in [id : 0..MaxToasts, timed : BOOLEAN, hiding : BOOLEAN]
  BY LenProperties, ElementOfSeq DEF NoticeInv, Toasts
<1>3. \A i \in DOMAIN matches : matches[i] \in AllNumbers
  BY LenProperties, ElementOfSeq DEF ContactInv
<1> QED
  BY <1>1, <1>2, <1>3 DEF ShellTypeOK, NotifyInv, GateInv, NoticeInv, ContactInv, CrashInv, ThemeInv, Steps

LEMMA AllTyped == ASSUME SecurityInv PROVE TypeOK
BY KeysShow, AccountShows, ShellTyped, BiometricShows, ApiShows DEF SecurityInv, KeychainInv, TypeOK

\* The keychain with its slots, version and interrupted rotations implements
\* the plain store of TokenStore, at every moment of every rotation, whether it
\* was killed, could not write or could not delete: a token that is held never
\* changes, and only a read that failed, which the code takes for version 0 or
\* for no token, ends that (rotateSecureStorageKey, getActiveKeyVersion,
\* getRotatedToken, setRotatedToken, deleteRotatedToken and the bare keys of
\* api.ts).  Assumed: no token is set or deleted while a rotation or a deletion
\* is under way.
THEOREM KeychainIsAStore == ASSUME ~OverlapSets PROVE Spec => RotationIsInvisible
<1>1. Init => KeychainInv /\ Store!StoreInit
  BY KeychainStarts, MappingStarts DEF Init
<1>2. KeychainInv /\ [Next]_vars => KeychainInv' /\ [Store!StoreNext]_<<GivenKeys, doubted, Read>>
  BY PartsMove, KeychainStep, MappingStep
<1> QED
  BY <1>1, <1>2, PTL DEF Spec, RotationIsInvisible, Store!StoreSpec, GivenKeys, Read

\* However calls of the storage are killed, fail or answer late, for every
\* number of keys, phrases, names and recipients: a token that was set is read
\* unless a failed read bore on it, a listed account has keys of the phrase
\* unless a job was cut off, a copied phrase has its timer, the kept name is
\* well formed, the cached profile was accepted, a session the server has
\* rejected is gone unless the keychain refused to delete it, and the recent
\* recipients are the latest distinct ones of the log in order (biometric.tsx,
\* wallet.ts, backup.tsx, username.tsx, onboarding-start.tsx, api.ts).
THEOREM PhoneAlwaysRemembers == ASSUME Orderly PROVE Spec => []PhoneRemembers
<1>1. SecurityInv => PhoneRemembers
  BY AllTyped, KeysShow, AccountShows, ApiShows DEF SecurityInv, KeychainInv, PhoneRemembers
<1> QED
  BY <1>1, SecurityHolds, PTL

\* The guards: the wallet's PIN, the biometric guard with its PIN fallback and
\* its counted attempts, the payment's dialog, and the switch that turns the
\* protection off; none lets through a user who has not proved himself to it
\* (biometric.tsx, BiometricGuard, PaymentConfirm.tsx).
THEOREM UserIsAlwaysProved == ASSUME Orderly PROVE Spec => UserIsProved
<1>1. SecurityInv => PinProtects /\ GuardProves /\ PinsAreLimited /\ PaymentsAreProved
  BY KeysShow, BiometricShows DEF SecurityInv
<1>2. SecurityInv /\ [Next]_vars => [bioPref /\ ~bioPref' => allowed']_biometricVars
  BY PartsMove, DisablingStep DEF SecurityInv
<1> QED
  BY <1>1, <1>2, SecurityHolds, PTL DEF Spec, UserIsProved, DisablingIsProved

\* The shell, for every list of versions, every phone book, chunk size and
\* length of the queue of reports: versions compare as versions although
\* isVersionOutdated loops over parts of different number, every contact on
\* ZAPS is matched chunk by chunk, the newest reports survive the cut of the
\* queue, the dialog is raised only by who may, the theme is kept, and an outage
\* that was told is closed once (_layout.tsx, contacts.ts, crashReporter.ts,
\* notificationService.ts, useNetworkStatus.ts).
THEOREM ShellIsAlwaysRight == ASSUME Orderly PROVE Spec => ShellIsRight
<1>1. SecurityInv =>
        DialogWasAskedFor /\ NotAskedAgain /\ GateIsRight /\ ContactsAreComplete /\ ReportsKept /\ ThemeIsRemembered
  BY ThemeShows, CrashShows DEF SecurityInv, NotifyInv, GateInv, ContactInv
<1>2. SecurityInv /\ [Next]_vars => [Closes]_noticeVars
  BY PartsMove, NoticeCloses DEF SecurityInv
<1> QED
  BY <1>1, <1>2, SecurityHolds, PTL DEF Spec, ShellIsRight, BackOnlineClosesOutage, Closes

=============================================================================
