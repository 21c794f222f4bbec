--------------------------- MODULE MobileKeychain ---------------------------
(***************************************************************************)
(* The session tokens of the mobile app in the device's keychain: the two  *)
(* slots that rotateSecureStorageKey alternates between (biometric.tsx),   *)
(* and the bare keys api.ts reads, writes and clears.  An action is one    *)
(* keychain call.  A rotation or a deletion may stop between any two of    *)
(* them, because the app is killed or a write fails.  A read that fails is *)
(* swallowed: a version counts as 0 and a token as none.  So is a deletion *)
(* that fails.                                                             *)
(***************************************************************************)
EXTENDS Naturals, FiniteSets

CONSTANTS
    Keys,           \* ROTATABLE_TOKEN_KEYS
    Tokens,         \* values a login brings
    NoToken,
    OverlapSets,    \* may a token be set or deleted while a rotation or a deletion is under way?
    MaxSets,        \* bound: tokens set and deleted
    MaxRotations    \* bound: rotations started
ASSUME TokensDiffer == NoToken \notin Tokens

PlaceOf(v) == IF v = 0 THEN "slot0" ELSE "slot1"
Stores == {"slot0", "slot1", "bare"}

VARIABLES
    stored,         \* the keychain: [Stores -> [Keys -> value]]
    version,        \* KEY_ROTATION_VERSION_KEY
    rotation,       \* the rotation under way: its step, the version it read, its tokens, what is left to do,
                    \* and the key whose slot gave nothing
    deleting,       \* deleteRotatedToken under way: the keys whose bare entry is still to be deleted
    due,            \* whether the interval has elapsed
    last,           \* history: what the app set last, NoToken after a deletion
    doubted,        \* history: the keys a failed read has borne on since they were set
    sets, rotations \* bounds

keychainVars == <<stored, version, rotation, deleting, due, last, doubted, sets, rotations>>

Idle == [step |-> "idle", from |-> 0, tokens |-> [k \in Keys |-> NoToken], left |-> {}, missed |-> {}]
Empty == [k \in Keys |-> NoToken]

KeychainInit ==
    /\ stored = [s \in Stores |-> Empty] /\ version = 0
    /\ rotation = Idle /\ deleting = {} /\ due = TRUE
    /\ last = Empty /\ doubted = {} /\ sets = 0 /\ rotations = 0

-----------------------------------------------------------------------------
(* Reading, writing and deleting a token. *)

\* getActiveKeyVersion: a read that fails gives 0.
ActiveKeyVersions == {version, 0}

\* Tokens of before the first rotation are under the bare key.
LegacyToken(k) == stored["bare"][k]

\* getRotatedToken, when its reads succeed: the active slot first.
RotatedToken(k) ==
    LET active == stored[PlaceOf(version)][k] IN IF active # NoToken THEN active ELSE LegacyToken(k)

\* getSessionToken of api.ts knows the bare key only.
SessionToken(k) == stored["bare"][k]

Undisturbed == (rotation = Idle /\ deleting = {}) \/ OverlapSets

\* setRotatedToken writes the slot it takes for the active one.
SetRotatedToken(k, t) ==
    /\ sets < MaxSets /\ sets' = sets + 1 /\ Undisturbed
    /\ \E v \in ActiveKeyVersions :
         /\ stored' = [stored EXCEPT ![PlaceOf(v)][k] = t]
         /\ doubted' = IF v = version THEN doubted \ {k} ELSE doubted \cup {k}
    /\ last' = [last EXCEPT ![k] = t]
    /\ UNCHANGED <<version, rotation, deleting, due, rotations>>

\* setSessionToken of api.ts writes the bare key, before any rotation.
SetSessionToken(k, t) ==
    /\ sets < MaxSets /\ sets' = sets + 1 /\ Undisturbed /\ rotations = 0
    /\ stored[PlaceOf(version)][k] = NoToken
    /\ stored' = [stored EXCEPT !["bare"][k] = t]
    /\ last' = [last EXCEPT ![k] = t] /\ doubted' = doubted \ {k}
    /\ UNCHANGED <<version, rotation, deleting, due, rotations>>

\* An entry is deleted, or the deletion fails and nobody is told.
DeleteItem(place, k) == stored' \in {stored, [stored EXCEPT ![place][k] = NoToken]}

\* deleteRotatedToken: the slot it takes for the active one ...
DeleteRotatedToken(k) ==
    /\ sets < MaxSets /\ sets' = sets + 1 /\ Undisturbed
    /\ \E v \in ActiveKeyVersions : DeleteItem(PlaceOf(v), k)
    /\ deleting' = deleting \cup {k} /\ last' = [last EXCEPT ![k] = NoToken]
    /\ UNCHANGED <<version, rotation, due, doubted, rotations>>

\* ... and then the bare key.
DeleteLegacy(k) ==
    /\ k \in deleting /\ deleting' = deleting \ {k} /\ DeleteItem("bare", k)
    /\ UNCHANGED <<version, rotation, due, last, doubted, sets, rotations>>

-----------------------------------------------------------------------------
(* rotateSecureStorageKey. *)

\* maybeRotateSecureStorageKey: once in an interval.  A rotation that took a
\* failed read for version 0 bears on every token.
StartRotation ==
    /\ rotation = Idle /\ (deleting = {} \/ OverlapSets) /\ due /\ rotations < MaxRotations
    /\ rotations' = rotations + 1
    /\ \E v \in ActiveKeyVersions :
         /\ rotation' = [Idle EXCEPT !.step = "read", !.from = v, !.left = Keys]
         /\ doubted' = IF v = version THEN doubted ELSE Keys
    /\ UNCHANGED <<stored, version, deleting, due, last, sets>>

\* The steps in the order of the code.
\* The mutant: the version moves before the tokens are there.
FollowingEarly(step) ==
    CASE step = "read" -> "switch" [] step = "switch" -> "write" [] step = "write" -> "delete" [] OTHER -> "stamp"
Following(step) ==
    CASE step = "read" -> "write" [] step = "write" -> "switch" [] step = "switch" -> "delete" [] OTHER -> "stamp"

\* The loop over the keys goes on, or the next step begins.
Advance(r, k) ==
    IF r.left = {k} THEN [r EXCEPT !.step = Following(r.step), !.left = Keys] ELSE [r EXCEPT !.left = r.left \ {k}]

\* What a read gives: what is there, or nothing where it fails.
Given(token) == {token, NoToken}

\* The old slot is read ...
ReadSlot(k) ==
    /\ rotation.step = "read" /\ k \in rotation.left /\ rotation.missed = {}
    /\ LET there == stored[PlaceOf(rotation.from)][k]
       IN \E t \in Given(there) :
            /\ rotation' = IF t # NoToken THEN Advance([rotation EXCEPT !.tokens[k] = t], k)
                           ELSE [rotation EXCEPT !.missed = {k}]
            /\ doubted' = IF t = there THEN doubted ELSE doubted \cup {k}
    /\ UNCHANGED <<stored, version, deleting, due, last, sets, rotations>>

\* ... and the bare key where it gave nothing.
ReadLegacy(k) ==
    /\ rotation.step = "read" /\ k \in rotation.missed
    /\ \E t \in Given(LegacyToken(k)) :
         /\ rotation' = Advance([rotation EXCEPT !.tokens[k] = t, !.missed = {}], k)
         /\ doubted' = IF t = LegacyToken(k) THEN doubted ELSE doubted \cup {k}
    /\ UNCHANGED <<stored, version, deleting, due, last, sets, rotations>>

\* Only tokens that exist are written to the other slot.
WriteToken(k) ==
    /\ rotation.step = "write" /\ k \in rotation.left
    /\ rotation' = Advance(rotation, k)
    /\ stored' = IF rotation.tokens[k] = NoToken THEN stored
                 ELSE [stored EXCEPT ![PlaceOf(1 - rotation.from)][k] = rotation.tokens[k]]
    /\ UNCHANGED <<version, deleting, due, last, doubted, sets, rotations>>

SwitchVersion ==
    /\ rotation.step = "switch"
    /\ version' = 1 - rotation.from
    /\ rotation' = [rotation EXCEPT !.step = Following("switch"), !.left = Keys]
    /\ UNCHANGED <<stored, deleting, due, last, doubted, sets, rotations>>

\* Each deletion is best effort: it may leave the old slot, the bare key or both.
DeleteOld(k) ==
    /\ rotation.step = "delete" /\ k \in rotation.left
    /\ rotation' = Advance(rotation, k)
    /\ \E gone \in SUBSET {PlaceOf(rotation.from), "bare"} :
         stored' = [s \in Stores |-> IF s \in gone THEN [stored[s] EXCEPT ![k] = NoToken] ELSE stored[s]]
    /\ UNCHANGED <<version, deleting, due, last, doubted, sets, rotations>>

\* The time stamp: the next rotation is an interval away, unless the stamp
\* could not be written.
StampRotation ==
    /\ rotation.step = "stamp" /\ rotation' = Idle /\ due' \in BOOLEAN
    /\ UNCHANGED <<stored, version, deleting, last, doubted, sets, rotations>>

\* A write fails, or the app is killed: what was done stays done, and the
\* rotation is due again.
StopRotation ==
    /\ rotation # Idle \/ deleting # {}
    /\ rotation' = Idle /\ deleting' \in {deleting, {}}
    /\ UNCHANGED <<stored, version, due, last, doubted, sets, rotations>>

IntervalElapses ==
    /\ ~due /\ due' = TRUE
    /\ UNCHANGED <<stored, version, rotation, deleting, last, doubted, sets, rotations>>

KeychainNext ==
    \/ \E k \in Keys : \/ \E t \in Tokens : SetRotatedToken(k, t) \/ SetSessionToken(k, t)
                       \/ DeleteRotatedToken(k) \/ DeleteLegacy(k)
                       \/ ReadSlot(k) \/ ReadLegacy(k) \/ WriteToken(k) \/ DeleteOld(k)
    \/ StartRotation \/ SwitchVersion \/ StampRotation \/ StopRotation \/ IntervalElapses

-----------------------------------------------------------------------------
KeychainTypeOK ==
    /\ stored \in [Stores -> [Keys -> Tokens \cup {NoToken}]] /\ version \in {0, 1}
    /\ rotation.step \in {"idle", "read", "write", "switch", "delete", "stamp"} /\ rotation.left \subseteq Keys
    /\ due \in BOOLEAN /\ last \in [Keys -> Tokens \cup {NoToken}] /\ {deleting, doubted} \subseteq SUBSET Keys

\* A token that was set and not deleted is what a read returns at every moment
\* of every rotation, also one that was killed, stopped by a write that failed,
\* or could not delete: only a read that failed when or since it was set, the
\* one of the version or the one of the token itself, can lose or replace it.
\* Sets and deletions do not run beside a rotation: OverlapSets = FALSE.
TokenKept == \A k \in Keys : last[k] # NoToken /\ k \notin doubted => RotatedToken(k) = last[k]

\* What the comments promise, "New slot is fully populated before the old slot
\* is deleted" and "we always have a fallback" (biometric.tsx:71, 180), without
\* regard to failed reads; these break it.
TokenNeverLost == \A k \in Keys : last[k] # NoToken => RotatedToken(k) = last[k]

\* The two slots, the version and the rotation between them implement a plain
\* store of tokens in which only a failed read casts doubt on a key: every
\* keychain call is a set, a deletion, a read that failed, a change under keys
\* that are not held, or nothing a caller can see (biometric.tsx:110-250).
Store == INSTANCE TokenStore WITH given <- [k \in Keys |-> last[k] # NoToken],
                                  value <- [k \in Keys |-> RotatedToken(k)]
RotationIsInvisible == Store!StoreSpec

\* "leftover stale data is benign": what was deleted is not read again.
LeftoversAreBenign == \A k \in Keys : last[k] = NoToken => RotatedToken(k) = NoToken
=============================================================================
