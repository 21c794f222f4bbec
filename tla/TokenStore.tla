----------------------------- MODULE TokenStore -----------------------------
(***************************************************************************)
(* What the rotating keychain of the mobile app promises its callers       *)
(* (biometric.tsx): a store of one token per key.  A token that was set,   *)
(* not deleted, and on which no failed read has borne since is held, and a *)
(* held token never changes, whatever rotation is under way, was killed or *)
(* could not write or delete.  Under the other keys anything may be read:  *)
(* a leftover of a rotation, an earlier token, or none.                    *)
(***************************************************************************)
CONSTANTS Keys, Tokens, NoToken

VARIABLES
    given,      \* the key was set and not deleted since
    doubted,    \* the keys a failed read has borne on since they were set
    value       \* what a read of the key returns

Held(k) == given[k] /\ k \notin doubted
Values == [Keys -> Tokens \cup {NoToken}]

StoreInit == given = [k \in Keys |-> FALSE] /\ doubted = {} /\ value = [k \in Keys |-> NoToken]

SetToken(k, t) ==
    /\ given' = [given EXCEPT ![k] = TRUE] /\ doubted' = doubted \ {k}
    /\ value' = [value EXCEPT ![k] = t]

\* The version could not be read, and the token may be where nobody looks.
SetTokenAstray(k) ==
    /\ given' = [given EXCEPT ![k] = TRUE] /\ doubted' = doubted \cup {k}
    /\ value' \in Values /\ \A j \in Keys \ {k} : value'[j] = value[j]

\* Also of a key that is absent; what is read of it is promised no more.
DeleteToken(k) ==
    /\ given' = [given EXCEPT ![k] = FALSE] /\ UNCHANGED doubted
    /\ value' \in Values /\ \A j \in Keys \ {k} : value'[j] = value[j]

\* A rotation takes a read that failed for an answer.
ReadFails == doubted \subseteq doubted' /\ doubted' \subseteq Keys /\ UNCHANGED <<given, value>>

\* A slot changes under the keys nobody holds.
LeftoverAppears ==
    /\ value' \in Values /\ \A k \in Keys : Held(k) => value'[k] = value[k]
    /\ UNCHANGED <<given, doubted>>

StoreNext ==
    \/ \E k \in Keys : DeleteToken(k) \/ SetTokenAstray(k) \/ \E t \in Tokens : SetToken(k, t)
    \/ ReadFails \/ LeftoverAppears

StoreSpec == StoreInit /\ [][StoreNext]_<<given, doubted, value>>
=============================================================================
