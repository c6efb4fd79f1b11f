----------------------------- MODULE WorkerAuth -----------------------------
(***************************************************************************)
(* Who signs and who verifies.  The Worker signs every token with its one  *)
(* key and publishes that key (site/src/edge.tsx, signingKey, edgeToken,   *)
(* edgeJWKS).  The edge keeps the keys it downloaded last and downloads    *)
(* them again on demand (edgeproxy/main.go, workerAuth).                   *)
(*                                                                         *)
(* Time is counted in ticks.  Ages stop counting where nothing tells them  *)
(* apart any more.  The Worker's and the edge's clocks agree.              *)
(***************************************************************************)
EXTENDS Integers

CONSTANTS
    Keys,         \* signing keys the Worker goes through, from 1
    KeyRefresh,   \* ticks after which keys in use are downloaded again
    KeyRetry,     \* minimum ticks between downloads
    KeyMaxAge     \* ticks after which keys are not trusted any more

ASSUME KeysAssumption == Keys \subseteq Nat /\ 1 \in Keys
ASSUME AgesAssumption ==
    /\ KeyRefresh \in Nat /\ KeyRetry \in Nat \ {0} /\ KeyMaxAge \in Nat
    /\ KeyRetry <= KeyRefresh /\ KeyRefresh < KeyMaxAge

VARIABLES
    signing,    \* the Worker's key
    keys,       \* edge: key ids known
    fetched,    \* edge: ticks since they were downloaded
    attempted,  \* edge: ticks since a download was attempted
    disturbed   \* ghost: the key was replaced, or a download has failed

authVars == <<signing, keys, fetched, attempted, disturbed>>

Capped(n, max) == IF n < max THEN n ELSE max

AuthTypeOK ==
    /\ signing \in Keys /\ keys \subseteq Keys
    /\ fetched \in 0 .. KeyMaxAge + 1 /\ attempted \in 0 .. KeyRetry
    /\ disturbed \in BOOLEAN

\* A fresh workerAuth: no keys, and times long past.
NoKeys == keys = {} /\ fetched = KeyMaxAge + 1 /\ attempted = KeyRetry

AuthInit == signing = 1 /\ NoKeys /\ disturbed = FALSE

\* A download is due: keys are old, or the id is unknown, and the last was long enough ago.
Due(kid) == (kid \notin keys \/ fetched > KeyRefresh) /\ attempted >= KeyRetry

\* edgeJWKS: what the Worker publishes.
Published == {signing}

Download ==
    /\ keys' = Published
    /\ fetched' = 0 /\ attempted' = 0
    /\ UNCHANGED <<signing, disturbed>>

DownloadFails ==
    /\ attempted' = 0
    /\ disturbed' = TRUE
    /\ UNCHANGED <<signing, keys, fetched>>

\* Mutant: every call counts as an attempt, whether or not it downloads.
KeyThrottledByCalls(kid) ==
    \/ Due(kid) /\ (Download \/ DownloadFails)
    \/ ~Due(kid) /\ attempted' = 0 /\ UNCHANGED <<signing, keys, fetched, disturbed>>

\* workerAuth.key: mu is held throughout.
Key(kid) ==
    \/ Due(kid) /\ (Download \/ DownloadFails)
    \/ ~Due(kid) /\ UNCHANGED authVars

(* The edge looks up the key of a token, and accepts the token or not.     *)
(* Its check of the token's times is left out: the page uses an answer     *)
(* only while the token has time left (Usable), so the check held before.  *)
Verified(kid, ok) == Key(kid) /\ (fetched' <= KeyMaxAge /\ kid \in keys') = ok

\* A deployment with another key.
RotateKey ==
    /\ signing + 1 \in Keys
    /\ signing' = signing + 1
    /\ disturbed' = TRUE
    /\ UNCHANGED <<keys, fetched, attempted>>

EdgeRestart ==
    /\ keys' = {} /\ fetched' = KeyMaxAge + 1 /\ attempted' = KeyRetry
    /\ UNCHANGED <<signing, disturbed>>

AuthTick ==
    /\ fetched' = Capped(fetched + 1, KeyMaxAge + 1)
    /\ attempted' = Capped(attempted + 1, KeyRetry)
    /\ UNCHANGED <<signing, keys, disturbed>>
=============================================================================
