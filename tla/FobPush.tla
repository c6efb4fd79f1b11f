------------------------------ MODULE FobPush -------------------------------
(***************************************************************************)
(* How the authorized fob list travels from the Worker's database to the   *)
(* edge proxy: pushFobs, edgeSyncRequest and the revision check of         *)
(* swipeWebhook (site/src/edge.tsx), putFobs, requestSyncIfStale and the   *)
(* headers of uploadSwipes (edgeproxy/main.go).                            *)
(*                                                                         *)
(* Every access change in D1 raises edge_changes.revision and calls        *)
(* pushFobs, which reads revision and list in one transaction and PUTs     *)
(* them with the edge's key.  Pushes run concurrently and can be lost,     *)
(* delayed and reordered; nobody retries one.  The edge repairs what it    *)
(* missed by asking for a sync when it has heard nothing for three hours,  *)
(* and by naming its revision with every swipe upload.                     *)
(*                                                                         *)
(* Time is abstract: the three hours, the edge's ten minutes between       *)
(* requests and the Worker's ten minutes between syncs each end with an    *)
(* action of their own.  Keys are numbered in the order they are deployed. *)
(***************************************************************************)
EXTENDS Integers, FiniteSets

CONSTANTS
    Lists,      \* authorized lists D1 can hold
    Oversized,  \* those with more than 512 fobs, which pushFobs refuses
    NoRow,      \* the edge's access table is empty
    NoUpload,   \* no swipe upload is in flight
    MaxRev,     \* bound: access changes
    MaxKey,     \* bound: rotations of the signing key
    MaxPushes   \* bound: pushes in flight, and pushFobs calls about to read

\* A push, and the edge's row once one has arrived.
Push == [rev : Nat, fobs : Lists, key : Nat]

ASSUME ListsAssumption == Oversized \subseteq Lists /\ NoRow \notin Push
ASSUME BoundsAssumption == MaxRev \in Nat /\ MaxKey \in Nat /\ MaxPushes \in Nat

VARIABLES
    rev,         \* edge_changes.revision
    hist,        \* the authorized list at every revision so far
    key,         \* the key derived from the Worker's signing key
    owed,        \* pushFobs calls that have not read D1 yet
    pushes,      \* PUT /api/fobs requests in flight
    row,         \* the edge's access row
    stale,       \* lastPush is over three hours ago, or zero
    edgeWait,    \* lastSyncRequest is under ten minutes ago
    workerWait,  \* sync_requested is under ten minutes ago
    pending,     \* the edge's swipe outbox is not empty
    upload       \* the swipe upload in flight

d1Vars   == <<rev, hist, key>>
syncVars == <<stale, edgeWait, workerWait>>
swipeVars == <<pending, upload>>
vars == <<d1Vars, owed, pushes, row, syncVars, swipeVars>>

TypeOK ==
    /\ rev \in Nat /\ key \in Nat
    /\ hist \in [0..rev -> Lists]
    /\ owed \in Nat
    /\ pushes \subseteq Push
    /\ row \in Push \union {NoRow}
    /\ stale \in BOOLEAN /\ edgeWait \in BOOLEAN /\ workerWait \in BOOLEAN
    /\ pending \in BOOLEAN
    /\ upload \in [key : Nat, rev : Nat] \union {NoUpload}

Init ==
    /\ rev = 0 /\ key = 0
    /\ hist \in [{0} -> Lists]
    /\ owed = 0 /\ pushes = {}
    /\ row = NoRow
    /\ stale = TRUE /\ edgeWait = FALSE /\ workerWait = FALSE
    /\ pending = FALSE /\ upload = NoUpload

-----------------------------------------------------------------------------
(* The Worker *)

\* A handler's call of pushFobs, run with await or waitUntil.
CallPushFobs == owed < MaxPushes /\ owed' = owed + 1

(* A membership write commits; triggers raise the revision with it, and    *)
(* the handler goes on to push.                                            *)
AccessChange ==
    /\ rev < MaxRev
    /\ rev' = rev + 1
    /\ \E l \in Lists : hist' = [r \in 0..rev' |-> IF r = rev' THEN l ELSE hist[r]]
    /\ CallPushFobs
    /\ UNCHANGED <<key, pushes, row, syncVars, swipeVars>>

(* A new signing key is deployed. *)
RotateKey ==
    /\ key < MaxKey
    /\ key' = key + 1
    /\ UNCHANGED <<rev, hist, owed, pushes, row, syncVars, swipeVars>>

\* Mutant: revision and list are read in two statements, not one transaction.
PushTorn ==
    /\ owed > 0 /\ owed' = owed - 1
    /\ \/ hist[rev] \in Oversized /\ UNCHANGED pushes
       \/ /\ hist[rev] \notin Oversized /\ Cardinality(pushes) < MaxPushes
          /\ \E r \in 0..rev : pushes' = pushes \union {[rev |-> r, fobs |-> hist[rev], key |-> key]}
    /\ UNCHANGED <<d1Vars, row, syncVars, swipeVars>>

(* pushFobs reads D1 in one batch; the PUT is then in flight.  More than   *)
(* 512 fobs, and every other failure, is logged and forgotten.             *)
PushStart ==
    /\ owed > 0 /\ owed' = owed - 1
    /\ \/ hist[rev] \in Oversized /\ UNCHANGED pushes
       \/ /\ hist[rev] \notin Oversized /\ Cardinality(pushes) < MaxPushes
          /\ pushes' = pushes \union {[rev |-> rev, fobs |-> hist[rev], key |-> key]}
    /\ UNCHANGED <<d1Vars, row, syncVars, swipeVars>>

\* D1 or the signing key fails, or the Worker is evicted before the read.
PushDies ==
    /\ owed > 0 /\ owed' = owed - 1
    /\ UNCHANGED <<d1Vars, pushes, row, syncVars, swipeVars>>

(* The PUT times out, is refused by the edge's token check, or the edge's  *)
(* database rejects it.                                                    *)
PushLost ==
    /\ \E m \in pushes : pushes' = pushes \ {m}
    /\ UNCHANGED <<d1Vars, owed, row, syncVars, swipeVars>>

-----------------------------------------------------------------------------
(* The edge: putFobs *)

\* Mutant: the list is replaced whatever its revision.
UpsertAlways(m) ==
    IF row = NoRow THEN m
    ELSE [rev |-> IF m.rev > row.rev THEN m.rev ELSE row.rev, fobs |-> m.fobs, key |-> m.key]

\* Mutant: the last push wins, revision and all.
UpsertLatest(m) == m

(* fobs only if the push is not older, revision = max of both, key always. *)
Upsert(m) ==
    IF row = NoRow THEN m
    ELSE [rev  |-> IF m.rev > row.rev THEN m.rev ELSE row.rev,
          fobs |-> IF m.rev >= row.rev THEN m.fobs ELSE row.fobs,
          key  |-> m.key]

PutFobs(m) ==
    /\ m \in pushes
    /\ pushes' = pushes \ {m}
    /\ row' = Upsert(m)
    /\ stale' = FALSE
    /\ UNCHANGED <<d1Vars, owed, edgeWait, workerWait, swipeVars>>

-----------------------------------------------------------------------------
(* The edge: asking for a push it may have missed *)

\* Mutant: an edge that has a list never asks.
SyncDueWithoutList == stale /\ ~edgeWait /\ row = NoRow

SyncDue == stale /\ ~edgeWait

(* requestSyncIfStale and edgeSyncRequest: the edge notes the attempt      *)
(* before sending it; the Worker accepts one request in ten minutes and    *)
(* pushes, answers 429 to others, and may not be reached at all.           *)
RequestSync ==
    /\ SyncDue
    /\ edgeWait' = TRUE
    /\ \/ ~workerWait /\ workerWait' = TRUE /\ CallPushFobs
       \/ UNCHANGED <<workerWait, owed>>
    /\ UNCHANGED <<d1Vars, pushes, row, stale, swipeVars>>

SyncAccepted == RequestSync /\ owed' > owed

HoursPass ==
    /\ ~stale /\ stale' = TRUE
    /\ UNCHANGED <<d1Vars, owed, pushes, row, edgeWait, workerWait, swipeVars>>

EdgeWaitOver ==
    /\ edgeWait /\ edgeWait' = FALSE
    /\ UNCHANGED <<d1Vars, owed, pushes, row, stale, workerWait, swipeVars>>

WorkerWaitOver ==
    /\ workerWait /\ workerWait' = FALSE
    /\ UNCHANGED <<d1Vars, owed, pushes, row, stale, edgeWait, swipeVars>>

-----------------------------------------------------------------------------
(* The edge: swipe uploads, as far as the list and the key are concerned *)

\* controller stores swipes only once the edge has a list.
SwipesArrive ==
    /\ row # NoRow /\ ~pending /\ pending' = TRUE
    /\ UNCHANGED <<d1Vars, owed, pushes, row, syncVars, upload>>

UploadStart ==
    /\ pending /\ upload = NoUpload
    /\ upload' = [key |-> row.key, rev |-> row.rev]
    /\ UNCHANGED <<d1Vars, owed, pushes, row, syncVars, pending>>

\* verifyEdgeKey fails: 401, and the edge marks itself stale.
UploadRefused ==
    /\ upload # NoUpload /\ upload.key # key
    /\ upload' = NoUpload /\ stale' = TRUE
    /\ UNCHANGED <<d1Vars, owed, pushes, row, edgeWait, workerWait, pending>>

(* swipeWebhook stores the batch and pushes when the edge names another    *)
(* revision; the 204 may be lost on its way back.                          *)
UploadAccepted ==
    /\ upload # NoUpload /\ upload.key = key
    /\ IF upload.rev = rev THEN UNCHANGED owed ELSE CallPushFobs
    /\ upload' = NoUpload
    /\ pending' \in {TRUE, FALSE}
    /\ UNCHANGED <<d1Vars, pushes, row, syncVars>>

UploadLost ==
    /\ upload # NoUpload /\ upload' = NoUpload
    /\ UNCHANGED <<d1Vars, owed, pushes, row, syncVars, pending>>

(* The edge restarts: the row is in SQLite, lastPush and lastSyncRequest   *)
(* are in memory.                                                          *)
EdgeRestart ==
    /\ stale' = TRUE /\ edgeWait' = FALSE /\ upload' = NoUpload
    /\ UNCHANGED <<d1Vars, owed, pushes, row, workerWait, pending>>

Next ==
    \/ AccessChange \/ RotateKey
    \/ PushStart \/ PushDies \/ PushLost
    \/ \E m \in pushes : PutFobs(m)
    \/ RequestSync \/ HoursPass \/ EdgeWaitOver \/ WorkerWaitOver
    \/ SwipesArrive \/ UploadStart \/ UploadRefused \/ UploadAccepted \/ UploadLost
    \/ EdgeRestart

Spec == Init /\ [][Next]_vars

Current(m) == m.rev = rev /\ m.key = key

(* Clocks advance; an outdated push is delivered or given up after ten     *)
(* seconds; sync requests, reads of D1 and pushes succeed again and again  *)
(* if they are attempted again and again.                                  *)
Fairness ==
    /\ WF_vars(HoursPass) /\ WF_vars(EdgeWaitOver) /\ WF_vars(WorkerWaitOver)
    /\ WF_vars(\E m \in pushes : ~Current(m) /\
                 (PutFobs(m) \/ (pushes' = pushes \ {m} /\ PushLost)))
    /\ SF_vars(SyncAccepted)
    /\ SF_vars(PushStart)
    /\ SF_vars(\E m \in pushes : Current(m) /\ PutFobs(m))

FairSpec == Spec /\ Fairness

-----------------------------------------------------------------------------
(* Properties *)

(* The edge's list is exactly the one D1 had at the edge's revision, and   *)
(* so is every list on its way there: no interleaving of membership        *)
(* writes, pushes and deliveries pairs a revision with another list        *)
(* (edge.tsx: "the revision describes exactly these fobs").                *)
Matches(m) == m.rev \in 0..rev /\ m.fobs = hist[m.rev]

ListMatchesRevision ==
    /\ \A m \in pushes : Matches(m)
    /\ row # NoRow => Matches(row)

(* The edge implements the abstract list holder: its list is always one    *)
(* that was authorized, and never an older one than before (main.go:       *)
(* "concurrent or reordered pushes cannot regress the list").              *)
Abstract == INSTANCE AuthorizedList WITH
    heldRev <- IF row = NoRow THEN -1 ELSE row.rev,
    held    <- IF row = NoRow THEN NoRow ELSE row.fobs,
    NoList  <- NoRow

NeverRegresses == Abstract!Spec

(* Once access changes and key rotations stop and the list fits the edge,  *)
(* the edge ends up with the current list and the current key for good,    *)
(* however many pushes were lost, even if a late push brought an old key.  *)
Converges ==
    <>[](hist[rev] \notin Oversized) =>
        <>[](row # NoRow /\ row.rev = rev /\ row.fobs = hist[rev] /\ row.key = key)

=============================================================================
