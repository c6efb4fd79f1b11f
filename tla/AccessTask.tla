----------------------------- MODULE AccessTask -----------------------------
(***************************************************************************)
(* The door's decision loop and its handshake with the sync loop:          *)
(* wiegand_task, access_task, sync_task and their channels and signals     *)
(* (access-controller/src/main.rs).  What a sync does to flash and to the  *)
(* event ring is in ControllerSync.                                        *)
(*                                                                         *)
(* A read that is not in the cached list is denied, a sync is requested,   *)
(* and the read is looked up again when a sync that started after the      *)
(* denial completes.  A signal holds only its latest value.  select3 looks *)
(* at the reads before the completion.  The executor is cooperative, and   *)
(* access_task yields only when it has nothing to do, so no second passes  *)
(* while a read or a completion waits.  Durations are kept as the seconds  *)
(* that remain, sync numbers modulo SyncMod.                               *)
(***************************************************************************)
EXTENDS Integers, Sequences

CONSTANTS
    Reads,       \* distinct cards held to the reader
    IdsOf(_),    \* the two ids a read is looked up by: fob number, NFC UID
    EdgeLists,   \* sets of ids the edge can serve
    None,        \* no pending read, no signal, no answer
    ChannelCap,  \* capacity of WIEGAND_CHANNEL (16)
    Window,      \* RECHECK_WINDOW in seconds (10)
    Interval,    \* seconds between syncs (10)
    SyncMod      \* sync numbers wrap at SyncMod (2^32)

ASSUME ConstantsAssumption ==
    /\ ChannelCap \in Nat \ {0} /\ Window \in Nat /\ Interval \in Nat \ {0}
    /\ SyncMod \in Nat /\ SyncMod >= 4 /\ SyncMod % 2 = 0

VARIABLES
    channel,   \* WIEGAND_CHANNEL
    pending,   \* the denied read to check again
    backoff,   \* seconds until reads count again
    failures,  \* consecutive misses that survived a sync, 3 for 3 and more
    started,   \* SYNC_STARTED
    complete,  \* SYNC_COMPLETE, with whether that sync brought a list
    requested, \* SYNC_REQUEST
    running,   \* sync number started is in progress
    answer,    \* the list the edge answered it with
    timer,     \* seconds until the next sync
    fobs,      \* FOBS
    edge,      \* the list the edge serves
    outcome    \* what access_task last did

readerVars == <<channel>>
accessVars == <<pending, backoff, failures>>
syncVars   == <<started, running, answer, timer>>
vars == <<readerVars, accessVars, complete, requested, syncVars, fobs, edge, outcome>>

SyncNumber == 0..SyncMod - 1
BackoffSeconds == 2 ^ failures'
Authorized(read, list) == IdsOf(read) \intersect list # {}

ASSUME NoneAssumption == None \notin [id : SyncNumber, ok : BOOLEAN]

TypeOK ==
    /\ channel \in Seq(Reads) /\ Len(channel) <= ChannelCap
    /\ pending \in [read : Reads, left : -1..Window, nextSync : SyncNumber,
                    listed : BOOLEAN] \union {None}
    /\ backoff \in 0..8 /\ failures \in 0..3
    /\ started \in SyncNumber
    /\ complete \in [id : SyncNumber, ok : BOOLEAN] \union {None}
    /\ requested \in BOOLEAN /\ running \in BOOLEAN
    /\ answer \in EdgeLists \union {None}
    /\ timer \in 0..Interval
    /\ edge \in EdgeLists /\ fobs \in EdgeLists
    /\ outcome \in {"none", "granted", "denied", "ignored", "unlocked"}

Init ==
    /\ channel = <<>>
    /\ pending = None /\ backoff = 0 /\ failures = 0
    /\ started = 0 /\ complete = None /\ requested = FALSE
    /\ running = FALSE /\ answer = None /\ timer = 0
    /\ edge \in EdgeLists /\ fobs \in EdgeLists
    /\ outcome = "none"

-----------------------------------------------------------------------------
(* wiegand_task: forward a read, or drop it when the channel is full *)

Swipe ==
    /\ \E r \in Reads : channel' = IF Len(channel) < ChannelCap THEN Append(channel, r) ELSE channel
    /\ UNCHANGED <<accessVars, complete, requested, syncVars, fobs, edge, outcome>>

-----------------------------------------------------------------------------
(* access_task *)

\* Mutant: the number of the sync in progress.
CurrentSync == started

\* Mutant: the number is not reduced when it wraps.
NextSyncUnwrapped == started + 1

NextSync == (started + 1) % SyncMod

\* The ghost field `listed` tells whether the edge has listed the read ever
\* since the denial.
Deny(read) ==
    /\ pending' = [read |-> read, left |-> Window, nextSync |-> NextSync,
                   listed |-> Authorized(read, edge)]
    /\ requested' = TRUE
    /\ outcome' = "denied"
    /\ UNCHANGED <<backoff, failures>>

\* grant opens the door and records the event; pending is left alone.
Grant ==
    /\ failures' = 0 /\ outcome' = "granted"
    /\ UNCHANGED <<backoff, requested>>

\* Mutant: the backoff is not consulted.
ReadsAlwaysCount == TRUE

ReadsCount == backoff = 0

TakeRead ==
    /\ channel # <<>> /\ channel' = Tail(channel)
    /\ \/ /\ ReadsCount /\ Authorized(Head(channel), fobs)
          /\ Grant /\ UNCHANGED pending
       \/ /\ ReadsCount /\ ~Authorized(Head(channel), fobs)
          /\ Deny(Head(channel))
       \/ /\ ~ReadsCount
          /\ outcome' = "ignored" /\ UNCHANGED <<accessVars, requested>>
    /\ UNCHANGED <<complete, syncVars, fobs, edge>>

\* (sync.wrapping_sub(next_sync) as i32) < 0
Before(sync, nextSync) == (sync - nextSync + SyncMod) % SyncMod >= SyncMod \div 2

\* Mutant: a failed sync does not count.
RecheckDueIfListed ==
    /\ channel = <<>> /\ complete # None /\ pending # None
    /\ complete.ok /\ ~Before(complete.id, pending.nextSync)

RecheckDue ==
    /\ channel = <<>> /\ complete # None /\ pending # None
    /\ ~Before(complete.id, pending.nextSync)

\* Nothing is pending, or the sync was in flight at the denial: wait on.
IgnoreComplete ==
    /\ channel = <<>> /\ complete # None /\ ~RecheckDue
    /\ complete' = None
    /\ outcome' = "none"
    /\ UNCHANGED <<readerVars, accessVars, requested, syncVars, fobs, edge>>

Recheck ==
    /\ RecheckDue
    /\ complete' = None /\ pending' = None
    /\ \/ /\ pending.left < 0 /\ outcome' = "none"
          /\ UNCHANGED <<backoff, failures, requested>>
       \/ /\ pending.left >= 0 /\ Authorized(pending.read, fobs) /\ Grant
       \/ /\ pending.left >= 0 /\ ~Authorized(pending.read, fobs)
          /\ failures' = IF failures < 3 THEN failures + 1 ELSE 3
          /\ backoff' = BackoffSeconds
          /\ outcome' = "denied" /\ UNCHANGED requested
    /\ UNCHANGED <<readerVars, syncVars, fobs, edge>>

(* POST /unlock grants without a read. *)
ManualUnlock ==
    /\ outcome' = "unlocked"
    /\ UNCHANGED <<readerVars, accessVars, complete, requested, syncVars, fobs, edge>>

-----------------------------------------------------------------------------
(* sync_task *)

\* Mutant: a request that comes while a sync runs is taken as answered by it.
RequestAfterSync == FALSE

RequestKept == requested

(* select(Timer, SYNC_REQUEST): the timer is looked at first and leaves    *)
(* the request in place.                                                   *)
SyncStart ==
    /\ ~running
    /\ \/ timer = 0 /\ UNCHANGED requested
       \/ timer > 0 /\ requested /\ requested' = FALSE
    /\ started' = (started + 1) % SyncMod
    /\ running' = TRUE /\ answer' = None
    /\ UNCHANGED <<readerVars, accessVars, complete, timer, fobs, edge, outcome>>

EdgeAnswers ==
    /\ running /\ answer = None /\ answer' = edge
    /\ UNCHANGED <<readerVars, accessVars, complete, requested, started, running,
                   timer, fobs, edge, outcome>>

(* The completion is signalled whether the sync brought a list or not, and *)
(* replaces one that has not been looked at.                               *)
SyncComplete ==
    /\ running /\ running' = FALSE /\ timer' = Interval
    /\ \/ answer # None /\ fobs' = answer /\ complete' = [id |-> started, ok |-> TRUE]
       \/ UNCHANGED fobs /\ complete' = [id |-> started, ok |-> FALSE]
    /\ answer' = None
    /\ requested' = RequestKept
    /\ UNCHANGED <<readerVars, accessVars, started, edge, outcome>>

-----------------------------------------------------------------------------
EdgeListChanges ==
    /\ edge' \in EdgeLists \ {edge}
    /\ pending' = IF pending = None THEN None
                  ELSE [pending EXCEPT !.listed = @ /\ Authorized(pending.read, edge')]
    /\ UNCHANGED <<readerVars, backoff, failures, complete, requested, syncVars, fobs, outcome>>

Tick ==
    /\ channel = <<>> /\ complete = None
    /\ pending' = IF pending = None \/ pending.left < 0 THEN pending
                  ELSE [pending EXCEPT !.left = @ - 1]
    /\ backoff' = IF backoff > 0 THEN backoff - 1 ELSE 0
    /\ timer' = IF timer > 0 THEN timer - 1 ELSE 0
    /\ UNCHANGED <<readerVars, failures, complete, requested, started, running, answer,
                   fobs, edge, outcome>>

Next ==
    \/ Swipe \/ TakeRead \/ IgnoreComplete \/ Recheck \/ ManualUnlock
    \/ SyncStart \/ EdgeAnswers \/ SyncComplete
    \/ EdgeListChanges \/ Tick

Spec == Init /\ [][Next]_vars

(* Tasks run when they can, time passes, and with_timeout ends every sync. *)
FairSpec ==
    /\ Spec
    /\ WF_vars(TakeRead) /\ WF_vars(IgnoreComplete) /\ WF_vars(Recheck)
    /\ WF_vars(SyncStart) /\ WF_vars(SyncComplete) /\ WF_vars(Tick)

-----------------------------------------------------------------------------
(* Properties *)

(* A pending read never waits for a wake-up that was lost: the sync it     *)
(* waits for is requested, or is running, or has signalled a completion    *)
(* that will count - although both signals hold one value and are written  *)
(* and taken at any time by the other task.                                *)
PendingHasResolver ==
    pending # None =>
        \/ requested /\ pending.nextSync = NextSync
        \/ running /\ pending.nextSync = started
        \/ complete # None /\ ~Before(complete.id, pending.nextSync)

(* A newly added fob works on the first swipe: if the edge has listed the  *)
(* read ever since the denial, a successful sync within the window grants  *)
(* it (main.rs:262-263).  A sync in flight at the denial must not be the   *)
(* one that decides.                                                       *)
FirstSwipeWorks ==
    [][RecheckDue /\ Recheck /\ complete.ok /\ pending.left >= 0 /\ pending.listed
        => outcome' = "granted"]_vars

(* No read waits for a re-check while a backoff runs, so neither a new     *)
(* read nor an old one can be granted or start another sync before it      *)
(* ends (main.rs:264-265).                                                 *)
BackoffIsQuiet == backoff > 0 => pending = None

(* If no more reads come, the last denied one is settled.                  *)
PendingSettled == <>[][~TakeRead]_vars => <>[](pending = None)

=============================================================================
