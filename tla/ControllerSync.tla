--------------------------- MODULE ControllerSync ---------------------------
(***************************************************************************)
(* One access controller's sync loop: the authorized list in RAM and in    *)
(* its two flash sectors, the ETag that stands for it, and the ring of     *)
(* swipe events waiting for the edge (access-controller/src/sync.rs,       *)
(* cache_store.rs, and boot and sync_task of main.rs).                     *)
(*                                                                         *)
(* The executor is cooperative and saving never awaits, so events arrive   *)
(* only between syncs or while one waits for the network.  Power can fail  *)
(* anywhere.  A list stands for its own ETag, the hash of its content.     *)
(***************************************************************************)
EXTENDS Integers, Sequences

CONSTANTS
    Lists,        \* the fob lists the edge can serve
    EmptyList,    \* the list without fobs
    Blank,        \* a sector read_slot rejects: erased, torn or never written
    NoEtag,       \* the empty ETag
    NotModified,  \* a 304 answer
    NoAnswer,     \* the edge has not answered yet
    MAX_EVENTS,   \* capacity of the event ring
    MaxPushed,    \* bound: events recorded between two boots
    MaxFlashFaults,  \* bound: flash operations that fail
    MaxPowerLosses   \* bound: power losses and resets

ASSUME ListsAssumption ==
    /\ EmptyList \in Lists
    /\ Blank \notin Lists /\ NoEtag \notin Lists
    /\ NotModified \notin Lists /\ NoAnswer \notin Lists
    /\ NoAnswer # NotModified
ASSUME BoundsAssumption ==
    /\ MAX_EVENTS \in Nat \ {0} /\ MaxPushed \in Nat
    /\ MaxFlashFaults \in Nat /\ MaxPowerLosses \in Nat

VARIABLES
    fobs,       \* FOBS: the list the door is checked against
    etag,       \* ETag of the last list that was persisted
    slot,       \* the two sectors of the cache partition
    pc,         \* where sync_task stands
    writing,    \* the sector being saved
    queue,      \* EVENTS.queue; an event is its number since boot
    frontSeq,   \* EVENTS.front_seq
    request,    \* the POST in progress: what was sent, up to which event
    answer,     \* the edge's answer to it
    served,     \* the edge's current list
    pushed,     \* how many events this boot recorded
    committed,  \* events the edge has stored
    overflowed, \* events the full ring dropped
    flashFaults,  \* flash operations that failed so far
    powerLosses   \* power losses and resets so far

listVars  == <<fobs, etag, slot, writing>>
eventVars == <<queue, frontSeq, pushed, overflowed>>
edgeVars  == <<request, answer, committed>>
faultVars == <<flashFaults, powerLosses>>
vars == <<listVars, pc, eventVars, edgeVars, served, faultVars>>

Slots == {1, 2}
NoRequest == [events |-> <<>>, endSeq |-> 0, ifNoneMatch |-> NoEtag]

TypeOK ==
    /\ fobs \in Lists /\ served \in Lists
    /\ etag \in Lists \union {NoEtag}
    /\ slot \in [Slots -> Lists \union {Blank}]
    /\ pc \in {"idle", "exchange", "erase", "program"}
    /\ writing \in Slots
    /\ queue \in Seq(Nat) /\ Len(queue) <= MAX_EVENTS
    /\ frontSeq \in Nat /\ pushed \in Nat
    /\ flashFaults \in Nat /\ powerLosses \in Nat
    /\ request \in [events : Seq(Nat), endSeq : Nat, ifNoneMatch : Lists \union {NoEtag}]
    /\ answer \in Lists \union {NotModified, NoAnswer}
    /\ committed \subseteq Nat /\ overflowed \subseteq Nat

-----------------------------------------------------------------------------
(* cache_store.rs: loading and comparing the two copies *)

Load(s) == IF s[1] # Blank THEN s[1]
           ELSE IF s[2] # Blank THEN s[2] ELSE EmptyList

\* Mutant: the new list is compared with the one in RAM.
IsCurrentInRAM(list) == fobs = list

\* Mutant: one good copy counts as current.
IsCurrentOnce(list) == \E i \in Slots : slot[i] = list

IsCurrent(list) == \A i \in Slots : slot[i] = list

-----------------------------------------------------------------------------
(* The event ring *)

Init ==
    /\ slot \in [Slots -> {Blank}] \union {[i \in Slots |-> l] : l \in Lists}
    /\ fobs = Load(slot)
    /\ etag = NoEtag
    /\ pc = "idle" /\ writing = 1
    /\ queue = <<>> /\ frontSeq = 0 /\ pushed = 0 /\ overflowed = {}
    /\ request = NoRequest /\ answer = NoAnswer /\ committed = {}
    /\ served \in Lists
    /\ flashFaults = 0 /\ powerLosses = 0

\* Mutant: dropping the oldest event does not renumber the front.
PushUncounted ==
    /\ pc \in {"idle", "exchange"} /\ pushed < MaxPushed
    /\ pushed' = pushed + 1
    /\ queue' = Append(IF Len(queue) = MAX_EVENTS THEN Tail(queue) ELSE queue, pushed')
    /\ overflowed' = IF Len(queue) = MAX_EVENTS THEN overflowed \union {Head(queue)}
                     ELSE overflowed
    /\ UNCHANGED <<frontSeq, listVars, pc, edgeVars, served, faultVars>>

(* Events::push, for a swipe or a manual unlock; fob 0 is not queued. *)
Push ==
    /\ pc \in {"idle", "exchange"} /\ pushed < MaxPushed
    /\ pushed' = pushed + 1
    /\ \/ /\ Len(queue) < MAX_EVENTS
          /\ queue' = Append(queue, pushed')
          /\ UNCHANGED <<frontSeq, overflowed>>
       \/ /\ Len(queue) = MAX_EVENTS
          /\ queue' = Append(Tail(queue), pushed')
          /\ frontSeq' = frontSeq + 1
          /\ overflowed' = overflowed \union {Head(queue)}
    /\ UNCHANGED <<listVars, pc, edgeVars, served, faultVars>>

\* Events::ack pops while front_seq < end_seq and the queue is not empty.
Acked(endSeq) == IF endSeq <= frontSeq THEN 0
                 ELSE IF endSeq - frontSeq < Len(queue) THEN endSeq - frontSeq
                 ELSE Len(queue)

Ack(endSeq) ==
    /\ queue' = SubSeq(queue, Acked(endSeq) + 1, Len(queue))
    /\ frontSeq' = frontSeq + Acked(endSeq)
    /\ UNCHANGED <<pushed, overflowed>>

-----------------------------------------------------------------------------
(* One sync round trip *)

SyncStart ==
    /\ pc = "idle"
    /\ pc' = "exchange"
    /\ request' = [events |-> queue, endSeq |-> frontSeq + Len(queue), ifNoneMatch |-> etag]
    /\ answer' = NoAnswer
    /\ UNCHANGED <<listVars, eventVars, committed, served, faultVars>>

(* The edge stores the whole batch before it answers 200 or 304. *)
EdgeAnswers ==
    /\ pc = "exchange" /\ answer = NoAnswer
    /\ committed' = committed \union {request.events[i] : i \in 1..Len(request.events)}
    /\ answer' = IF request.ifNoneMatch = served THEN NotModified ELSE served
    /\ UNCHANGED <<listVars, pc, eventVars, request, served, faultVars>>

(* Connect, write or read fails, the 30 s limit cancels the exchange, or   *)
(* the answer is another status or not a list: nothing has changed yet.    *)
ExchangeFails ==
    /\ pc = "exchange"
    /\ pc' = "idle" /\ request' = NoRequest /\ answer' = NoAnswer
    /\ UNCHANGED <<listVars, eventVars, committed, served, faultVars>>

Receive304 ==
    /\ pc = "exchange" /\ answer = NotModified
    /\ Ack(request.endSeq)
    /\ pc' = "idle" /\ request' = NoRequest /\ answer' = NoAnswer
    /\ UNCHANGED <<listVars, committed, served, faultVars>>

Receive200 ==
    /\ pc = "exchange" /\ answer \in Lists
    /\ fobs' = answer
    /\ Ack(request.endSeq)
    /\ IF IsCurrent(answer)
       THEN pc' = "idle" /\ etag' = answer
       ELSE pc' = "erase" /\ etag' = NoEtag
    /\ writing' = 1
    /\ request' = NoRequest /\ answer' = NoAnswer
    /\ UNCHANGED <<slot, committed, served, faultVars>>

-----------------------------------------------------------------------------
(* save: for each sector, erase, program, read back *)

SaveUnchanged == UNCHANGED <<fobs, eventVars, edgeVars, served>>

EraseSlot ==
    /\ pc = "erase"
    /\ slot' = [slot EXCEPT ![writing] = Blank]
    /\ pc' = "program"
    /\ SaveUnchanged /\ UNCHANGED <<etag, writing, faultVars>>

ProgramSlot ==
    /\ pc = "program"
    /\ slot' = [slot EXCEPT ![writing] = fobs]
    /\ \/ writing = 1 /\ writing' = 2 /\ pc' = "erase" /\ UNCHANGED etag
       \/ writing = 2 /\ pc' = "idle" /\ etag' = fobs /\ UNCHANGED writing
    /\ SaveUnchanged /\ UNCHANGED faultVars

\* Mutant: a failed save of the backup is ignored and the ETag adopted.
SaveFailsSilently ==
    /\ pc \in {"erase", "program"} /\ flashFaults < MaxFlashFaults
    /\ slot' = [slot EXCEPT ![writing] = Blank]
    /\ pc' = "idle" /\ flashFaults' = flashFaults + 1 /\ etag' = fobs
    /\ SaveUnchanged /\ UNCHANGED <<writing, powerLosses>>

\* Mutant: a failed save of the primary goes on with the backup.
SaveFailsGoesOn ==
    /\ pc \in {"erase", "program"} /\ flashFaults < MaxFlashFaults
    /\ slot' = [slot EXCEPT ![writing] = Blank]
    /\ IF writing = 1 THEN pc' = "erase" /\ writing' = 2 ELSE pc' = "idle" /\ UNCHANGED writing
    /\ flashFaults' = flashFaults + 1
    /\ SaveUnchanged /\ UNCHANGED <<etag, powerLosses>>

(* Erase, program or the read-back fails: sync returns an error and the    *)
(* ETag stays empty.  The sector is what it was, or unreadable, or has the *)
(* whole new list that the read-back failed to see.                        *)
SaveFails ==
    /\ pc \in {"erase", "program"} /\ flashFaults < MaxFlashFaults
    /\ \/ slot' \in {slot, [slot EXCEPT ![writing] = Blank]}
       \/ pc = "program" /\ slot' = [slot EXCEPT ![writing] = fobs]
    /\ pc' = "idle" /\ flashFaults' = flashFaults + 1
    /\ SaveUnchanged /\ UNCHANGED <<etag, writing, powerLosses>>

-----------------------------------------------------------------------------
(* Power loss, watchdog reset, panic or OTA restart, then boot: only flash *)
(* survives.                                                               *)

PowerLoss ==
    /\ powerLosses < MaxPowerLosses
    /\ powerLosses' = powerLosses + 1
    /\ fobs' = Load(slot) /\ etag' = NoEtag
    /\ pc' = "idle" /\ writing' = 1
    /\ queue' = <<>> /\ frontSeq' = 0 /\ pushed' = 0 /\ overflowed' = {}
    /\ request' = NoRequest /\ answer' = NoAnswer /\ committed' = {}
    /\ UNCHANGED <<slot, served, flashFaults>>

(* The Worker pushes another list to the edge. *)
EdgeListChanges ==
    /\ served' \in Lists \ {served}
    /\ UNCHANGED <<listVars, pc, eventVars, edgeVars, faultVars>>

SaveStep == EraseSlot \/ ProgramSlot
Receive  == Receive304 \/ Receive200

Next ==
    \/ Push \/ SyncStart \/ EdgeAnswers \/ ExchangeFails
    \/ Receive304 \/ Receive200
    \/ EraseSlot \/ ProgramSlot \/ SaveFails
    \/ PowerLoss \/ EdgeListChanges

Spec == Init /\ [][Next]_vars

(* sync_task loops forever, every 10 s at the latest; saving runs to its   *)
(* end; the network carries a request and an answer again and again.       *)
FairSpec ==
    /\ Spec
    /\ WF_vars(SyncStart) /\ WF_vars(SaveStep)
    /\ SF_vars(EdgeAnswers) /\ SF_vars(Receive)

-----------------------------------------------------------------------------
(* Properties *)

(* A non-empty ETag makes the edge answer 304 and send no list, so it may  *)
(* only be held for the list in force, and for one that a reboot will find *)
(* in either sector (sync.rs: "only adopted once the list is persisted").  *)
EtagMeansPersisted ==
    etag # NoEtag => fobs = etag /\ \A i \in Slots : slot[i] = etag

(* Every event recorded since boot is still queued, stored by the edge, or *)
(* was the oldest of a full ring: an acknowledgement never removes an      *)
(* event that the request it answers did not carry, even if the ring       *)
(* overflowed while the request was out (sync.rs: front_seq).              *)
NoSilentLoss ==
    \A n \in 1..pushed :
        \/ \E i \in 1..Len(queue) : queue[i] = n
        \/ n \in committed
        \/ n \in overflowed

(* The backup is touched only while the primary holds the new list, read   *)
(* back: a save that starts from two good copies can lose at most one.     *)
PrimaryVerifiedFirst ==
    pc \in {"erase", "program"} /\ writing = 2 => slot[1] = fobs

(* A list the edge keeps serving ends up in RAM and in both sectors, under *)
(* its ETag, whatever failed before: a failed save is tried again.         *)
Converges ==
    \A l \in Lists : <>[](served = l) =>
        <>[](fobs = l /\ etag = l /\ \A i \in Slots : slot[i] = l)

(* A controller whose two copies are both valid when it is first observed. *)
DeployedSpec == Init /\ (\A i \in Slots : slot[i] # Blank) /\ [][Next]_vars

(* cache_store.rs:6-7: "power loss mid-write always leaves at least one    *)
(* valid copy".  Checked from two valid copies.                            *)
PowerLossLeavesACopy ==
    [][PowerLoss => \E i \in Slots : slot'[i] # Blank]_vars

=============================================================================
