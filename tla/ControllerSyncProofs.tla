------------------------ MODULE ControllerSyncProofs ------------------------
(***************************************************************************)
(* Theorems about ControllerSync, for any lists, any ring capacity and any *)
(* number of swipes, flash faults and power losses.                        *)
(*                                                                         *)
(* Two invariants are strengthened.  For the flash: a save runs under an   *)
(* empty ETag, so adopting an ETag and having both copies are one step.    *)
(* For the ring: the queue holds consecutive event numbers, and a request  *)
(* covers everything between the front it started from and its end, so     *)
(* what an acknowledgement pops was in the request even if the front has   *)
(* moved meanwhile.                                                        *)
(***************************************************************************)
EXTENDS ControllerSync, SequenceTheorems, TLAPS

Saving == pc \in {"erase", "program"}

SaveInv ==
    /\ EtagMeansPersisted
    /\ PrimaryVerifiedFirst
    /\ Saving => etag = NoEtag

QueueInv ==
    /\ pushed = frontSeq + Len(queue)
    /\ \A i \in 1..Len(queue) : queue[i] = frontSeq + i
    /\ \A n \in 1..frontSeq : n \in committed \union overflowed

RequestInv ==
    pc = "exchange" =>
        /\ request.endSeq <= pushed
        /\ request.endSeq - Len(request.events) <= frontSeq
        /\ \A i \in 1..Len(request.events) :
              request.events[i] = request.endSeq - Len(request.events) + i
        /\ answer # NoAnswer =>
              \A i \in 1..Len(request.events) : request.events[i] \in committed

-----------------------------------------------------------------------------
(* Booting finds a list: cache_store::load.                                *)
LEMMA LoadType ==
    ASSUME NEW s \in [Slots -> Lists \union {Blank}]
    PROVE  Load(s) \in Lists
BY ListsAssumption DEF Load, Slots

(* An acknowledgement pops no more events than the queue has, and none     *)
(* beyond the end of the request: Events::ack.                             *)
LEMMA AckedBounds ==
    ASSUME NEW endSeq \in Nat, TypeOK
    PROVE  /\ Acked(endSeq) \in 0..Len(queue)
           /\ Acked(endSeq) > 0 => frontSeq + Acked(endSeq) <= endSeq
<1>1. Len(queue) \in Nat /\ frontSeq \in Nat
  BY DEF TypeOK
<1> QED
  BY <1>1 DEF Acked

(* A sequence without its first a elements.                                *)
LEMMA DropFirst ==
    ASSUME NEW s \in Seq(Nat), NEW a \in 0..Len(s)
    PROVE  /\ SubSeq(s, a + 1, Len(s)) \in Seq(Nat)
           /\ Len(SubSeq(s, a + 1, Len(s))) = Len(s) - a
           /\ \A i \in 1..Len(s) - a : SubSeq(s, a + 1, Len(s))[i] = s[i + a]
<1> DEFINE m == a + 1
<1>1. m \in Int /\ Len(s) \in Int /\ a \in Nat /\ a <= Len(s)
  OBVIOUS
<1>2. \A i \in m..Len(s) : s[i] \in Nat
  BY <1>1
<1>3. /\ SubSeq(s, m, Len(s)) \in Seq(Nat)
      /\ Len(SubSeq(s, m, Len(s))) = IF m <= Len(s) THEN Len(s) - m + 1 ELSE 0
      /\ \A i \in 1..Len(s) - m + 1 : SubSeq(s, m, Len(s))[i] = s[m + i - 1]
  <2> HIDE DEF m
  <2> QED BY <1>1, <1>2, SubSeqProperties
<1>4. Len(s) - m + 1 = Len(s) - a
  BY <1>1
<1>5. \A i \in 1..Len(s) - a : m + i - 1 = i + a
  BY <1>1
<1>6. (IF m <= Len(s) THEN Len(s) - m + 1 ELSE 0) = Len(s) - a
  BY <1>1
<1> QED
  BY <1>3, <1>4, <1>5, <1>6

(* What is left of the queue after an acknowledgement.                     *)
LEMMA AckQueue ==
    ASSUME NEW endSeq \in Nat, TypeOK, Ack(endSeq)
    PROVE  /\ queue' \in Seq(Nat)
           /\ Len(queue') = Len(queue) - Acked(endSeq)
           /\ \A i \in 1..Len(queue') : queue'[i] = queue[i + Acked(endSeq)]
           /\ frontSeq' = frontSeq + Acked(endSeq)
<1>1. Acked(endSeq) \in 0..Len(queue) /\ Len(queue) \in Nat /\ queue \in Seq(Nat)
  BY AckedBounds DEF TypeOK
<1>2. queue' = SubSeq(queue, Acked(endSeq) + 1, Len(queue)) /\ frontSeq' = frontSeq + Acked(endSeq)
  BY DEF Ack
<1> QED
  BY <1>1, <1>2, DropFirst

(* What is left of the queue after a swipe: the new event is last, and a   *)
(* full ring has lost its first (Events::push).                            *)
LEMMA PushQueue ==
    ASSUME TypeOK, Push
    PROVE  /\ queue' \in Seq(Nat) /\ Len(queue') \in 1..MAX_EVENTS
           /\ queue'[Len(queue')] = pushed + 1
           /\ \/ /\ Len(queue') = Len(queue) + 1
                 /\ \A i \in 1..Len(queue) : queue'[i] = queue[i]
                 /\ frontSeq' = frontSeq /\ overflowed' = overflowed
              \/ /\ Len(queue') = Len(queue)
                 /\ \A i \in 1..Len(queue) - 1 : queue'[i] = queue[i + 1]
                 /\ frontSeq' = frontSeq + 1
                 /\ overflowed' = overflowed \union {queue[1]}
<1>1. queue \in Seq(Nat) /\ Len(queue) \in Nat /\ pushed' \in Nat /\ pushed' = pushed + 1
  BY DEF Push, TypeOK
<1>2. CASE Len(queue) < MAX_EVENTS
  <2>1. queue' = Append(queue, pushed') /\ frontSeq' = frontSeq /\ overflowed' = overflowed
    BY <1>2 DEF Push
  <2>2. /\ queue' \in Seq(Nat) /\ Len(queue') = Len(queue) + 1
        /\ \A i \in 1..Len(queue) : queue'[i] = queue[i]
        /\ queue'[Len(queue) + 1] = pushed'
    BY <1>1, <2>1, AppendProperties
  <2> QED
    BY <1>1, <1>2, <2>1, <2>2, BoundsAssumption
<1>3. CASE Len(queue) = MAX_EVENTS
  <2>1. /\ queue' = Append(Tail(queue), pushed') /\ frontSeq' = frontSeq + 1
        /\ overflowed' = overflowed \union {Head(queue)}
    BY <1>3 DEF Push
  <2>2. queue # <<>> /\ Head(queue) = queue[1]
    BY <1>1, <1>3, BoundsAssumption
  <2>3. /\ Tail(queue) \in Seq(Nat) /\ Len(Tail(queue)) = Len(queue) - 1
        /\ \A i \in 1..Len(Tail(queue)) : Tail(queue)[i] = queue[i + 1]
    BY <1>1, <2>2, HeadTailProperties
  <2>4. /\ queue' \in Seq(Nat) /\ Len(queue') = Len(Tail(queue)) + 1
        /\ \A i \in 1..Len(Tail(queue)) : queue'[i] = Tail(queue)[i]
        /\ queue'[Len(Tail(queue)) + 1] = pushed'
    BY <1>1, <2>1, <2>3, AppendProperties
  <2> QED
    BY <1>1, <1>3, <2>1, <2>2, <2>3, <2>4, BoundsAssumption
<1> QED
  BY <1>1, <1>2, <1>3 DEF Push

(* An acknowledgement keeps the ring's types.                              *)
LEMMA AckType ==
    ASSUME NEW endSeq \in Nat, TypeOK, Ack(endSeq)
    PROVE  queue' \in Seq(Nat) /\ Len(queue') <= MAX_EVENTS /\ frontSeq' \in Nat
<1>1. /\ queue' \in Seq(Nat) /\ Len(queue') = Len(queue) - Acked(endSeq)
      /\ frontSeq' = frontSeq + Acked(endSeq)
  BY AckQueue
<1>2. Acked(endSeq) \in Nat
  BY AckedBounds
<1>3. Len(queue) \in Nat /\ Len(queue) <= MAX_EVENTS /\ frontSeq \in Nat
  BY DEF TypeOK
<1> QED
  BY <1>1, <1>2, <1>3, BoundsAssumption

-----------------------------------------------------------------------------
(* Types *)

(* At boot everything has its type.                                        *)
LEMMA InitType == Init => TypeOK
<1> SUFFICES ASSUME Init PROVE TypeOK
  OBVIOUS
<1>1. slot \in [Slots -> Lists \union {Blank}]
  BY DEF Init
<1>2. fobs \in Lists
  BY <1>1, LoadType DEF Init
<1>3. queue \in Seq(Nat) /\ Len(queue) = 0 /\ NoRequest.events \in Seq(Nat)
  BY DEF Init, NoRequest
<1> QED
  BY <1>1, <1>2, <1>3, BoundsAssumption DEF Init, TypeOK, NoRequest, Slots

(* Every step keeps the types: the ring's by AckType and PushQueue.        *)
LEMMA NextType == TypeOK /\ [Next]_vars => TypeOK'
<1> SUFFICES ASSUME TypeOK, [Next]_vars PROVE TypeOK'
  OBVIOUS
<1> USE DEF listVars, eventVars, edgeVars, faultVars, NoRequest
<1>1. CASE Push
  <2>1. queue' \in Seq(Nat) /\ Len(queue') <= MAX_EVENTS
    BY <1>1, PushQueue, BoundsAssumption
  <2>2. frontSeq' \in Nat /\ pushed' \in Nat
    BY <1>1 DEF Push, TypeOK
  <2>3. overflowed' \subseteq Nat
    <3>1. Len(queue) = MAX_EVENTS => Head(queue) \in Nat
      BY BoundsAssumption DEF TypeOK
    <3> QED
      BY <1>1, <3>1 DEF Push, TypeOK
  <2> QED
    BY <1>1, <2>1, <2>2, <2>3 DEF Push, TypeOK
<1>2. CASE SyncStart
  BY <1>2 DEF SyncStart, TypeOK
<1>3. CASE EdgeAnswers
  <2>1. committed' \subseteq Nat
    <3>1. request.events \in Seq(Nat)
      BY DEF TypeOK
    <3>2. \A i \in 1..Len(request.events) : request.events[i] \in Nat
      BY <3>1
    <3> QED
      BY <1>3, <3>2 DEF EdgeAnswers, TypeOK
  <2>2. answer' \in Lists \union {NotModified, NoAnswer}
    BY <1>3 DEF EdgeAnswers, TypeOK
  <2> QED
    BY <1>3, <2>1, <2>2 DEF EdgeAnswers, TypeOK
<1>4. CASE ExchangeFails
  BY <1>4 DEF ExchangeFails, TypeOK
<1>5. CASE Receive304
  <2>1. request.endSeq \in Nat /\ Ack(request.endSeq)
    BY <1>5 DEF Receive304, TypeOK
  <2>2. queue' \in Seq(Nat) /\ Len(queue') <= MAX_EVENTS /\ frontSeq' \in Nat
    BY <2>1, AckType
  <2> QED
    BY <1>5, <2>1, <2>2 DEF Receive304, Ack, TypeOK
<1>6. CASE Receive200
  <2>1. request.endSeq \in Nat /\ Ack(request.endSeq)
    BY <1>6 DEF Receive200, TypeOK
  <2>2. queue' \in Seq(Nat) /\ Len(queue') <= MAX_EVENTS /\ frontSeq' \in Nat
    BY <2>1, AckType
  <2> QED
    BY <1>6, <2>1, <2>2 DEF Receive200, Ack, TypeOK, Slots
<1>7. CASE EraseSlot
  BY <1>7 DEF EraseSlot, SaveUnchanged, TypeOK
<1>8. CASE ProgramSlot
  BY <1>8 DEF ProgramSlot, SaveUnchanged, TypeOK, Slots
<1>9. CASE SaveFails
  BY <1>9 DEF SaveFails, SaveUnchanged, TypeOK
<1>10. CASE PowerLoss
  BY <1>10, LoadType, BoundsAssumption DEF PowerLoss, TypeOK, Slots
<1>11. CASE EdgeListChanges
  BY <1>11 DEF EdgeListChanges, TypeOK
<1>12. CASE UNCHANGED vars
  BY <1>12 DEF vars, TypeOK
<1> QED
  BY <1>1, <1>2, <1>3, <1>4, <1>5, <1>6, <1>7, <1>8, <1>9, <1>10, <1>11, <1>12 DEF Next

(* Every state has the right type; the ring never exceeds its capacity.    *)
THEOREM TypeCorrect == Spec => []TypeOK
BY InitType, NextType, PTL DEF Spec

-----------------------------------------------------------------------------
(* The flash *)

(* At boot the ETag is empty and nothing is being saved.                   *)
LEMMA InitSave == Init => SaveInv
BY DEF Init, SaveInv, EtagMeansPersisted, PrimaryVerifiedFirst, Saving

(* Only Receive200 opens a save, and it clears the ETag; only the last     *)
(* ProgramSlot of a save sets it.                                          *)
LEMMA NextSave == TypeOK /\ SaveInv /\ [Next]_vars => SaveInv'
<1> SUFFICES ASSUME TypeOK, SaveInv, [Next]_vars PROVE SaveInv'
  OBVIOUS
<1> USE DEF SaveInv, EtagMeansPersisted, PrimaryVerifiedFirst, Saving,
            listVars, eventVars, edgeVars, faultVars
<1>1. CASE Push \/ SyncStart \/ EdgeAnswers \/ ExchangeFails \/ Receive304
  BY <1>1 DEF Push, SyncStart, EdgeAnswers, ExchangeFails, Receive304
<1>2. CASE Receive200
  BY <1>2 DEF Receive200, IsCurrent
<1>3. CASE EraseSlot
  BY <1>3 DEF EraseSlot, SaveUnchanged, TypeOK, Slots
<1>4. CASE ProgramSlot
  BY <1>4 DEF ProgramSlot, SaveUnchanged, TypeOK, Slots
<1>5. CASE SaveFails
  BY <1>5 DEF SaveFails, SaveUnchanged, TypeOK
<1>6. CASE PowerLoss
  BY <1>6 DEF PowerLoss
<1>7. CASE EdgeListChanges \/ UNCHANGED vars
  BY <1>7 DEF EdgeListChanges, vars
<1> QED
  BY <1>1, <1>2, <1>3, <1>4, <1>5, <1>6, <1>7 DEF Next

(* The edge is told "unchanged" only for a list that is in force and in    *)
(* both sectors: sync adopts the ETag after save has verified both.        *)
THEOREM EtagMeansPersistedHolds == Spec => []EtagMeansPersisted
<1>1. SaveInv => EtagMeansPersisted
  BY DEF SaveInv
<1> QED
  BY InitType, NextType, InitSave, NextSave, <1>1, PTL DEF Spec

(* The backup is erased only after the primary holds the new list: save.   *)
THEOREM PrimaryVerifiedFirstHolds == Spec => []PrimaryVerifiedFirst
<1>1. SaveInv => PrimaryVerifiedFirst
  BY DEF SaveInv
<1> QED
  BY InitType, NextType, InitSave, NextSave, <1>1, PTL DEF Spec

-----------------------------------------------------------------------------
(* The event ring *)

(* At boot the ring is empty and no request is out.                        *)
LEMMA InitQueue == Init => QueueInv /\ RequestInv
<1> SUFFICES ASSUME Init PROVE QueueInv /\ RequestInv
  OBVIOUS
<1>1. Len(queue) = 0 /\ frontSeq = 0 /\ pushed = 0 /\ pc = "idle"
  BY DEF Init
<1> QED
  BY <1>1 DEF QueueInv, RequestInv

(* A swipe keeps the queue consecutive; what a full ring drops is counted. *)
LEMMA PushKeepsQueue ==
    ASSUME TypeOK, QueueInv, Push
    PROVE  QueueInv'
<1>1. /\ Len(queue) \in Nat /\ frontSeq \in Nat /\ pushed \in Nat
      /\ pushed' = pushed + 1 /\ committed' = committed
  BY DEF Push, TypeOK, edgeVars
<1>2. /\ pushed = frontSeq + Len(queue)
      /\ \A i \in 1..Len(queue) : queue[i] = frontSeq + i
      /\ \A n \in 1..frontSeq : n \in committed \union overflowed
  BY DEF QueueInv
<1>3. Len(queue') \in 1..MAX_EVENTS /\ queue'[Len(queue')] = pushed + 1
  BY PushQueue
<1>4. CASE /\ Len(queue') = Len(queue) + 1
           /\ \A i \in 1..Len(queue) : queue'[i] = queue[i]
           /\ frontSeq' = frontSeq /\ overflowed' = overflowed
  <2>1. \A i \in 1..Len(queue') : i = Len(queue') \/ i \in 1..Len(queue)
    BY <1>1, <1>4
  <2>2. \A i \in 1..Len(queue') : queue'[i] = frontSeq' + i
    BY <1>1, <1>2, <1>3, <1>4, <2>1
  <2> QED
    BY <1>1, <1>2, <1>4, <2>2 DEF QueueInv
<1>5. CASE /\ Len(queue') = Len(queue)
           /\ \A i \in 1..Len(queue) - 1 : queue'[i] = queue[i + 1]
           /\ frontSeq' = frontSeq + 1
           /\ overflowed' = overflowed \union {queue[1]}
  <2>1. Len(queue) \in 1..MAX_EVENTS
    BY <1>3, <1>5
  <2>2. queue[1] = frontSeq + 1
    BY <1>1, <1>2, <2>1, BoundsAssumption
  <2>3. \A i \in 1..Len(queue') : i = Len(queue') \/ (i \in 1..Len(queue) - 1 /\ i + 1 \in 1..Len(queue))
    BY <1>1, <1>5
  <2>4. \A i \in 1..Len(queue') : queue'[i] = frontSeq' + i
    <3> SUFFICES ASSUME NEW i \in 1..Len(queue') PROVE queue'[i] = frontSeq' + i
      OBVIOUS
    <3>1. CASE i = Len(queue')
      BY <1>1, <1>2, <1>3, <1>5, <3>1
    <3>2. CASE i \in 1..Len(queue) - 1 /\ i + 1 \in 1..Len(queue)
      BY <1>1, <1>2, <1>5, <3>2
    <3> QED
      BY <2>3, <3>1, <3>2
  <2>5. \A n \in 1..frontSeq' : n = frontSeq + 1 \/ n \in 1..frontSeq
    BY <1>1, <1>5
  <2>6. \A n \in 1..frontSeq' : n \in committed' \union overflowed'
    BY <1>1, <1>2, <1>5, <2>2, <2>5
  <2> QED
    BY <1>1, <1>2, <1>5, <2>4, <2>6 DEF QueueInv
<1> QED
  BY <1>4, <1>5, PushQueue

(* What an acknowledgement pops has been stored by the edge: it is behind  *)
(* the front the request started from, or in the request.                  *)
LEMMA AckKeepsQueue ==
    ASSUME TypeOK, QueueInv, RequestInv, pc = "exchange", answer # NoAnswer,
           Ack(request.endSeq), UNCHANGED committed
    PROVE  QueueInv'
<1> DEFINE e == request.endSeq
           k == Len(request.events)
           a == Acked(e)
<1>1. /\ e \in Nat /\ k \in Nat /\ Len(queue) \in Nat /\ frontSeq \in Nat /\ pushed \in Nat
      /\ Ack(e)
  BY DEF TypeOK
<1>2. /\ Len(queue') = Len(queue) - a
      /\ \A i \in 1..Len(queue') : queue'[i] = queue[i + a]
      /\ frontSeq' = frontSeq + a
  BY <1>1, AckQueue
<1>3. a \in 0..Len(queue) /\ (a > 0 => frontSeq + a <= e)
  BY <1>1, AckedBounds
<1>4. pushed' = pushed /\ overflowed' = overflowed
  BY DEF Ack
<1>5. /\ pushed = frontSeq + Len(queue)
      /\ \A i \in 1..Len(queue) : queue[i] = frontSeq + i
      /\ \A n \in 1..frontSeq : n \in committed \union overflowed
  BY DEF QueueInv
<1>6. /\ e - k <= frontSeq
      /\ \A i \in 1..k : e - k + i \in committed
  BY DEF RequestInv
<1> HIDE DEF e, k, a
<1>7. \A i \in 1..Len(queue') : i + a \in 1..Len(queue)
  BY <1>1, <1>2, <1>3
<1>8. \A i \in 1..Len(queue') : queue'[i] = frontSeq' + i
  BY <1>1, <1>2, <1>3, <1>5, <1>7
<1>9. \A n \in 1..frontSeq' : n \in 1..frontSeq \/ (n - (e - k) \in 1..k /\ n = e - k + (n - (e - k)))
  BY <1>1, <1>2, <1>3, <1>6
<1>10. \A n \in 1..frontSeq' : n \in committed \union overflowed
  BY <1>5, <1>6, <1>9
<1>11. pushed' = frontSeq' + Len(queue')
  BY <1>1, <1>2, <1>3, <1>4, <1>5
<1> QED
  BY <1>4, <1>8, <1>10, <1>11 DEF QueueInv

(* Every step keeps the queue consecutive and the request in line with it. *)
LEMMA NextQueue ==
    TypeOK /\ QueueInv /\ RequestInv /\ [Next]_vars => QueueInv' /\ RequestInv'
<1> SUFFICES ASSUME TypeOK, QueueInv, RequestInv, [Next]_vars
             PROVE  QueueInv' /\ RequestInv'
  OBVIOUS
<1> USE DEF listVars, eventVars, edgeVars, faultVars
<1>1. CASE Push
  <2>1. QueueInv'
    BY <1>1, PushKeepsQueue
  <2>2. pushed' >= pushed /\ frontSeq' >= frontSeq /\ UNCHANGED <<pc, request, answer, committed>>
    BY <1>1 DEF Push, TypeOK
  <2>3. request.endSeq \in Nat /\ Len(request.events) \in Nat /\ frontSeq \in Nat
        /\ frontSeq' \in Nat /\ pushed \in Nat /\ pushed' \in Nat
    BY <1>1 DEF Push, TypeOK
  <2> QED
    BY <2>1, <2>2, <2>3 DEF RequestInv
<1>2. CASE SyncStart
  <2>1. /\ request' = [events |-> queue, endSeq |-> frontSeq + Len(queue), ifNoneMatch |-> etag]
        /\ answer' = NoAnswer /\ UNCHANGED <<queue, frontSeq, pushed, overflowed, committed>>
    BY <1>2 DEF SyncStart
  <2>2. Len(queue) \in Nat /\ frontSeq \in Nat
    BY DEF TypeOK
  <2> QED
    BY <2>1, <2>2 DEF QueueInv, RequestInv
<1>3. CASE EdgeAnswers
  <2>1. /\ committed' = committed \union {request.events[i] : i \in 1..Len(request.events)}
        /\ UNCHANGED <<pc, queue, frontSeq, pushed, overflowed, request>>
    BY <1>3 DEF EdgeAnswers
  <2> QED
    BY <1>3, <2>1 DEF EdgeAnswers, QueueInv, RequestInv
<1>4. CASE ExchangeFails
  BY <1>4 DEF ExchangeFails, QueueInv, RequestInv
<1>5. CASE Receive304
  <2>1. answer # NoAnswer
    BY <1>5, ListsAssumption DEF Receive304
  <2>2. QueueInv'
    BY <1>5, <2>1, AckKeepsQueue DEF Receive304
  <2> QED
    BY <1>5, <2>2 DEF Receive304, RequestInv
<1>6. CASE Receive200
  <2>1. answer # NoAnswer
    BY <1>6, ListsAssumption DEF Receive200
  <2>2. QueueInv'
    BY <1>6, <2>1, AckKeepsQueue DEF Receive200
  <2> QED
    BY <1>6, <2>2 DEF Receive200, RequestInv
<1>7. CASE EraseSlot \/ ProgramSlot \/ SaveFails
  BY <1>7 DEF EraseSlot, ProgramSlot, SaveFails, SaveUnchanged, QueueInv, RequestInv
<1>8. CASE PowerLoss
  <2>1. Len(queue') = 0 /\ frontSeq' = 0 /\ pushed' = 0 /\ pc' = "idle"
    BY <1>8 DEF PowerLoss
  <2> QED
    BY <2>1 DEF QueueInv, RequestInv
<1>9. CASE EdgeListChanges \/ UNCHANGED vars
  BY <1>9 DEF EdgeListChanges, vars, QueueInv, RequestInv
<1> QED
  BY <1>1, <1>2, <1>3, <1>4, <1>5, <1>6, <1>7, <1>8, <1>9 DEF Next

(* No event leaves the ring unless the edge has stored it or a newer one   *)
(* needed its place: sync, Events::push and Events::ack.                   *)
THEOREM NoSilentLossHolds == Spec => []NoSilentLoss
<1>1. TypeOK /\ QueueInv => NoSilentLoss
  <2> SUFFICES ASSUME TypeOK, QueueInv, NEW n \in 1..pushed
               PROVE  \/ \E i \in 1..Len(queue) : queue[i] = n
                      \/ n \in committed
                      \/ n \in overflowed
    BY DEF NoSilentLoss
  <2>1. CASE n \in 1..frontSeq
    BY <2>1 DEF QueueInv
  <2>2. CASE n \notin 1..frontSeq
    <3>1. n - frontSeq \in 1..Len(queue)
      BY <2>2 DEF TypeOK, QueueInv
    <3>2. queue[n - frontSeq] = n
      BY <3>1 DEF TypeOK, QueueInv
    <3> QED
      BY <3>1, <3>2
  <2> QED
    BY <2>1, <2>2
<1> QED
  BY InitType, NextType, InitQueue, NextQueue, <1>1, PTL DEF Spec

=============================================================================
