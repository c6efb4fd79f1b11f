-------------------------- MODULE AccessTaskProofs --------------------------
(* Proofs about AccessTask, for any cards, lists, channel, window and number range. *)
EXTENDS AccessTask, TLAPS

\* The sync after sync s.
After(s) == (s + 1) % SyncMod

\* A completion is that of the last sync, or of the one before while that one runs.
CompleteIsRecent ==
    complete # None =>
        \/ ~running /\ complete.id = started
        \/ running /\ After(complete.id) = started

\* How far the sync that a pending read waits for has come.  Once its completion waits to
\* be looked at no second passes, so after it at most the sync already requested can
\* start, and no other can follow.
Requested == requested /\ pending.nextSync = After(started)

Running == running /\ pending.nextSync = started

Completed ==
    /\ ~running /\ pending.nextSync = started
    /\ complete # None /\ complete.id = started /\ timer > 0

Overtaken ==
    /\ running /\ ~requested /\ After(pending.nextSync) = started
    /\ complete # None /\ complete.id = pending.nextSync /\ timer > 0

Replaced ==
    /\ ~running /\ ~requested /\ After(pending.nextSync) = started
    /\ complete # None /\ complete.id = started /\ timer > 0

Stage == Requested \/ Running \/ Completed \/ Overtaken \/ Replaced

\* Lists that were fetched since the denial list the read, if the edge always has.
Listed ==
    pending.listed =>
        /\ Authorized(pending.read, edge)
        /\ running /\ answer # None /\ ~Requested => Authorized(pending.read, answer)
        /\ (Completed \/ Overtaken \/ Replaced) /\ complete.ok => Authorized(pending.read, fobs)

IInv ==
    /\ TypeOK /\ CompleteIsRecent /\ BackoffIsQuiet
    /\ pending # None => Stage /\ Listed

-----------------------------------------------------------------------------
(* Sync numbers. *)

LEMMA ModFacts ==
  ASSUME NEW a \in 0 .. 2 * SyncMod - 1
  PROVE  a % SyncMod = IF a < SyncMod THEN a ELSE a - SyncMod
  BY ConstantsAssumption

LEMMA AfterFacts ==
  ASSUME NEW s \in SyncNumber
  PROVE  /\ After(s) \in SyncNumber
         /\ After(s) = IF s = SyncMod - 1 THEN 0 ELSE s + 1
         /\ After(s) # s /\ After(After(s)) # s
  BY ConstantsAssumption, ModFacts DEF After, SyncNumber

LEMMA HalfFacts ==
  SyncMod \div 2 \in 2 .. SyncMod - 2
  BY ConstantsAssumption

LEMMA BeforeFacts ==
  ASSUME NEW s \in SyncNumber
  PROVE  /\ ~Before(s, s) /\ ~Before(After(s), s)
         /\ Before(s, After(s)) /\ Before(s, After(After(s)))
  <1>1. ASSUME NEW a \in SyncNumber, NEW b \in SyncNumber
        PROVE  Before(a, b) <=> (IF a < b THEN a - b + SyncMod ELSE a - b) >= SyncMod \div 2
    <2>1. a - b + SyncMod \in 0 .. 2 * SyncMod - 1
      BY ConstantsAssumption DEF SyncNumber
    <2>2. (a - b + SyncMod) % SyncMod = IF a < b THEN a - b + SyncMod ELSE a - b
      BY <2>1, ModFacts, ConstantsAssumption DEF SyncNumber
    <2> QED BY <2>2 DEF Before
  <1>2. After(s) \in SyncNumber /\ After(After(s)) \in SyncNumber
    BY AfterFacts
  <1>3. /\ After(s) = IF s = SyncMod - 1 THEN 0 ELSE s + 1
        /\ After(After(s)) = IF After(s) = SyncMod - 1 THEN 0 ELSE After(s) + 1
    BY <1>2, AfterFacts
  <1>4. SyncMod \div 2 \in 2 .. SyncMod - 2
    BY HalfFacts
  <1>5. PICK h \in 2 .. SyncMod - 2 : h = SyncMod \div 2
    BY <1>4
  <1>6. ~Before(s, s)
    BY <1>1, <1>5, ConstantsAssumption DEF SyncNumber
  <1>7. ~Before(After(s), s)
    BY <1>1, <1>2, <1>3, <1>5, ConstantsAssumption DEF SyncNumber
  <1>8. Before(s, After(s))
    BY <1>1, <1>2, <1>3, <1>5, ConstantsAssumption DEF SyncNumber
  <1>9. Before(s, After(After(s)))
    BY <1>1, <1>2, <1>3, <1>5, ConstantsAssumption DEF SyncNumber
  <1> QED BY <1>6, <1>7, <1>8, <1>9

LEMMA BackoffFacts ==
  ASSUME NEW n \in 1 .. 3
  PROVE  2 ^ n \in 0 .. 8
  <1>1. 2 ^ 1 = 2 /\ 2 ^ 2 = 4 /\ 2 ^ 3 = 8
    OBVIOUS
  <1>2. n = 1 \/ n = 2 \/ n = 3
    OBVIOUS
  <1>3. 2 ^ n = 2 \/ 2 ^ n = 4 \/ 2 ^ n = 8
    BY <1>1, <1>2, Zenon
  <1>4. 2 \in 0 .. 8 /\ 4 \in 0 .. 8 /\ 8 \in 0 .. 8
    OBVIOUS
  <1> QED BY <1>3, <1>4, Zenon

-----------------------------------------------------------------------------
(* Types. *)

Pending == [read : Reads, left : -1 .. Window, nextSync : SyncNumber, listed : BOOLEAN]

LEMMA InitType == Init => TypeOK
  <1> SUFFICES ASSUME Init PROVE TypeOK
    OBVIOUS
  <1>1. 0 \in SyncNumber /\ 0 \in 0 .. Interval /\ 0 <= ChannelCap
    BY ConstantsAssumption DEF SyncNumber
  <1>2. channel \in Seq(Reads) /\ Len(channel) <= ChannelCap
    BY <1>1 DEF Init
  <1>3. backoff \in 0 .. 8 /\ failures \in 0 .. 3 /\ started \in SyncNumber /\ timer \in 0 .. Interval
    BY <1>1 DEF Init
  <1>4. pending = None /\ complete = None /\ answer = None
    BY DEF Init
  <1>5. /\ requested \in BOOLEAN /\ running \in BOOLEAN
        /\ edge \in EdgeLists /\ fobs \in EdgeLists /\ outcome = "none"
    BY DEF Init
  <1> QED BY <1>2, <1>3, <1>4, <1>5 DEF TypeOK

LEMMA TypeStep ==
  TypeOK /\ [Next]_vars => TypeOK'
  <1> SUFFICES ASSUME TypeOK, [Next]_vars PROVE TypeOK'
    OBVIOUS
  <1>1. CASE Swipe
    BY <1>1, ConstantsAssumption DEF Swipe, TypeOK, accessVars, syncVars
  <1>2. CASE TakeRead
    <2>1. Head(channel) \in Reads /\ Tail(channel) \in Seq(Reads) /\ Len(Tail(channel)) <= ChannelCap
      BY <1>2, ConstantsAssumption DEF TakeRead, TypeOK
    <2>2. NextSync \in SyncNumber
      BY AfterFacts DEF TypeOK, NextSync, After
    <2>3. Authorized(Head(channel), edge) \in BOOLEAN
      BY DEF Authorized
    <2>4. [read |-> Head(channel), left |-> Window, nextSync |-> NextSync,
           listed |-> Authorized(Head(channel), edge)] \in Pending
      BY <2>1, <2>2, <2>3, ConstantsAssumption DEF Pending
    <2>5. /\ pending' \in Pending \union {None}
          /\ backoff' \in 0 .. 8 /\ failures' \in 0 .. 3 /\ requested' \in BOOLEAN
          /\ outcome' \in {"none", "granted", "denied", "ignored", "unlocked"}
      <3>1. CASE Deny(Head(channel))
        BY <2>4, <3>1 DEF Deny, TypeOK
      <3>2. CASE Grant /\ pending' = pending
        BY <3>2 DEF Grant, TypeOK, Pending
      <3>3. CASE outcome' = "ignored" /\ UNCHANGED <<accessVars, requested>>
        BY <3>3 DEF TypeOK, Pending, accessVars
      <3> QED BY <1>2, <3>1, <3>2, <3>3 DEF TakeRead
    <2>6. UNCHANGED <<complete, syncVars, fobs, edge>> /\ channel' = Tail(channel)
      BY <1>2 DEF TakeRead
    <2> QED BY <2>1, <2>5, <2>6 DEF TypeOK, Pending, syncVars
  <1>3. CASE IgnoreComplete
    BY <1>3 DEF IgnoreComplete, TypeOK, readerVars, accessVars, syncVars
  <1>4. CASE Recheck
    <2>1. failures' \in 0 .. 3
      BY <1>4 DEF Recheck, Grant, TypeOK
    <2>2. backoff' \in 0 .. 8
      <3>1. CASE backoff' = backoff
        BY <3>1 DEF TypeOK
      <3>2. CASE backoff' = BackoffSeconds /\ failures' = IF failures < 3 THEN failures + 1 ELSE 3
        <4>1. failures' \in 1 .. 3
          BY <3>2 DEF TypeOK
        <4> QED BY <3>2, <4>1, BackoffFacts DEF BackoffSeconds
      <3> QED BY <1>4, <3>1, <3>2 DEF Recheck, Grant
    <2>3. requested' = requested /\ outcome' \in {"none", "granted", "denied"}
      BY <1>4 DEF Recheck, Grant
    <2> QED BY <1>4, <2>1, <2>2, <2>3 DEF Recheck, TypeOK, readerVars, syncVars
  <1>5. CASE ManualUnlock
    BY <1>5 DEF ManualUnlock, TypeOK, readerVars, accessVars, syncVars
  <1>6. CASE SyncStart
    <2>1. started' \in SyncNumber
      BY <1>6, AfterFacts DEF SyncStart, TypeOK, After
    <2> QED BY <1>6, <2>1 DEF SyncStart, TypeOK, readerVars, accessVars
  <1>7. CASE EdgeAnswers
    BY <1>7 DEF EdgeAnswers, TypeOK, readerVars, accessVars
  <1>8. CASE SyncComplete
    <2>1. timer' \in 0 .. Interval
      BY <1>8, ConstantsAssumption DEF SyncComplete
    <2>2. complete' \in [id : SyncNumber, ok : BOOLEAN] /\ fobs' \in EdgeLists
      <3>1. started \in SyncNumber /\ fobs \in EdgeLists /\ (answer # None => answer \in EdgeLists)
        BY DEF TypeOK
      <3>2. [id |-> started, ok |-> TRUE] \in [id : SyncNumber, ok : BOOLEAN]
        BY <3>1
      <3>3. [id |-> started, ok |-> FALSE] \in [id : SyncNumber, ok : BOOLEAN]
        BY <3>1
      <3> QED BY <1>8, <3>1, <3>2, <3>3 DEF SyncComplete
    <2> QED BY <1>8, <2>1, <2>2 DEF SyncComplete, RequestKept, TypeOK, readerVars, accessVars
  <1>9. CASE EdgeListChanges
    <2>1. pending' \in Pending \union {None}
      <3>1. CASE pending = None
        BY <1>9, <3>1 DEF EdgeListChanges
      <3>2. CASE pending # None
        <4>1. pending \in Pending
          BY <3>2 DEF TypeOK, Pending
        <4>2. pending' = [pending EXCEPT !.listed = pending.listed /\ Authorized(pending.read, edge')]
          BY <1>9, <3>2 DEF EdgeListChanges
        <4> QED BY <4>1, <4>2 DEF Pending
      <3> QED BY <3>1, <3>2
    <2> QED BY <1>9, <2>1 DEF EdgeListChanges, TypeOK, Pending, readerVars, syncVars
  <1>10. CASE Tick
    <2>1. pending' \in Pending \union {None}
      <3>1. CASE pending' = pending
        BY <3>1 DEF TypeOK, Pending
      <3>2. CASE pending # None /\ pending.left >= 0 /\ pending' = [pending EXCEPT !.left = pending.left - 1]
        <4>1. pending \in Pending
          BY <3>2 DEF TypeOK, Pending
        <4>2. pending.left - 1 \in -1 .. Window
          BY <3>2, <4>1, ConstantsAssumption DEF Pending
        <4> QED BY <3>2, <4>1, <4>2 DEF Pending
      <3>3. pending # None => pending.left \in -1 .. Window
        BY DEF TypeOK
      <3> QED BY <1>10, <3>1, <3>2, <3>3 DEF Tick
    <2>2. backoff' \in 0 .. 8 /\ timer' \in 0 .. Interval
      BY <1>10, ConstantsAssumption DEF Tick, TypeOK
    <2> QED BY <1>10, <2>1, <2>2 DEF Tick, TypeOK, Pending, readerVars
  <1>11. CASE UNCHANGED vars
    BY <1>11 DEF TypeOK, vars, readerVars, accessVars, syncVars
  <1> QED BY <1>1, <1>2, <1>3, <1>4, <1>5, <1>6, <1>7, <1>8, <1>9, <1>10, <1>11 DEF Next

-----------------------------------------------------------------------------
(* The stages. *)

LEMMA InitInv == Init => IInv
  BY InitType DEF Init, IInv, CompleteIsRecent, BackoffIsQuiet

\* What a sync step, a second or a read that is not denied leaves of the other state.
LEMMA SwipeStep ==
  IInv /\ TypeOK' /\ Swipe => IInv'
  BY DEF IInv, Swipe, CompleteIsRecent, BackoffIsQuiet, Stage, Requested, Running, Completed,
         Overtaken, Replaced, Listed, accessVars, syncVars

LEMMA DenyStep ==
  IInv /\ TypeOK' /\ TakeRead => IInv'
  <1> SUFFICES ASSUME IInv, TypeOK', TakeRead PROVE IInv'
    OBVIOUS
  <1>0. UNCHANGED <<complete, started, running, answer, timer, fobs, edge>>
    BY DEF TakeRead, syncVars
  <1>1. CompleteIsRecent'
    BY <1>0 DEF IInv, CompleteIsRecent
  <1>2. CASE UNCHANGED <<pending, backoff, requested>>
    BY <1>0, <1>1, <1>2 DEF IInv, BackoffIsQuiet, Stage, Requested, Running, Completed,
         Overtaken, Replaced, Listed
  <1>3. CASE Deny(Head(channel)) /\ backoff = 0
    <2> DEFINE new == [read |-> Head(channel), left |-> Window, nextSync |-> NextSync,
                       listed |-> Authorized(Head(channel), edge)]
    <2>1. pending' = new /\ requested' = TRUE /\ backoff' = 0
      BY <1>3 DEF Deny
    <2>2. new.read = Head(channel) /\ new.nextSync = After(started)
          /\ new.listed = Authorized(Head(channel), edge)
      BY DEF NextSync, After
    <2> HIDE DEF new
    <2>3. Requested'
      BY <1>0, <2>1, <2>2 DEF Requested, After
    <2>4. ~(Completed \/ Overtaken \/ Replaced)'
      <3>1. started \in SyncNumber
        BY DEF IInv, TypeOK
      <3>2. After(started) # started /\ After(After(started)) # started
        BY <3>1, AfterFacts
      <3> QED BY <1>0, <2>1, <2>2, <3>2 DEF Completed, Overtaken, Replaced, After
    <2>5. Listed'
      BY <1>0, <2>1, <2>2, <2>3, <2>4 DEF Listed
    <2> QED BY <1>1, <2>1, <2>3, <2>5 DEF IInv, Stage, BackoffIsQuiet
  <1> QED BY <1>2, <1>3 DEF TakeRead, Grant, accessVars, ReadsCount

LEMMA IgnoreStep ==
  IInv /\ TypeOK' /\ IgnoreComplete => IInv'
  <1> SUFFICES ASSUME IInv, TypeOK', IgnoreComplete PROVE IInv'
    OBVIOUS
  <1>0. /\ UNCHANGED <<pending, backoff, requested, started, running, answer, timer, fobs, edge>>
        /\ complete' = None
    BY DEF IgnoreComplete, accessVars, syncVars
  <1>1. pending # None => ~(Completed \/ Overtaken \/ Replaced)
    <2> SUFFICES ASSUME pending # None, Completed \/ Overtaken \/ Replaced PROVE RecheckDue
      BY DEF IgnoreComplete
    <2>1. pending.nextSync \in SyncNumber
      BY DEF IInv, TypeOK
    <2>2. complete.id = pending.nextSync \/ complete.id = After(pending.nextSync)
      BY DEF Completed, Overtaken, Replaced
    <2>3. ~Before(complete.id, pending.nextSync)
      BY <2>1, <2>2, BeforeFacts
    <2> QED BY <2>3 DEF RecheckDue, IgnoreComplete
  <1> QED BY <1>0, <1>1 DEF IInv, CompleteIsRecent, BackoffIsQuiet, Stage, Requested, Running,
         Completed, Overtaken, Replaced, Listed

LEMMA RecheckStep ==
  IInv /\ TypeOK' /\ Recheck => IInv'
  BY DEF Recheck, IInv, CompleteIsRecent, BackoffIsQuiet

LEMMA UnlockStep ==
  IInv /\ TypeOK' /\ ManualUnlock => IInv'
  BY DEF IInv, ManualUnlock, CompleteIsRecent, BackoffIsQuiet, Stage, Requested, Running, Completed,
         Overtaken, Replaced, Listed, accessVars, syncVars

LEMMA StartStep ==
  IInv /\ TypeOK' /\ SyncStart => IInv'
  <1> SUFFICES ASSUME IInv, TypeOK', SyncStart PROVE IInv'
    OBVIOUS
  <1>0. /\ UNCHANGED <<pending, backoff, complete, timer, fobs, edge>>
        /\ ~running /\ started' = After(started) /\ running' /\ answer' = None
    BY DEF SyncStart, accessVars, After
  <1>1. CompleteIsRecent'
    BY <1>0 DEF IInv, CompleteIsRecent, After
  <1>2. ASSUME pending # None PROVE Stage' /\ Listed'
    <2>1. CASE Requested
      <3>1. Running' /\ pending.nextSync = started'
        BY <1>0, <2>1 DEF Running, Requested
      <3>2. ~(Completed \/ Overtaken \/ Replaced)'
        <4>1. started \in SyncNumber
          BY DEF IInv, TypeOK
        <4>2. After(started) # started /\ After(After(started)) # After(started)
          BY <4>1, AfterFacts
        <4> QED BY <1>0, <3>1, <4>2 DEF Completed, Overtaken, Replaced, After
      <3> QED BY <1>0, <1>2, <3>1, <3>2 DEF Stage, Listed, IInv
    <2>2. CASE Completed
      BY <1>0, <1>2, <2>2 DEF Stage, Completed, Overtaken, Listed, IInv, SyncStart, After
    <2>3. CASE Replaced /\ timer > 0
      BY <1>0, <1>2, <2>3 DEF Replaced, SyncStart
    <2> QED BY <1>0, <1>2, <2>1, <2>2, <2>3 DEF IInv, Stage, Running, Overtaken, Replaced
  <1> QED BY <1>0, <1>1, <1>2 DEF IInv, BackoffIsQuiet

LEMMA AnswerStep ==
  IInv /\ TypeOK' /\ EdgeAnswers => IInv'
  <1> SUFFICES ASSUME IInv, TypeOK', EdgeAnswers PROVE IInv'
    OBVIOUS
  <1>0. /\ UNCHANGED <<pending, backoff, complete, requested, started, running, timer, fobs, edge>>
        /\ answer' = edge
    BY DEF EdgeAnswers, accessVars
  <1>1. CompleteIsRecent' /\ BackoffIsQuiet'
    BY <1>0 DEF IInv, CompleteIsRecent, BackoffIsQuiet
  <1>2. ASSUME pending # None PROVE Stage' /\ Listed'
    <2>1. (Stage' <=> Stage) /\ (Requested' <=> Requested)
      BY <1>0 DEF Stage, Requested, Running, Completed, Overtaken, Replaced
    <2>2. (Completed \/ Overtaken \/ Replaced)' <=> (Completed \/ Overtaken \/ Replaced)
      BY <1>0 DEF Completed, Overtaken, Replaced
    <2>3. Stage /\ Listed
      BY <1>2 DEF IInv
    <2>4. pending.listed => Authorized(pending.read, edge)
      BY <2>3 DEF Listed
    <2>5. Listed'
      BY <1>0, <2>1, <2>2, <2>3, <2>4 DEF Listed
    <2> QED BY <2>1, <2>3, <2>5
  <1> QED BY <1>0, <1>1, <1>2 DEF IInv

LEMMA CompleteStep ==
  IInv /\ TypeOK' /\ SyncComplete => IInv'
  <1> SUFFICES ASSUME IInv, TypeOK', SyncComplete PROVE IInv'
    OBVIOUS
  <1>0. /\ UNCHANGED <<pending, backoff, started, edge, requested>>
        /\ running /\ ~running' /\ answer' = None /\ timer' > 0
    BY ConstantsAssumption DEF SyncComplete, accessVars, RequestKept
  <1>1. complete' # None /\ complete'.id = started
    <2>1. started \in SyncNumber
      BY DEF IInv, TypeOK
    <2>2. ASSUME NEW ok \in BOOLEAN, complete' = [id |-> started, ok |-> ok]
          PROVE  complete' # None /\ complete'.id = started
      <3>1. complete' \in [id : SyncNumber, ok : BOOLEAN]
        BY <2>1, <2>2
      <3>2. complete' # None
        BY <3>1, NoneAssumption, Zenon
      <3>3. complete'.id = started
        BY <2>2
      <3> QED BY <3>2, <3>3
    <2> QED BY <2>2 DEF SyncComplete
  <1>2. CompleteIsRecent'
    BY <1>0, <1>1 DEF CompleteIsRecent
  <1>3. ASSUME pending # None PROVE Stage' /\ Listed'
    <2>0. Stage /\ Listed
      BY <1>3 DEF IInv
    <2>1. CASE Requested
      <3>1. Requested'
        BY <1>0, <2>1 DEF Requested, After
      <3>2. ~(Completed \/ Overtaken \/ Replaced)'
        <4>1. started \in SyncNumber
          BY DEF IInv, TypeOK
        <4>2. After(started) # started /\ After(After(started)) # started
          BY <4>1, AfterFacts
        <4> QED BY <1>0, <2>1, <4>2 DEF Requested, Completed, Overtaken, Replaced, After
      <3> QED BY <1>0, <2>0, <3>1, <3>2 DEF Stage, Listed
    <2>2. CASE Running /\ ~Requested
      <3>1. Completed'
        BY <1>0, <1>1, <2>2 DEF Running, Completed
      <3>2. ASSUME pending.listed, complete'.ok PROVE Authorized(pending.read, fobs')
        <4>1. answer # None /\ fobs' = answer
          <5>1. [id |-> started, ok |-> FALSE].ok = FALSE
            OBVIOUS
          <5> QED BY <3>2, <5>1 DEF SyncComplete
        <4> QED BY <1>0, <2>0, <2>2, <3>2, <4>1 DEF Listed
      <3> QED BY <1>0, <2>0, <3>1, <3>2 DEF Stage, Listed
    <2>3. CASE Overtaken
      <3>1. Replaced'
        BY <1>0, <1>1, <2>3 DEF Overtaken, Replaced, After
      <3>2. ASSUME pending.listed, complete'.ok PROVE Authorized(pending.read, fobs')
        <4>1. answer # None /\ fobs' = answer
          <5>1. [id |-> started, ok |-> FALSE].ok = FALSE
            OBVIOUS
          <5> QED BY <3>2, <5>1 DEF SyncComplete
        <4>2. ~Requested
          BY <2>3 DEF Overtaken, Requested
        <4> QED BY <1>0, <2>0, <3>2, <4>1, <4>2 DEF Listed
      <3> QED BY <1>0, <2>0, <3>1, <3>2 DEF Stage, Listed
    <2> QED BY <1>0, <2>0, <2>1, <2>2, <2>3 DEF Stage, Completed, Replaced
  <1> QED BY <1>0, <1>2, <1>3 DEF IInv, BackoffIsQuiet

\* The stage only depends on the number that a pending read waits for.
LEMMA EdgeStep ==
  IInv /\ TypeOK' /\ EdgeListChanges => IInv'
  <1> SUFFICES ASSUME IInv, TypeOK', EdgeListChanges PROVE IInv'
    OBVIOUS
  <1>0. UNCHANGED <<backoff, complete, requested, started, running, answer, timer, fobs>>
    BY DEF EdgeListChanges, syncVars
  <1>1. CompleteIsRecent'
    BY <1>0 DEF IInv, CompleteIsRecent
  <1>2. CASE pending = None
    BY <1>0, <1>1, <1>2 DEF EdgeListChanges, IInv, BackoffIsQuiet
  <1>3. CASE pending # None
    <2> DEFINE new == [pending EXCEPT !.listed = pending.listed /\ Authorized(pending.read, edge')]
    <2>1. pending' = new
      BY <1>3 DEF EdgeListChanges
    <2>2. /\ new.read = pending.read /\ new.nextSync = pending.nextSync
          /\ new.listed = (pending.listed /\ Authorized(pending.read, edge'))
      BY <1>3 DEF IInv, TypeOK
    <2> HIDE DEF new
    <2>3. (Stage' <=> Stage) /\ (Requested' <=> Requested)
      BY <1>0, <2>1, <2>2 DEF Stage, Requested, Running, Completed, Overtaken, Replaced
    <2>4. (Completed \/ Overtaken \/ Replaced)' <=> (Completed \/ Overtaken \/ Replaced)
      BY <1>0, <2>1, <2>2 DEF Completed, Overtaken, Replaced
    <2>5. Stage /\ Listed
      BY <1>3 DEF IInv
    <2>6. Listed'
      BY <1>0, <2>1, <2>2, <2>3, <2>4, <2>5 DEF Listed
    <2>7. backoff = 0
      BY <1>3 DEF IInv, BackoffIsQuiet, TypeOK
    <2> QED BY <1>0, <1>1, <2>3, <2>5, <2>6, <2>7 DEF IInv, BackoffIsQuiet
  <1> QED BY <1>2, <1>3

LEMMA TickStep ==
  IInv /\ TypeOK' /\ Tick => IInv'
  <1> SUFFICES ASSUME IInv, TypeOK', Tick PROVE IInv'
    OBVIOUS
  <1>0. /\ UNCHANGED <<complete, requested, started, running, answer, fobs, edge>>
        /\ complete = None
    BY DEF Tick
  <1>1. CompleteIsRecent'
    BY <1>0 DEF IInv, CompleteIsRecent
  <1>2. backoff = 0 => backoff' = 0
    BY DEF Tick
  <1>3. pending # None => backoff = 0
    BY DEF IInv, BackoffIsQuiet, TypeOK
  <1>4. CASE pending = None
    BY <1>0, <1>1, <1>4 DEF Tick, IInv, BackoffIsQuiet
  <1>5. CASE pending # None
    <2>1. /\ pending'.read = pending.read /\ pending'.nextSync = pending.nextSync
          /\ pending'.listed = pending.listed
      BY <1>5 DEF Tick, IInv, TypeOK
    <2>2. (Stage' <=> Requested \/ Running) /\ (Requested' <=> Requested)
      BY <1>0, <2>1 DEF Stage, Requested, Running, Completed, Overtaken, Replaced
    <2>3. ~(Completed \/ Overtaken \/ Replaced)' /\ (Stage <=> Requested \/ Running)
      BY <1>0, <2>1 DEF Stage, Completed, Overtaken, Replaced
    <2>4. Stage /\ Listed
      BY <1>5 DEF IInv
    <2>5. Listed'
      BY <1>0, <2>1, <2>2, <2>3, <2>4 DEF Listed
    <2> QED BY <1>1, <1>2, <1>3, <1>5, <2>2, <2>3, <2>4, <2>5 DEF IInv, BackoffIsQuiet
  <1> QED BY <1>4, <1>5

LEMMA StutterStep ==
  IInv /\ TypeOK' /\ UNCHANGED vars => IInv'
  BY DEF vars, IInv, CompleteIsRecent, BackoffIsQuiet, Stage, Requested, Running, Completed,
         Overtaken, Replaced, Listed, readerVars, accessVars, syncVars

LEMMA InvStep ==
  IInv /\ [Next]_vars => IInv'
  <1> SUFFICES ASSUME IInv, [Next]_vars PROVE IInv'
    OBVIOUS
  <1>1. TypeOK'
    BY TypeStep DEF IInv
  <1> QED BY <1>1, SwipeStep, DenyStep, IgnoreStep, RecheckStep, UnlockStep, StartStep, AnswerStep,
         CompleteStep, EdgeStep, TickStep, StutterStep DEF Next

THEOREM Invariance == Spec => []IInv
  <1>1. Init => IInv
    BY InitInv
  <1>2. IInv /\ [Next]_vars => IInv'
    BY InvStep
  <1> QED BY <1>1, <1>2, PTL DEF Spec

-----------------------------------------------------------------------------
(* The door's signals, timers and numbers keep their ranges, numbers also when they wrap. *)
THEOREM TypeCorrect == Spec => []TypeOK
  <1>1. IInv => TypeOK
    BY DEF IInv
  <1> QED BY <1>1, Invariance, PTL

(* No wake-up of a denied read is lost: its sync is requested, is running, or has signalled *)
(* a completion that counts, whatever requests and completions replaced each other and      *)
(* wherever the sync numbers wrap.                                                          *)
THEOREM PendingHasResolverHolds == Spec => []PendingHasResolver
  <1>1. IInv => PendingHasResolver
    <2> SUFFICES ASSUME IInv, pending # None
                 PROVE  \/ requested /\ pending.nextSync = NextSync
                        \/ running /\ pending.nextSync = started
                        \/ complete # None /\ ~Before(complete.id, pending.nextSync)
      BY DEF PendingHasResolver
    <2>1. CASE Requested \/ Running
      BY <2>1 DEF Requested, Running, NextSync, After
    <2>2. CASE Completed \/ Overtaken \/ Replaced
      <3>1. pending.nextSync \in SyncNumber
        BY DEF IInv, TypeOK
      <3>2. complete.id = pending.nextSync \/ complete.id = After(pending.nextSync)
        BY <2>2 DEF Completed, Overtaken, Replaced
      <3>3. ~Before(complete.id, pending.nextSync)
        BY <3>1, <3>2, BeforeFacts
      <3> QED BY <2>2, <3>3 DEF Completed, Overtaken, Replaced
    <2> QED BY <2>1, <2>2 DEF IInv, Stage
  <1> QED BY <1>1, Invariance, PTL

(* A backoff never runs while a read waits for its re-check, so nothing that was swiped *)
(* before or during it is granted by it.                                                *)
THEOREM BackoffIsQuietHolds == Spec => []BackoffIsQuiet
  <1>1. IInv => BackoffIsQuiet
    BY DEF IInv
  <1> QED BY <1>1, Invariance, PTL

(* A fob the edge has listed ever since its denial is granted by the re-check, if the sync *)
(* that counts brought a list within the window: the one in flight at the denial, whose    *)
(* list may be older, never decides.                                                       *)
THEOREM FirstSwipeWorksHolds == Spec => FirstSwipeWorks
  <1>1. IInv /\ [Next]_vars =>
          [RecheckDue /\ Recheck /\ complete.ok /\ pending.left >= 0 /\ pending.listed
             => outcome' = "granted"]_vars
    <2> SUFFICES ASSUME IInv, RecheckDue, Recheck, complete.ok, pending.left >= 0, pending.listed
                 PROVE  outcome' = "granted"
      OBVIOUS
    <2>1. Stage /\ Listed
      BY DEF IInv, RecheckDue
    <2>2. Completed \/ Overtaken \/ Replaced
      <3>1. started \in SyncNumber /\ complete.id \in SyncNumber
        BY DEF IInv, TypeOK, RecheckDue
      <3>2. CompleteIsRecent /\ complete # None /\ ~Before(complete.id, pending.nextSync)
        BY DEF IInv, RecheckDue
      <3>3. ~Requested
        <4>1. CASE ~running /\ complete.id = started
          BY <3>1, <3>2, <4>1, BeforeFacts DEF Requested
        <4>2. CASE running /\ After(complete.id) = started
          BY <3>1, <3>2, <4>2, BeforeFacts DEF Requested
        <4> QED BY <3>2, <4>1, <4>2 DEF CompleteIsRecent
      <3>4. ~Running
        BY <3>1, <3>2, BeforeFacts DEF Running, CompleteIsRecent
      <3> QED BY <2>1, <3>3, <3>4 DEF Stage
    <2>3. Authorized(pending.read, fobs)
      BY <2>1, <2>2 DEF Listed
    <2>4. pending.left \in -1 .. Window
      BY DEF IInv, TypeOK, RecheckDue
    <2>5. ~(pending.left < 0)
      BY <2>4, ConstantsAssumption
    <2> QED BY <2>3, <2>5 DEF Recheck, Grant
  <1> QED BY <1>1, Invariance, PTL DEF Spec, FirstSwipeWorks
=============================================================================
