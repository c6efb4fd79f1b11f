---------------------------- MODULE MachinesProofs ----------------------------
(***************************************************************************)
(* Theorems about the two ends of the printer dashboard.                   *)
(*                                                                         *)
(* Printers, for any serials, settings, forms and requests: what the       *)
(* workers do is one lemma: every step of theirs leaves settings and       *)
(* contexts alone and ends a pair only when both have returned.  The rest  *)
(* is about the critical section of configMu.                              *)
(*                                                                         *)
(* MachinesPage, for any images, token life, margin and key ages, and any  *)
(* number of operations: each of the page's functions keeps PageAndTimer   *)
(* or brings it about, and an action is what it composes of them.          *)
(***************************************************************************)
EXTENDS Printers, MachinesPage, TLAPS

\* Only the printers in the map have a live context; a live pair has two
\* workers; an image belongs to a connection.
WorkersInv ==
    \A p \in Pairs :
        /\ inst[p] = Off \/ inst[p].setting \in Settings
        /\ inst[p].live => /\ inst[p].poll # "done" /\ inst[p].camera # "done"
                           /\ set[p[1]] = p[2]
        /\ inst[p].frame => inst[p].camera = "on"

\* A pair that runs outside the map is awaited.
AwaitedInv ==
    \A p \in Pairs : inst[p] # Off /\ set[p[1]] # p[2] =>
        \E a \in Actors : job[a].pc = "wait" /\ p \in job[a].removed

\* A critical section is in progress exactly when the mutex is held.
LockInv == \A a \in Actors : job[a].pc # "idle" <=> holder = a

Settled == Running = IF closed THEN NoPrinters ELSE config

\* What a critical section has achieved at each of its points.
SectionInv ==
    /\ config = stored \/ unsure
    /\ job[Closer].pc # "store"
    /\ holder = None => Settled
    /\ \A a \in Actors :
         /\ job[a].pc = "store" => Settled
         /\ job[a].pc \in {"stop", "wait", "start"} =>
              ~closed /\ job[a].want = IF a = Closer THEN NoPrinters ELSE config
         /\ job[a].pc \in {"wait", "start"} =>
              \A s \in Serials : Running[s] \in {None, job[a].want[s]}

IInv == /\ TypeOK /\ WorkersInv /\ AwaitedInv /\ LockInv /\ SectionInv
        /\ OnePairPerPrinter

-----------------------------------------------------------------------------
(* The constants and the records *)

(* None is not a setting, a slot or an actor.                              *)
LEMMA Distinct ==
    /\ None \notin Settings /\ None \notin Slots /\ None \notin Actors
    /\ Closer \in Actors /\ NoPrinters \in Lists
    /\ Lists \subseteq [Serials -> Settings \union {None}]
BY ParametersAssumption DEF Actors, Lists, NoPrinters

(* Off is a pair without workers, New one with both and a context.         *)
LEMMA PairRecords ==
    /\ Off \in PairState /\ ~Off.live /\ ~Off.frame /\ ~Off.fresh /\ ~Off.callback
    /\ Off.setting = None /\ Off.poll = "done" /\ Off.camera = "done"
    /\ \A c \in Settings :
         /\ New(c) \in PairState /\ New(c).setting = c /\ New(c).live /\ ~New(c).frame
         /\ New(c).poll = "connect" /\ New(c).camera = "connect"
BY DEF Off, New, PairState

(* What runs is read from the map and the settings.                        *)
LEMMA RunningOf ==
    ASSUME NEW s \in Serials
    PROVE  Running[s] = IF set[s] = None THEN None ELSE inst[<<s, set[s]>>].setting
BY DEF Running

-----------------------------------------------------------------------------
(* The workers *)

\* r may replace the record of a pair whose workers go on.
Successor(p, r) ==
    /\ inst[p] # Off /\ r \in PairState
    /\ r.setting = inst[p].setting /\ r.live = inst[p].live
    /\ r.live => r.poll # "done" /\ r.camera # "done"
    /\ r.frame => r.camera = "on"

(* Each step of a worker, a callback or a timer makes such a record.       *)
LEMMA PairStepPuts ==
    ASSUME TypeOK, WorkersInv, NEW p \in Pairs, PairStep(p)
    PROVE  \E r : Successor(p, r) /\ Put(p, r)
<1>1. inst[p] \in PairState
  BY DEF TypeOK
<1>2. /\ inst[p].live => inst[p].poll # "done" /\ inst[p].camera # "done"
      /\ inst[p].frame => inst[p].camera = "on"
  BY DEF WorkersInv
<1>3. CASE Connect(p)
  <2> DEFINE r == [inst[p] EXCEPT !.poll = "on"]
  <2>1. Successor(p, r)
    BY <1>1, <1>2, <1>3, PairRecords DEF Connect, Successor, PairState
  <2> QED
    BY <1>3, <2>1 DEF Connect
<1>4. CASE Disconnect(p)
  <2> DEFINE r == [inst[p] EXCEPT !.poll = "wait", !.error = TRUE]
  <2>1. Successor(p, r)
    BY <1>1, <1>2, <1>4, PairRecords DEF Disconnect, Successor, PairState
  <2> QED
    BY <1>4, <2>1 DEF Disconnect
<1>5. CASE PollAgain(p)
  <2> DEFINE r == [inst[p] EXCEPT !.poll = AfterPause(p)]
  <2>1. Successor(p, r)
    BY <1>1, <1>2, <1>5, PairRecords DEF PollAgain, AfterPause, Successor, PairState
  <2> QED
    BY <1>5, <2>1 DEF PollAgain
<1>6. CASE Receive(p)
  <2> DEFINE r == [inst[p] EXCEPT !.callback = TRUE]
  <2>1. Successor(p, r)
    BY <1>1, <1>2, <1>6, PairRecords DEF Receive, Successor, PairState
  <2> QED
    BY <1>6, <2>1 DEF Receive
<1>7. CASE Report(p)
  <2> DEFINE r == [inst[p] EXCEPT !.callback = FALSE, !.fresh = TRUE, !.error = FALSE]
  <2>1. Successor(p, r)
    BY <1>1, <1>2, <1>7, PairRecords DEF Report, Successor, PairState
  <2> QED
    BY <1>7, <2>1 DEF Report
<1>8. CASE Expire(p)
  <2> DEFINE r == [inst[p] EXCEPT !.fresh = FALSE]
  <2>1. Successor(p, r)
    BY <1>1, <1>2, <1>8, PairRecords DEF Expire, Successor, PairState
  <2> QED
    BY <1>8, <2>1 DEF Expire
<1>9. CASE CameraConnect(p)
  <2> DEFINE r == [inst[p] EXCEPT !.camera = "on"]
  <2>1. Successor(p, r)
    BY <1>1, <1>2, <1>9, PairRecords DEF CameraConnect, Successor, PairState
  <2> QED
    BY <1>9, <2>1 DEF CameraConnect
<1>10. CASE Frame(p)
  <2> DEFINE r == [inst[p] EXCEPT !.frame = TRUE]
  <2>1. Successor(p, r)
    BY <1>1, <1>2, <1>10, PairRecords DEF Frame, Successor, PairState
  <2> QED
    BY <1>10, <2>1 DEF Frame
<1>11. CASE AgeFrame(p)
  <2> DEFINE r == [inst[p] EXCEPT !.frame = FALSE]
  <2>1. Successor(p, r)
    BY <1>1, <1>2, <1>11, PairRecords DEF AgeFrame, Successor, PairState
  <2> QED
    BY <1>11, <2>1 DEF AgeFrame
<1>12. CASE CameraEnds(p)
  <2> DEFINE r == [inst[p] EXCEPT !.camera = "wait", !.frame = FALSE]
  <2>1. Successor(p, r)
    BY <1>1, <1>2, <1>12, PairRecords DEF CameraEnds, Successor, PairState
  <2> QED
    BY <1>12, <2>1 DEF CameraEnds
<1>13. CASE CameraAgain(p)
  <2> DEFINE r == [inst[p] EXCEPT !.camera = AfterPause(p)]
  <2>1. Successor(p, r)
    BY <1>1, <1>2, <1>13, PairRecords DEF CameraAgain, AfterPause, Successor, PairState
  <2> QED
    BY <1>13, <2>1 DEF CameraAgain
<1> QED
  BY <1>3, <1>4, <1>5, <1>6, <1>7, <1>8, <1>9, <1>10, <1>11, <1>12, <1>13 DEF PairStep

(* Such a step keeps the invariant: the pair keeps its setting and context,*)
(* or has ended, which it can only when its context is cancelled.          *)
LEMMA PutKeeps ==
    ASSUME IInv, NEW p \in Pairs, NEW r, Successor(p, r), Put(p, r)
    PROVE  IInv'
<1>1. /\ inst \in [Pairs -> PairState] /\ inst'[p] \in {r, Off}
      /\ r.poll = "done" /\ r.camera = "done" => inst'[p] = Off
      /\ inst'[p] = Off => ~r.live
      /\ \A q \in Pairs : q # p => inst'[q] = inst[q]
      /\ inst' \in [Pairs -> PairState]
      /\ UNCHANGED <<stored, config, holder, job, set, closed, unsure>>
  BY PairRecords DEF Put, Successor, lifecycle, IInv, TypeOK
<1>2. \A q \in Pairs : inst'[q].live = inst[q].live
  <2>1. inst'[p].live = inst[p].live
    <3>1. CASE inst'[p] = Off
      BY <1>1, <3>1, PairRecords DEF Successor, PairState
    <3>2. CASE inst'[p] = r
      BY <3>2 DEF Successor
    <3> QED
      BY <1>1, <3>1, <3>2
  <2> QED
    BY <1>1, <2>1
<1>3. \A q \in Pairs : inst'[q] = Off \/ (inst[q] # Off /\ inst'[q].setting = inst[q].setting)
  BY <1>1 DEF Successor
<1>4. \A s \in Serials : set[s] # None => /\ <<s, set[s]>> \in Pairs
                                          /\ inst[<<s, set[s]>>].live
  BY DEF IInv, TypeOK, Pairs
<1>5. Running' = Running
  BY <1>1, <1>2, <1>3, <1>4, PairRecords DEF Running
<1>6. TypeOK'
  BY <1>1, <1>2, <1>4 DEF IInv, TypeOK
<1>7. WorkersInv'
  BY <1>1, <1>2, <1>3, PairRecords DEF IInv, WorkersInv, Successor
<1>8. AwaitedInv'
  BY <1>1, <1>3 DEF IInv, AwaitedInv
<1>9. LockInv'
  BY <1>1 DEF IInv, LockInv
<1>10. SectionInv'
  BY <1>1, <1>5 DEF IInv, SectionInv, Settled
<1>11. OnePairPerPrinter'
  <2> SUFFICES ASSUME NEW s \in Serials, NEW k \in Slots, NEW l \in Slots,
                      inst'[<<s, k>>] # Off, inst'[<<s, l>>] # Off
               PROVE  k = l
    BY DEF OnePairPerPrinter
  <2>1. <<s, k>> \in Pairs /\ <<s, l>> \in Pairs
    BY DEF Pairs
  <2> QED
    BY <1>3, <2>1 DEF IInv, OnePairPerPrinter
<1> QED
  BY <1>6, <1>7, <1>8, <1>9, <1>10, <1>11 DEF IInv

-----------------------------------------------------------------------------
(* The critical section *)

(* Whoever is inside holds the mutex, and nobody else is inside.           *)
LEMMA Alone ==
    ASSUME IInv, NEW a \in Actors
    PROVE  /\ job[a].pc # "idle" =>
                holder = a /\ \A b \in Actors \ {a} : job[b].pc = "idle"
           /\ holder = None => job[a].pc = "idle"
BY Distinct DEF IInv, LockInv

(* Steps that leave map and pairs alone leave alone what runs.             *)
LEMMA SamePairs ==
    ASSUME IInv, UNCHANGED <<set, inst>>
    PROVE  WorkersInv' /\ OnePairPerPrinter' /\ Running' = Running
BY DEF IInv, WorkersInv, OnePairPerPrinter, Running

(* Entering: a save has its form, close wants no printers.                 *)
LEMMA LockKeeps ==
    ASSUME IInv, NEW a \in Actors, NEW pc, NEW want \in Lists, Lock(a, pc, want),
           \/ pc = "store" /\ a # Closer
           \/ pc = "stop" /\ a = Closer /\ want = NoPrinters /\ ~closed
    PROVE  IInv'
<1>1. /\ holder = None /\ holder' = a /\ \A b \in Actors : job[b].pc = "idle"
      /\ UNCHANGED <<stored, config, set, closed, inst, unsure>>
  BY Alone DEF Lock, MutexFree
<1>2. /\ job'[a].pc = pc /\ job'[a].want = want
      /\ \A b \in Actors \ {a} : job'[b] = job[b]
      /\ job' \in [Actors -> [pc : {"idle", "store", "stop", "wait", "start"},
                              want : Lists, removed : SUBSET Pairs]]
  BY DEF Lock, Idle, IInv, TypeOK
<1>3. TypeOK'
  BY <1>1, <1>2 DEF IInv, TypeOK
<1>4. LockInv'
  BY <1>1, <1>2 DEF LockInv
<1>5. AwaitedInv'
  BY <1>1 DEF IInv, AwaitedInv
<1>6. SectionInv'
  BY <1>1, <1>2, SamePairs, Distinct DEF IInv, SectionInv, Settled
<1> QED
  BY <1>1, <1>3, <1>4, <1>5, <1>6, SamePairs DEF IInv

(* Storing: the configuration is the form, in SQLite and in memory.        *)
LEMMA StoreKeeps ==
    ASSUME IInv, NEW a \in Actors, Store(a)
    PROVE  IInv'
<1>1. /\ holder = a /\ holder' = a /\ \A b \in Actors \ {a} : job[b].pc = "idle"
      /\ a # Closer /\ ~closed /\ job[a].want \in Lists
      /\ stored' = job[a].want /\ config' = job[a].want /\ unsure' = FALSE
      /\ UNCHANGED <<set, closed, inst>>
  BY Alone DEF Store, IInv, SectionInv, TypeOK
<1>2. /\ job'[a].pc = "stop" /\ job'[a].want = job[a].want
      /\ \A b \in Actors \ {a} : job'[b] = job[b]
      /\ job' \in [Actors -> [pc : {"idle", "store", "stop", "wait", "start"},
                              want : Lists, removed : SUBSET Pairs]]
  BY DEF Store, IInv, TypeOK
<1>3. TypeOK'
  BY <1>1, <1>2 DEF IInv, TypeOK
<1>4. LockInv'
  BY <1>1, <1>2 DEF LockInv
<1>5. AwaitedInv'
  BY <1>1 DEF Store, IInv, AwaitedInv
<1>6. SectionInv'
  BY <1>1, <1>2, Distinct DEF IInv, SectionInv
<1> QED
  BY <1>1, <1>3, <1>4, <1>5, <1>6, SamePairs DEF IInv

(* Failing: memory and pairs are as before, only SQLite may not be.        *)
LEMMA StoreFailsKeeps ==
    ASSUME IInv, NEW a \in Actors, StoreFails(a)
    PROVE  IInv'
<1>1. /\ holder = a /\ holder' = None /\ \A b \in Actors \ {a} : job[b].pc = "idle"
      /\ job[a].pc = "store" /\ job[a].want \in Lists
      /\ UNCHANGED <<config, set, closed, inst>>
      /\ UNCHANGED <<stored, unsure>> \/ (stored' = job[a].want /\ unsure' = TRUE)
  BY Alone DEF StoreFails, IInv, TypeOK
<1>2. /\ job'[a].pc = "idle" /\ \A b \in Actors \ {a} : job'[b] = job[b]
      /\ job' \in [Actors -> [pc : {"idle", "store", "stop", "wait", "start"},
                              want : Lists, removed : SUBSET Pairs]]
  BY Distinct DEF StoreFails, Idle, IInv, TypeOK
<1>3. TypeOK'
  BY <1>1, <1>2 DEF IInv, TypeOK
<1>4. LockInv'
  BY <1>1, <1>2, Distinct DEF LockInv
<1>5. AwaitedInv'
  BY <1>1 DEF IInv, AwaitedInv
<1>6. SectionInv'
  BY <1>1, <1>2, SamePairs, Distinct DEF IInv, SectionInv, Settled
<1> QED
  BY <1>1, <1>3, <1>4, <1>5, <1>6, SamePairs DEF IInv

(* Stopping: what remains in the map is wanted as it is; what was taken    *)
(* out is cancelled and awaited.                                           *)
LEMMA StopKeeps ==
    ASSUME IInv, NEW a \in Actors, Stop(a)
    PROVE  IInv'
<1> DEFINE gone == {<<s, set[s]>> : s \in {t \in Serials :
                        set[t] # None /\ Changed(t, job[a].want)}}
<1>1. /\ holder = a /\ \A b \in Actors \ {a} : job[b].pc = "idle"
      /\ job[a].pc = "stop"
      /\ UNCHANGED <<stored, config, holder, closed, unsure>>
  BY Alone DEF Stop
<1>2. gone \subseteq Pairs
  BY DEF IInv, TypeOK, Pairs
<1>3. /\ job'[a].pc = "wait" /\ job'[a].want = job[a].want /\ job'[a].removed = gone
      /\ \A b \in Actors \ {a} : job'[b] = job[b]
      /\ job' \in [Actors -> [pc : {"idle", "store", "stop", "wait", "start"},
                              want : Lists, removed : SUBSET Pairs]]
  BY <1>2 DEF Stop, IInv, TypeOK
<1>4. \A p \in Pairs : p \in gone <=>
          set[p[1]] = p[2] /\ Changed(p[1], job[a].want)
  BY Distinct DEF Pairs
<1>5. /\ set' \in [Serials -> Slots \union {None}]
      /\ \A s \in Serials :
           set'[s] = IF set[s] # None /\ Changed(s, job[a].want) THEN None ELSE set[s]
  BY DEF Stop, Kept, IInv, TypeOK
<1>6. \A p \in Pairs :
        /\ inst'[p] = IF p \in gone THEN [inst[p] EXCEPT !.live = FALSE] ELSE inst[p]
        /\ inst[p] \in PairState
  BY DEF Stop, IInv, TypeOK
<1>7. \A p \in Pairs :
        /\ inst'[p] \in PairState
        /\ inst'[p].live <=> inst[p].live /\ p \notin gone
        /\ inst'[p].setting = inst[p].setting /\ inst'[p].poll = inst[p].poll
        /\ inst'[p].camera = inst[p].camera /\ inst'[p].frame = inst[p].frame
  <2> HIDE DEF gone
  <2> TAKE p \in Pairs
  <2>1. CASE p \in gone
    BY <1>6, <2>1 DEF PairState
  <2>2. CASE p \notin gone
    BY <1>6, <2>2 DEF PairState
  <2> QED
    BY <2>1, <2>2
<1>8. \A p \in Pairs : inst'[p] = Off <=> inst[p] = Off
  <2> SUFFICES ASSUME NEW p \in Pairs PROVE inst'[p] = Off <=> inst[p] = Off
    OBVIOUS
  <2>1. CASE inst[p] = Off
    BY <1>4, <1>6, <2>1 DEF Off
  <2>2. CASE inst[p] # Off
    BY <1>7, <2>2, PairRecords, Distinct DEF IInv, WorkersInv
  <2> QED
    BY <2>1, <2>2
<1>9. TypeOK'
  <2>1. \A s \in Serials : set'[s] # None => inst'[<<s, set'[s]>>].live
    <3> SUFFICES ASSUME NEW s \in Serials, set'[s] # None
                 PROVE  inst'[<<s, set'[s]>>].live
      OBVIOUS
    <3>1. /\ set'[s] = set[s] /\ ~Changed(s, job[a].want)
          /\ <<s, set[s]>> \in Pairs /\ inst[<<s, set[s]>>].live
      BY <1>5 DEF IInv, TypeOK, Pairs
    <3> QED
      BY <1>4, <1>7, <3>1
  <2>2. inst' \in [Pairs -> PairState]
    BY <1>7 DEF Stop
  <2> QED
    BY <1>1, <1>3, <1>5, <2>1, <2>2 DEF IInv, TypeOK
<1>10. WorkersInv'
  <2> SUFFICES ASSUME NEW p \in Pairs
               PROVE  /\ inst'[p] = Off \/ inst'[p].setting \in Settings
                      /\ inst'[p].live => /\ inst'[p].poll # "done" /\ inst'[p].camera # "done"
                                          /\ set'[p[1]] = p[2]
                      /\ inst'[p].frame => inst'[p].camera = "on"
    BY DEF WorkersInv
  <2>1. inst'[p].live => set'[p[1]] = p[2]
    BY <1>4, <1>5, <1>7 DEF IInv, WorkersInv, Pairs
  <2> QED
    BY <1>7, <1>8, <2>1 DEF IInv, WorkersInv
<1>11. AwaitedInv'
  <2> SUFFICES ASSUME NEW p \in Pairs, inst'[p] # Off, set'[p[1]] # p[2]
               PROVE  p \in gone
    BY <1>3 DEF AwaitedInv
  <2>1. set[p[1]] = p[2]
    BY <1>1, <1>8 DEF IInv, AwaitedInv
  <2> QED
    BY <1>4, <1>5, <2>1 DEF Pairs
<1>12. LockInv'
  BY <1>1, <1>3 DEF LockInv, IInv
<1>13. SectionInv'
  <2>1. \A s \in Serials : Running'[s] \in {None, job[a].want[s]}
    <3> SUFFICES ASSUME NEW s \in Serials, set'[s] # None
                 PROVE  inst'[<<s, set'[s]>>].setting = job[a].want[s]
      BY DEF Running
    <3>1. set'[s] = set[s] /\ ~Changed(s, job[a].want) /\ <<s, set[s]>> \in Pairs
      BY <1>5 DEF IInv, TypeOK, Pairs
    <3> QED
      BY <1>7, <3>1 DEF Changed
  <2> QED
    BY <1>1, <1>3, <2>1, Distinct DEF IInv, SectionInv
<1>14. OnePairPerPrinter'
  BY <1>8 DEF IInv, OnePairPerPrinter, Pairs
<1> QED
  BY <1>9, <1>10, <1>11, <1>12, <1>13, <1>14 DEF IInv

(* Waiting ends when every cancelled pair has ended.                       *)
LEMMA WorkersStoppedKeeps ==
    ASSUME IInv, NEW a \in Actors, WorkersStopped(a)
    PROVE  IInv'
<1>1. /\ holder = a /\ \A b \in Actors \ {a} : job[b].pc = "idle"
      /\ job[a].pc = "wait" /\ \A p \in job[a].removed : inst[p] = Off
      /\ UNCHANGED <<stored, config, holder, set, closed, inst, unsure>>
  BY Alone DEF WorkersStopped
<1>2. /\ job'[a].pc = "start" /\ job'[a].want = job[a].want
      /\ \A b \in Actors \ {a} : job'[b] = job[b]
      /\ job' \in [Actors -> [pc : {"idle", "store", "stop", "wait", "start"},
                              want : Lists, removed : SUBSET Pairs]]
  BY DEF WorkersStopped, IInv, TypeOK
<1>3. \A p \in Pairs : inst[p] # Off => set[p[1]] = p[2]
  BY <1>1 DEF IInv, AwaitedInv
<1>4. TypeOK'
  BY <1>1, <1>2 DEF IInv, TypeOK
<1>5. LockInv'
  BY <1>1, <1>2 DEF LockInv, IInv
<1>6. AwaitedInv'
  BY <1>1, <1>3 DEF AwaitedInv
<1>7. SectionInv'
  BY <1>1, <1>2, SamePairs, Distinct DEF IInv, SectionInv
<1> QED
  BY <1>1, <1>3, <1>4, <1>5, <1>6, <1>7, SamePairs DEF IInv

(* Starting: only a printer without any pair gets one, and what runs then  *)
(* is what was wanted.                                                     *)
LEMMA StartKeeps ==
    ASSUME IInv, NEW a \in Actors, Start(a)
    PROVE  IInv'
<1> DEFINE want == job[a].want
           added == {s \in Serials : set[s] = None /\ want[s] # None}
           slot == [s \in Serials |-> CHOOSE k \in FreeSlots(s) : TRUE]
<1>1. /\ holder = a /\ holder' = None /\ \A b \in Actors \ {a} : job[b].pc = "idle"
      /\ job[a].pc = "start" /\ ~closed /\ want \in Lists
      /\ want = IF a = Closer THEN NoPrinters ELSE config
      /\ closed' = (closed \/ a = Closer)
      /\ UNCHANGED <<stored, config, unsure>>
  BY Alone DEF Start, IInv, SectionInv, TypeOK
<1>2. /\ job' \in [Actors -> [pc : {"idle", "store", "stop", "wait", "start"},
                              want : Lists, removed : SUBSET Pairs]]
      /\ \A b \in Actors : job'[b].pc = "idle"
  BY <1>1, Distinct DEF Start, Idle, IInv, TypeOK
<1>3. \A s \in added : slot[s] \in Slots /\ inst[<<s, slot[s]>>] = Off
  BY DEF Start, FreeSlots
<1>4. \A s \in Serials : set'[s] = IF s \in added THEN slot[s] ELSE set[s]
  BY DEF Start
<1>5. \A p \in Pairs : inst'[p] = IF p[1] \in added /\ p[2] = slot[p[1]]
                                  THEN New(want[p[1]]) ELSE inst[p]
  BY DEF Start
<1>6. \A p \in Pairs : inst[p] # Off => set[p[1]] = p[2]
  BY <1>1 DEF IInv, AwaitedInv
<1>7. \A s \in added : want[s] \in Settings
  BY <1>1, Distinct
<1>8. \A s \in Serials : set[s] # None =>
          /\ <<s, set[s]>> \in Pairs /\ inst[<<s, set[s]>>].live
          /\ inst[<<s, set[s]>>].setting = want[s]
  <2> SUFFICES ASSUME NEW s \in Serials, set[s] # None
               PROVE  /\ <<s, set[s]>> \in Pairs /\ inst[<<s, set[s]>>].live
                      /\ inst[<<s, set[s]>>].setting = want[s]
    OBVIOUS
  <2>1. <<s, set[s]>> \in Pairs /\ inst[<<s, set[s]>>].live
    BY DEF IInv, TypeOK, Pairs
  <2>2. inst[<<s, set[s]>>].setting # None
    BY <2>1, PairRecords, Distinct DEF IInv, WorkersInv
  <2>3. Running[s] \in {None, want[s]} /\ Running[s] = inst[<<s, set[s]>>].setting
    BY <1>1, RunningOf DEF IInv, SectionInv
  <2> QED
    BY <2>1, <2>2, <2>3
<1> HIDE DEF want, added, slot
<1>9. \A p \in Pairs : p[1] \in Serials /\ p[2] \in Slots /\ p = <<p[1], p[2]>>
  BY DEF Pairs
<1>10. \A s \in Serials : s \in added <=> set[s] = None /\ want[s] # None
  BY DEF added
<1>11. \A p \in Pairs : inst'[p] # Off => set'[p[1]] = p[2]
  BY <1>4, <1>5, <1>6, <1>9, <1>10, Distinct
<1>12. \A s \in Serials : set'[s] # None =>
          /\ <<s, set'[s]>> \in Pairs /\ inst'[<<s, set'[s]>>].live
          /\ inst'[<<s, set'[s]>>].setting = want[s]
  <2> SUFFICES ASSUME NEW s \in Serials, set'[s] # None
               PROVE  /\ <<s, set'[s]>> \in Pairs /\ inst'[<<s, set'[s]>>].live
                      /\ inst'[<<s, set'[s]>>].setting = want[s]
    OBVIOUS
  <2>1. CASE s \in added
    <3>1. <<s, slot[s]>> \in Pairs
      BY <1>3, <2>1 DEF Pairs
    <3>2. inst'[<<s, slot[s]>>] = New(want[s]) /\ set'[s] = slot[s]
      BY <1>4, <1>5, <2>1, <3>1
    <3> QED
      BY <1>7, <2>1, <3>1, <3>2, PairRecords
  <2>2. CASE s \notin added
    <3>1. set'[s] = set[s] /\ <<s, set[s]>> \in Pairs
      BY <1>4, <1>8, <2>2
    <3>2. inst'[<<s, set[s]>>] = inst[<<s, set[s]>>]
      BY <1>5, <2>2, <3>1
    <3> QED
      BY <1>8, <3>1, <3>2
  <2> QED
    BY <2>1, <2>2
<1>13. TypeOK'
  <2>1. inst' \in [Pairs -> PairState]
    <3>1. \A p \in Pairs : inst'[p] \in PairState
      BY <1>5, <1>7, PairRecords DEF IInv, TypeOK
    <3> QED
      BY <3>1 DEF Start
  <2>2. set' \in [Serials -> Slots \union {None}]
    <3>1. \A s \in Serials : set'[s] \in Slots \union {None}
      BY <1>3, <1>4 DEF IInv, TypeOK
    <3> QED
      BY <3>1 DEF Start
  <2>3. closed' \in BOOLEAN
    BY <1>1
  <2> QED
    BY <1>1, <1>2, <1>12, <2>1, <2>2, <2>3 DEF IInv, TypeOK
<1>14. WorkersInv'
  <2> SUFFICES ASSUME NEW p \in Pairs
               PROVE  /\ inst'[p] = Off \/ inst'[p].setting \in Settings
                      /\ inst'[p].live => /\ inst'[p].poll # "done" /\ inst'[p].camera # "done"
                                          /\ set'[p[1]] = p[2]
                      /\ inst'[p].frame => inst'[p].camera = "on"
    BY DEF WorkersInv
  <2>1. inst'[p].live => set'[p[1]] = p[2]
    BY <1>11, PairRecords
  <2> QED
    BY <1>5, <1>7, <2>1, PairRecords DEF IInv, WorkersInv
<1>15. AwaitedInv'
  BY <1>11 DEF AwaitedInv
<1>16. LockInv'
  BY <1>1, <1>2, Distinct DEF LockInv
<1>17. SectionInv'
  <2>1. \A s \in Serials : Running'[s] = want[s]
    <3> TAKE s \in Serials
    <3>1. Running'[s] = IF set'[s] = None THEN None ELSE inst'[<<s, set'[s]>>].setting
      BY DEF Running
    <3>2. set'[s] = None => want[s] = None
      BY <1>3, <1>4, <1>10, Distinct
    <3> QED
      BY <1>12, <3>1, <3>2
  <2>2. want \in [Serials -> Settings \union {None}]
    BY <1>1, Distinct
  <2>3. Running' = want
    BY <2>1, <2>2 DEF Running
  <2>4. Settled'
    BY <1>1, <2>3 DEF Settled
  <2> QED
    BY <1>1, <1>2, <2>4, Distinct DEF IInv, SectionInv
<1>18. OnePairPerPrinter'
  <2> SUFFICES ASSUME NEW s \in Serials, NEW k \in Slots, NEW l \in Slots,
                      inst'[<<s, k>>] # Off, inst'[<<s, l>>] # Off
               PROVE  k = l
    BY DEF OnePairPerPrinter
  <2> QED
    BY <1>11 DEF Pairs
<1> QED
  BY <1>13, <1>14, <1>15, <1>16, <1>17, <1>18 DEF IInv

(* A restart runs what is stored.                                          *)
LEMMA RestartKeeps ==
    ASSUME IInv, Restart
    PROVE  IInv'
<1> DEFINE k == CHOOSE k \in Slots : TRUE
<1>1. k \in Slots
  BY ParametersAssumption
<1>2. /\ config' = stored /\ stored' = stored /\ holder' = None /\ stored \in Lists
      /\ closed' = FALSE /\ unsure' = FALSE
      /\ stored \in [Serials -> Settings \union {None}]
  BY Distinct DEF Restart, IInv, TypeOK
<1>3. /\ job' \in [Actors -> [pc : {"idle", "store", "stop", "wait", "start"},
                              want : Lists, removed : SUBSET Pairs]]
      /\ \A b \in Actors : job'[b].pc = "idle"
  BY Distinct DEF Restart, Idle
<1>4. /\ set' \in [Serials -> Slots \union {None}]
      /\ \A s \in Serials : set'[s] = IF stored[s] = None THEN None ELSE k
  BY <1>1 DEF Restart
<1>5. \A p \in Pairs : inst'[p] = IF p[2] = k /\ stored[p[1]] # None
                                  THEN New(stored[p[1]]) ELSE Off
  BY DEF Restart
<1> HIDE DEF k
<1>6. \A p \in Pairs : p[1] \in Serials /\ p[2] \in Slots
  BY DEF Pairs
<1>7. \A p \in Pairs : inst'[p] # Off => set'[p[1]] = p[2]
  BY <1>4, <1>5, <1>6
<1>8. \A s \in Serials : set'[s] # None =>
          /\ inst'[<<s, set'[s]>>] = New(stored[s]) /\ stored[s] \in Settings
  BY <1>1, <1>2, <1>4, <1>5 DEF Pairs
<1>9. \A p \in Pairs : stored[p[1]] # None => stored[p[1]] \in Settings
  BY <1>2, <1>6
<1>10. TypeOK'
  <2>1. \A p \in Pairs : inst'[p] \in PairState
    BY <1>5, <1>9, PairRecords
  <2>2. inst' \in [Pairs -> PairState]
    BY <2>1 DEF Restart
  <2> QED
    <3>1. \A s \in Serials : set'[s] # None => inst'[<<s, set'[s]>>].live
      BY <1>8, PairRecords
    <3> QED
      BY <1>2, <1>3, <1>4, <2>2, <3>1 DEF TypeOK
<1>11. WorkersInv'
  BY <1>5, <1>7, <1>9, PairRecords DEF WorkersInv
<1>12. AwaitedInv'
  BY <1>7 DEF AwaitedInv
<1>13. LockInv'
  BY <1>2, <1>3, Distinct DEF LockInv
<1>14. SectionInv'
  <2>1. \A s \in Serials : Running'[s] = stored[s]
    <3> TAKE s \in Serials
    <3>1. Running'[s] = IF set'[s] = None THEN None ELSE inst'[<<s, set'[s]>>].setting
      BY DEF Running
    <3>2. set'[s] = None => stored[s] = None
      BY <1>1, <1>4, Distinct
    <3> QED
      BY <1>8, <3>1, <3>2, PairRecords
  <2>2. Running' = stored
    BY <1>2, <2>1 DEF Running
  <2> QED
    BY <1>2, <1>3, <2>2, Distinct DEF SectionInv, Settled
<1>15. OnePairPerPrinter'
  <2> SUFFICES ASSUME NEW s \in Serials, NEW i \in Slots, NEW j \in Slots,
                      inst'[<<s, i>>] # Off, inst'[<<s, j>>] # Off
               PROVE  i = j
    BY DEF OnePairPerPrinter
  <2> QED
    BY <1>7 DEF Pairs
<1> QED
  BY <1>10, <1>11, <1>12, <1>13, <1>14, <1>15 DEF IInv

-----------------------------------------------------------------------------
(* The theorems *)

(* The edge starts without printers.                                       *)
LEMMA InitIInv == Init => IInv
<1> SUFFICES ASSUME Init PROVE IInv
  OBVIOUS
<1>1. TypeOK
  BY Distinct, PairRecords DEF Init, TypeOK, Idle, NoPrinters
<1>2. WorkersInv /\ AwaitedInv /\ OnePairPerPrinter
  BY PairRecords DEF Init, WorkersInv, AwaitedInv, OnePairPerPrinter, Pairs
<1>3. LockInv
  BY Distinct DEF Init, LockInv, Idle
<1>4. Running = NoPrinters
  BY DEF Init, Running, NoPrinters
<1>5. SectionInv
  BY <1>4, Distinct DEF Init, SectionInv, Settled, Idle
<1> QED
  BY <1>1, <1>2, <1>3, <1>5 DEF IInv

(* Every step keeps the invariant.                                         *)
LEMMA NextIInv == IInv /\ [Next]_vars => IInv'
<1> SUFFICES ASSUME IInv, [Next]_vars PROVE IInv'
  OBVIOUS
<1>1. ASSUME NEW a \in Actors, Save(a) PROVE IInv'
  <2>1. PICK form \in Forms : Lock(a, "store", form)
    BY <1>1 DEF Save
  <2>2. form \in Lists /\ a # Closer
    BY <1>1, ParametersAssumption DEF Lists, Save
  <2> QED
    BY <2>1, <2>2, LockKeeps
<1>2. CASE Close
  BY <1>2, LockKeeps, Distinct DEF Close
<1>3. ASSUME NEW a \in Actors, Store(a) PROVE IInv'
  BY <1>3, StoreKeeps
<1>4. ASSUME NEW a \in Actors, StoreFails(a) PROVE IInv'
  BY <1>4, StoreFailsKeeps
<1>5. ASSUME NEW a \in Actors, Stop(a) PROVE IInv'
  BY <1>5, StopKeeps
<1>6. ASSUME NEW a \in Actors, WorkersStopped(a) PROVE IInv'
  BY <1>6, WorkersStoppedKeeps
<1>7. ASSUME NEW a \in Actors, Start(a) PROVE IInv'
  BY <1>7, StartKeeps
<1>8. CASE Restart
  BY <1>8, RestartKeeps
<1>9. ASSUME NEW p \in Pairs, PairStep(p) PROVE IInv'
  <2>1. PICK r : Successor(p, r) /\ Put(p, r)
    BY <1>9, PairStepPuts DEF IInv
  <2> QED
    BY <2>1, PutKeeps
<1>10. CASE UNCHANGED vars
  BY <1>10 DEF vars, lifecycle, IInv, TypeOK, WorkersInv, AwaitedInv, LockInv,
               SectionInv, Settled, Running, OnePairPerPrinter
<1> QED
  BY <1>1, <1>2, <1>3, <1>4, <1>5, <1>6, <1>7, <1>8, <1>9, <1>10 DEF Next

(* The inductive invariant holds in every behaviour.                       *)
LEMMA Invariance == Spec => []IInv
BY InitIInv, NextIInv, PTL DEF Spec

(* The state is well typed, and every printer in the map is a live one.    *)
THEOREM TypeCorrect == Spec => []TypeOK
<1>1. IInv => TypeOK
  BY DEF IInv
<1> QED
  BY <1>1, Invariance, PTL

(* No printer ever has two pairs of workers, whatever saves, closings and  *)
(* restarts interleave with them.                                          *)
THEOREM OnePairPerPrinterHolds == Spec => []OnePairPerPrinter
<1>1. IInv => OnePairPerPrinter
  BY DEF IInv
<1> QED
  BY <1>1, Invariance, PTL

(* Whenever the mutex is free, exactly the configured printers run.        *)
THEOREM RunningIsSavedHolds == Spec => []RunningIsSaved
<1>1. ASSUME IInv PROVE RunningIsSaved
  <2>1. ASSUME holder = None, NEW p \in Pairs, set[p[1]] # p[2] PROVE inst[p] = Off
    BY <1>1, <2>1, Alone DEF IInv, AwaitedInv
  <2> QED
    BY <1>1, <2>1 DEF IInv, SectionInv, Settled, RunningIsSaved
<1> QED
  BY <1>1, Invariance, PTL

(* A snapshot is only ever answered from the pair in the map and from the  *)
(* camera connection it has.                                               *)
THEOREM ServesRunningCameraHolds == Spec => []ServesRunningCamera
<1>1. IInv => ServesRunningCamera
  BY DEF IInv, WorkersInv, ServesRunningCamera, Servable
<1> QED
  BY <1>1, Invariance, PTL

-----------------------------------------------------------------------------
(***************************************************************************)
(* MachinesPage: what holds of the page, whatever it is doing.             *)
(***************************************************************************)

\* The expiry timer and polling run whenever the page is looked at.
Timed(p) ==
    Looking(p) => p.polling /\ p.timer = IF p.access = Null THEN Null ELSE p.access.left

CardsAllowed(p) == p.cards # Null => Looking(p) /\ p.access # Null

AtMostOne(p) == \A o \in Ops : p.op[o].pc # "none" => p.current = o \/ p.op[o].aborted

\* While the current operation fetches images, the cards are its own.
ImagesBelong(p) == \A o \in Ops : p.current = o /\ p.op[o].pc = "images" => p.cards = o

BlobsFit(p) ==
    /\ \A b \in p.blobs : b[1] = p.cards
    /\ \A i \in Images : p.image[i] # "none" => <<p.cards, i>> \in p.blobs

PageOK(p) == p \in Page /\ CardsAllowed(p) /\ AtMostOne(p) /\ ImagesBelong(p) /\ BlobsFit(p)

PageAndTimer(p) == PageOK(p) /\ Timed(p)

\* Keys the edge can do with: none, and it may download them; or the present one, the
\* throttle counting from its download.
KeysFit ==
    \/ keys = {} /\ attempted = KeyRetry
    \/ keys = {signing} /\ attempted = Capped(fetched, KeyRetry)

\* As long as nothing went wrong, the page's token has the Worker's key and the edge
\* will know it.
KeyIsGood == disturbed \/ (KeysFit /\ (page.access # Null => page.access.key = signing))

PageIInv == PageTypeOK /\ PageAndTimer(page) /\ KeyIsGood /\ StopsForCause

-----------------------------------------------------------------------------
(* The page's functions, field by field. *)

\* What is known of an operation.
PageOp == [pc : {"none", "data", "printers", "images"}, aborted : BOOLEAN,
           crossed : BOOLEAN, fetching : SUBSET Images]

SameView(p, q) ==
    q.visible = p.visible /\ q.suspended = p.suspended /\ q.stopped = p.stopped
SameAccess(p, q) == q.access = p.access /\ q.timer = p.timer /\ q.polling = p.polling
SameScreen(p, q) == q.cards = p.cards /\ q.image = p.image /\ q.blobs = p.blobs
SameOps(p, q)    == q.current = p.current /\ q.op = p.op

\* The page with another operation o.
WithOp(p, o, new, current) == [p EXCEPT !.op[o] = new, !.current = current]

(* A page's operation is replaced, and nothing but what is current besides. *)
LEMMA OpFacts ==
    ASSUME NEW p \in Page, NEW o \in Ops, NEW new \in PageOp, NEW current \in Ops \union {Null}
    PROVE  LET q == WithOp(p, o, new, current) IN
           /\ q \in Page /\ SameView(p, q) /\ SameAccess(p, q) /\ SameScreen(p, q)
           /\ q.current = current
           /\ \A u \in Ops : q.op[u] = IF u = o THEN new ELSE p.op[u]
<1> DEFINE op == [p.op EXCEPT ![o] = new]
           r == [p EXCEPT !.op = op, !.current = current]
<1>1. p.op \in [Ops -> PageOp]
  BY DEF Page, PageOp
<1>2. op \in [Ops -> PageOp] /\ \A u \in Ops : op[u] = IF u = o THEN new ELSE p.op[u]
  BY <1>1
<1>3. WithOp(p, o, new, current) = r
  BY DEF Page, WithOp
<1> HIDE DEF op
<1>4. r \in Page /\ SameView(p, r) /\ SameAccess(p, r) /\ SameScreen(p, r)
      /\ r.current = current /\ r.op = op
  BY <1>2 DEF Page, PageOp, SameView, SameAccess, SameScreen
<1> HIDE DEF r
<1> QED
  BY <1>2, <1>3, <1>4

LEMMA ClearFacts ==
    ASSUME NEW p \in Page
    PROVE  LET q == ClearDashboard(p) IN
           /\ q \in Page /\ SameView(p, q) /\ SameAccess(p, q) /\ SameOps(p, q)
           /\ q.cards = Null /\ q.blobs = {} /\ \A i \in Images : q.image[i] = "none"
BY DEF ClearDashboard, NoImages, Page, SameView, SameAccess, SameOps

LEMMA CancelFacts ==
    ASSUME NEW p \in Page
    PROVE  LET q == CancelRefresh(p) IN
           /\ q \in Page /\ SameView(p, q) /\ SameAccess(p, q) /\ SameScreen(p, q)
           /\ q.current = Null
           /\ \A o \in Ops : /\ q.op[o].pc = p.op[o].pc
                             /\ q.op[o].aborted = (p.op[o].aborted \/ p.current = o)
<1>1. CASE p.current = Null
  BY <1>1, PageAssumption DEF CancelRefresh, SameView, SameAccess, SameScreen, Page
<1>2. CASE p.current # Null
  <2> DEFINE o == p.current
             new == [p.op[o] EXCEPT !.aborted = TRUE]
             q == [p EXCEPT !.op[o] = new, !.current = Null]
  <2>1. o \in Ops /\ p.op[o] \in PageOp
    BY <1>2 DEF Page, PageOp
  <2>2. new \in PageOp /\ new.pc = p.op[o].pc /\ new.aborted = TRUE
    BY <2>1 DEF PageOp
  <2>3. CancelRefresh(p) = q
    BY <1>2 DEF CancelRefresh, Page
  <2>4. q = WithOp(p, o, new, Null)
    BY DEF WithOp
  <2> HIDE DEF new, q
  <2>5. /\ q \in Page /\ SameView(p, q) /\ SameAccess(p, q) /\ SameScreen(p, q)
        /\ q.current = Null
        /\ \A u \in Ops : q.op[u] = IF u = o THEN new ELSE p.op[u]
    BY <2>1, <2>2, <2>4, OpFacts
  <2>6. \A u \in Ops : p.op[u].aborted \in BOOLEAN
    BY DEF Page
  <2> QED
    BY <2>2, <2>3, <2>5, <2>6
<1> QED
  BY <1>1, <1>2

LEMMA PauseFacts ==
    ASSUME NEW p \in Page
    PROVE  LET q == Pause(p) IN
           /\ q \in Page /\ SameView(p, q) /\ q.access = p.access
           /\ q.cards = Null /\ q.blobs = {} /\ \A i \in Images : q.image[i] = "none"
           /\ q.current = Null
           /\ \A o \in Ops : /\ q.op[o].pc = p.op[o].pc
                             /\ q.op[o].aborted = (p.op[o].aborted \/ p.current = o)
<1> DEFINE r == [p EXCEPT !.polling = FALSE, !.timer = Null]
<1>1. r \in Page /\ SameView(p, r) /\ r.access = p.access /\ SameOps(p, r)
  BY DEF Page, SameView, SameOps
<1> HIDE DEF r
<1> DEFINE c == CancelRefresh(r)
<1>2. /\ c \in Page /\ SameView(r, c) /\ SameAccess(r, c) /\ c.current = Null
      /\ \A o \in Ops : /\ c.op[o].pc = r.op[o].pc
                        /\ c.op[o].aborted = (r.op[o].aborted \/ r.current = o)
  BY <1>1, CancelFacts
<1> HIDE DEF c
<1>3. Pause(p) = ClearDashboard(c)
  BY DEF Pause, c, r
<1> QED
  BY <1>1, <1>2, <1>3, ClearFacts DEF SameView, SameAccess, SameOps

(* A page that is paused is in order, whoever stops looking at it. *)
LEMMA PauseOK ==
    ASSUME NEW p \in Page, AtMostOne(p)
    PROVE  PageOK(Pause(p))
<1> DEFINE q == Pause(p)
<1>1. /\ q \in Page /\ q.cards = Null /\ q.blobs = {} /\ \A i \in Images : q.image[i] = "none"
      /\ q.current = Null
      /\ \A o \in Ops : /\ q.op[o].pc = p.op[o].pc
                        /\ q.op[o].aborted = (p.op[o].aborted \/ p.current = o)
  BY PauseFacts
<1> HIDE DEF q
<1>2. PageOK(q)
  BY <1>1, PageAssumption DEF PageOK, CardsAllowed, AtMostOne, ImagesBelong, BlobsFit
<1> QED
  BY <1>2 DEF q

LEMMA DenyFacts ==
    ASSUME NEW p \in Page, AtMostOne(p)
    PROVE  LET q == DenyAccess(p) IN PageAndTimer(q) /\ q.stopped /\ q.access = Null
<1> DEFINE r == [p EXCEPT !.stopped = TRUE, !.access = Null]
<1>1. r \in Page /\ r.stopped /\ r.access = Null /\ SameOps(p, r)
  BY DEF Page, SameOps
<1>2. DenyAccess(p) = Pause(r)
  BY DEF DenyAccess
<1> HIDE DEF r
<1>3. AtMostOne(r)
  BY <1>1 DEF AtMostOne, SameOps
<1> QED
  BY <1>1, <1>2, <1>3, PauseFacts, PauseOK DEF PageAndTimer, Timed, Looking, SameView

LEMMA FinishFacts ==
    ASSUME NEW p, PageAndTimer(p), NEW o \in Ops
    PROVE  LET q == Finish(p, o) IN
           /\ PageAndTimer(q) /\ SameView(p, q) /\ SameAccess(p, q)
           /\ q.current = IF p.current = o THEN Null ELSE p.current
<1> DEFINE q == Finish(p, o)
           over == Over(p, o)
<1>1. p \in Page
  BY DEF PageAndTimer, PageOK
<1>2. /\ over \in PageOp
      /\ over.pc = "none"
  <2>1. (p.cards = o /\ p.op[o].aborted) \in BOOLEAN
    OBVIOUS
  <2> QED
    BY <2>1 DEF Over, NotRunning, Operation, PageOp
<1> DEFINE current == IF p.current = o THEN Null ELSE p.current
<1>3. q = WithOp(p, o, over, current)
  BY DEF Finish, WithOp
<1>4. current \in Ops \union {Null}
  BY <1>1 DEF Page
<1> HIDE DEF over, q
<1>5. /\ q \in Page /\ SameView(p, q) /\ SameAccess(p, q) /\ SameScreen(p, q)
      /\ q.current = current
      /\ \A u \in Ops : q.op[u] = IF u = o THEN over ELSE p.op[u]
  BY <1>1, <1>2, <1>3, <1>4, OpFacts
<1>6. Timed(q) /\ CardsAllowed(q) /\ BlobsFit(q)
  BY <1>5 DEF PageAndTimer, PageOK, Timed, CardsAllowed, BlobsFit, Looking, SameView, SameAccess, SameScreen
<1>7. AtMostOne(q) /\ ImagesBelong(q)
  BY <1>2, <1>5, PageAssumption DEF PageAndTimer, PageOK, AtMostOne, ImagesBelong, SameScreen
<1>8. PageAndTimer(q)
  BY <1>5, <1>6, <1>7 DEF PageAndTimer, PageOK
<1> QED
  BY <1>5, <1>8 DEF q

LEMMA CatchFacts ==
    ASSUME NEW p, PageAndTimer(p), NEW o \in Ops
    PROVE  LET q == Catch(p, o) IN PageAndTimer(q) /\ SameView(p, q) /\ SameAccess(p, q)
<1> DEFINE q == Catch(p, o)
           c == ClearDashboard(p)
           over == Over(c, o)
<1>1. CASE ~Active(p, o)
  BY <1>1, FinishFacts DEF Catch
<1>2. CASE Active(p, o)
  <2>1. p \in Page /\ p.current = o
    BY <1>2 DEF PageAndTimer, PageOK, Active
  <2>2. /\ c \in Page /\ SameView(p, c) /\ SameAccess(p, c) /\ SameOps(p, c)
        /\ c.cards = Null /\ c.blobs = {} /\ \A i \in Images : c.image[i] = "none"
    BY <2>1, ClearFacts
  <2>3. /\ over \in PageOp
        /\ over.pc = "none"
    <3>1. (c.cards = o /\ c.op[o].aborted) \in BOOLEAN
      OBVIOUS
    <3> QED
      BY <3>1 DEF Over, NotRunning, Operation, PageOp
  <2>4. q = [c EXCEPT !.op[o] = over, !.current = IF c.current = o THEN Null ELSE c.current]
    BY <1>2 DEF Catch, Finish
  <2>5. c.current = o
    BY <2>1, <2>2 DEF SameOps
  <2>6. q = WithOp(c, o, over, Null)
    BY <2>4, <2>5 DEF WithOp
  <2> HIDE DEF c, over, q
  <2>7. /\ q \in Page /\ SameView(c, q) /\ SameAccess(c, q) /\ SameScreen(c, q)
        /\ q.current = Null
        /\ \A u \in Ops : q.op[u] = IF u = o THEN over ELSE c.op[u]
    BY <2>2, <2>3, <2>6, OpFacts
  <2>8. SameView(p, q) /\ SameAccess(p, q) /\ \A u \in Ops : q.op[u] = IF u = o THEN over ELSE p.op[u]
    BY <2>2, <2>7 DEF SameView, SameAccess, SameOps
  <2>9. Timed(q) /\ CardsAllowed(q) /\ BlobsFit(q)
    BY <2>2, <2>7, <2>8 DEF PageAndTimer, PageOK, Timed, CardsAllowed, BlobsFit, Looking, SameView, SameAccess, SameScreen
  <2>10. AtMostOne(q) /\ ImagesBelong(q)
    BY <2>1, <2>3, <2>7, <2>8, PageAssumption DEF PageAndTimer, PageOK, AtMostOne, ImagesBelong
  <2>11. PageAndTimer(q)
    BY <2>7, <2>9, <2>10 DEF PageAndTimer, PageOK
  <2> QED
    BY <2>11, <2>8 DEF q
<1> QED
  BY <1>1, <1>2

LEMMA RefreshFacts ==
    ASSUME NEW p, PageAndTimer(p), NEW q \in Refresh(p)
    PROVE  PageAndTimer(q) /\ SameView(p, q) /\ SameAccess(p, q)
<1>1. CASE ~MayRefresh(p)
  BY <1>1 DEF Refresh, SameView, SameAccess
<1>2. CASE MayRefresh(p)
  <2>1. p \in Page /\ p.current = Null
    BY <1>2 DEF PageAndTimer, PageOK, MayRefresh
  <2>2. PICK o \in Free(p), pc \in {"data", "printers"} :
           q = [p EXCEPT !.current = o, !.op[o] = Operation(pc)]
    BY <1>2 DEF Refresh
  <2> DEFINE new == Operation(pc)
  <2>3. /\ new \in PageOp
        /\ new.pc \in {"data", "printers"} /\ ~new.aborted
    BY DEF Operation, PageOp
  <2>4. o \in Ops /\ p.op[o].pc = "none" /\ p.cards # o
    BY DEF Free
  <2> HIDE DEF new
  <2>5. q = WithOp(p, o, new, o)
    BY <2>1, <2>2 DEF new, Page, WithOp
  <2>6. /\ q \in Page /\ SameView(p, q) /\ SameAccess(p, q) /\ SameScreen(p, q)
        /\ q.current = o
        /\ \A u \in Ops : q.op[u] = IF u = o THEN new ELSE p.op[u]
    BY <2>1, <2>3, <2>4, <2>5, OpFacts
  <2>7. Timed(q) /\ CardsAllowed(q) /\ BlobsFit(q)
    BY <2>6 DEF PageAndTimer, PageOK, Timed, CardsAllowed, BlobsFit, Looking, SameView, SameAccess, SameScreen
  <2>8. AtMostOne(q) /\ ImagesBelong(q)
    BY <2>1, <2>3, <2>4, <2>6, PageAssumption DEF PageAndTimer, PageOK, AtMostOne, ImagesBelong
  <2> QED
    BY <2>6, <2>7, <2>8 DEF PageAndTimer, PageOK
<1> QED
  BY <1>1, <1>2

LEMMA ResumeFacts ==
    ASSUME NEW p, PageOK(p), p.cards = Null, NEW q \in Resume(p)
    PROVE  PageAndTimer(q) /\ SameView(p, q) /\ q.access \in {p.access, Null}
<1>1. CASE ~Looking(p)
  BY <1>1 DEF Resume, SameView, PageAndTimer, Timed
<1>2. CASE Looking(p)
  <2> DEFINE expired == p.access # Null /\ p.access.left = 0
             r == [p EXCEPT !.polling = TRUE, !.access = IF expired THEN Null ELSE @]
             t == Armed(r)
  <2>1. p \in Page
    BY DEF PageOK
  <2>2. /\ r \in Page /\ r.polling /\ r.access \in {p.access, Null}
        /\ SameView(p, r) /\ SameScreen(p, r) /\ SameOps(p, r)
    BY <2>1 DEF Page, SameView, SameScreen, SameOps
  <2>3. q \in Refresh(t)
    BY <1>2 DEF Resume
  <2> HIDE DEF r
  <2> DEFINE due == IF r.access = Null THEN Null ELSE r.access.left
  <2>4. due \in (0 .. TokenLife) \union {Null} /\ t = [r EXCEPT !.timer = due]
    BY <2>2 DEF Armed, Page, Tokens
  <2>5. /\ t \in Page /\ t.polling /\ t.access = r.access /\ t.timer = due
        /\ SameView(r, t) /\ SameScreen(r, t) /\ SameOps(r, t)
    <3> HIDE DEF due
    <3> QED
      BY <2>2, <2>4 DEF Page, SameView, SameScreen, SameOps
  <2> HIDE DEF t
  <2>6. Timed(t)
    BY <2>5 DEF Timed
  <2>7. CardsAllowed(t) /\ AtMostOne(t) /\ ImagesBelong(t) /\ BlobsFit(t)
    BY <1>2, <2>2, <2>5 DEF PageOK, CardsAllowed, AtMostOne, ImagesBelong, BlobsFit, SameScreen, SameOps
  <2> QED
    BY <2>2, <2>3, <2>5, <2>6, <2>7, RefreshFacts DEF PageAndTimer, PageOK, SameView, SameAccess
<1> QED
  BY <1>1, <1>2

LEMMA FetchedFacts ==
    ASSUME NEW p, PageAndTimer(p), NEW o \in Ops, NEW i
    PROVE  LET q == Fetched(p, o, i) IN PageAndTimer(q) /\ SameView(p, q) /\ SameAccess(p, q)
<1> DEFINE q == Fetched(p, o, i)
           rest == p.op[o].fetching \ {i}
           new == [p.op[o] EXCEPT !.fetching = rest]
           current == p.current
<1>1. CASE rest = {}
  BY <1>1, FinishFacts DEF Fetched
<1>2. CASE rest # {}
  <2>1. p \in Page /\ current \in Ops \union {Null}
    BY DEF PageAndTimer, PageOK, Page
  <2>2. p.op[o] \in PageOp
    BY <2>1 DEF Page, PageOp
  <2>3. new \in PageOp
    BY <2>2 DEF PageOp
  <2>4. new.pc = p.op[o].pc /\ new.aborted = p.op[o].aborted
    BY <2>2 DEF PageOp
  <2>5. q = WithOp(p, o, new, current)
    BY <1>2, <2>1, <2>2 DEF Fetched, WithOp, Page, PageOp
  <2> HIDE DEF q, new, current
  <2>6. /\ q \in Page /\ SameView(p, q) /\ SameAccess(p, q) /\ SameScreen(p, q)
        /\ q.current = current
        /\ \A u \in Ops : q.op[u] = IF u = o THEN new ELSE p.op[u]
    BY <2>1, <2>3, <2>5, OpFacts
  <2>7. Timed(q) /\ CardsAllowed(q) /\ BlobsFit(q)
    BY <2>6 DEF PageAndTimer, PageOK, Timed, CardsAllowed, BlobsFit, Looking, SameView, SameAccess, SameScreen
  <2>8. AtMostOne(q) /\ ImagesBelong(q)
    BY <2>4, <2>6 DEF PageAndTimer, PageOK, AtMostOne, ImagesBelong, SameScreen, current
  <2>9. PageAndTimer(q)
    BY <2>6, <2>7, <2>8 DEF PageAndTimer, PageOK
  <2> QED
    BY <2>6, <2>9 DEF q
<1> QED
  BY <1>1, <1>2

-----------------------------------------------------------------------------
(* The edge's keys. *)

LEMMA DownloadFits ==
    ASSUME AuthTypeOK, Download
    PROVE  AuthTypeOK' /\ KeysFit'
BY AgesAssumption DEF AuthTypeOK, Download, Published, KeysFit, Capped

LEMMA KeyFacts ==
    ASSUME AuthTypeOK, disturbed \/ KeysFit, NEW kid, Key(kid)
    PROVE  /\ AuthTypeOK' /\ signing' = signing /\ (disturbed => disturbed')
           /\ disturbed' \/ KeysFit'
<1>1. CASE Due(kid) /\ Download
  BY <1>1, DownloadFits DEF Download
<1>2. CASE Due(kid) /\ DownloadFails
  BY <1>2, AgesAssumption DEF DownloadFails, AuthTypeOK
<1>3. CASE UNCHANGED authVars
  BY <1>3 DEF authVars, AuthTypeOK, KeysFit, Capped
<1> QED
  BY <1>1, <1>2, <1>3 DEF Key

(* A token of the present key is accepted unless something went wrong: the *)
(* throttle and the age limit alone never stand in its way.                *)
LEMMA GoodTokenAccepted ==
    ASSUME AuthTypeOK, disturbed \/ KeysFit, Verified(signing, FALSE)
    PROVE  disturbed'
<1> SUFFICES ASSUME ~disturbed' PROVE FALSE
  OBVIOUS
<1>1. Key(signing) /\ ~(fetched' <= KeyMaxAge /\ signing \in keys')
  BY DEF Verified
<1>2. KeysFit /\ signing' = signing
  BY <1>1, KeyFacts
<1>3. CASE Due(signing)
  <2>1. Download
    BY <1>1, <1>3 DEF Key, DownloadFails
  <2> QED
    BY <1>1, <2>1, AgesAssumption DEF Download, Published
<1>4. CASE ~Due(signing)
  <2>1. keys' = keys /\ fetched' = fetched
    BY <1>1, <1>4 DEF Key, authVars
  <2>2. keys = {signing} /\ attempted = Capped(fetched, KeyRetry)
    BY <1>2, <1>4, AgesAssumption DEF KeysFit, Due
  <2>3. fetched <= KeyRefresh \/ attempted < KeyRetry
    BY <1>4, AgesAssumption DEF Due, AuthTypeOK
  <2>4. fetched <= KeyMaxAge
    BY <2>2, <2>3, AgesAssumption DEF Capped, AuthTypeOK
  <2> QED
    BY <1>1, <2>1, <2>2, <2>4
<1> QED
  BY <1>3, <1>4

LEMMA AuthTickFits ==
    ASSUME AuthTypeOK, disturbed \/ KeysFit, AuthTick
    PROVE  AuthTypeOK' /\ signing' = signing /\ disturbed' = disturbed /\ (disturbed' \/ KeysFit')
<1>1. AuthTypeOK'
  BY AgesAssumption DEF AuthTypeOK, AuthTick, Capped
<1>2. KeysFit => KeysFit'
  BY AgesAssumption DEF AuthTypeOK, AuthTick, Capped, KeysFit
<1> QED
  BY <1>1, <1>2 DEF AuthTick

-----------------------------------------------------------------------------
(* The actions. *)

\* The page keeps its token or loses it.
PageStep == PageAndTimer(page') /\ page'.access \in {page.access, Null} /\ eligible' = eligible

\* The keys stay fit unless something goes wrong.
AuthStep ==
    /\ AuthTypeOK' /\ signing' = signing /\ (disturbed => disturbed')
    /\ disturbed' \/ KeysFit'

LEMMA StepOK ==
    ASSUME PageIInv, PageStep, AuthStep, page'.stopped = page.stopped \/ ~eligible \/ disturbed'
    PROVE  PageIInv'
<1>1. page' \in Page
  BY DEF PageStep, PageAndTimer, PageOK
<1>2. PageTypeOK'
  BY <1>1 DEF PageIInv, PageTypeOK, PageStep, AuthStep
<1>3. KeyIsGood'
  BY DEF PageIInv, KeyIsGood, PageStep, AuthStep
<1>4. StopsForCause'
  BY DEF PageIInv, StopsForCause, PageStep, AuthStep
<1> QED
  BY <1>2, <1>3, <1>4 DEF PageIInv, PageStep

LEMMA SameAuth ==
    ASSUME PageIInv, UNCHANGED authVars
    PROVE  AuthStep
BY DEF PageIInv, PageTypeOK, AuthTypeOK, KeyIsGood, KeysFit, Capped, AuthStep, authVars

LEMMA CallAuth ==
    ASSUME PageIInv, NEW kid, Key(kid)
    PROVE  AuthStep
<1>1. AuthTypeOK /\ (disturbed \/ KeysFit)
  BY DEF PageIInv, PageTypeOK, KeyIsGood
<1> QED
  BY <1>1, KeyFacts DEF AuthStep

LEMMA GrantedOK ==
    ASSUME PageIInv, NEW o \in Ops, Granted(o)
    PROVE  PageIInv'
<1> DEFINE a == Credentials(Token, o)
<1>1. page \in Page /\ signing \in Keys /\ PageAndTimer(page)
  BY DEF PageIInv, PageTypeOK, AuthTypeOK
<1>2. a \in Tokens /\ a.key = signing /\ a.left \in 0 .. TokenLife
  BY <1>1, PageAssumption DEF Credentials, Token, Tokens
<1>3. /\ page.op[o].pc = "data" /\ Active(page, o) /\ ~page.op[o].aborted
      /\ page' = IF a.left = 0 THEN Catch(page, o)
                 ELSE [page EXCEPT !.access = a, !.timer = a.left, !.op[o].pc = "printers"]
      /\ UNCHANGED <<eligible, authVars>>
  BY DEF Granted
<1> HIDE DEF a
<1>4. CASE a.left = 0
  BY <1>1, <1>3, <1>4, CatchFacts, StepOK, SameAuth DEF PageStep, SameView, SameAccess
<1>5. CASE a.left # 0
  <2> DEFINE p == [page EXCEPT !.access = a, !.timer = a.left]
             new == [page.op[o] EXCEPT !.pc = "printers"]
  <2>1. p \in Page /\ p.access = a /\ p.timer = a.left /\ p.polling = page.polling
        /\ SameView(page, p) /\ SameScreen(page, p) /\ SameOps(page, p)
    BY <1>1, <1>2 DEF Page, SameView, SameScreen, SameOps
  <2>2. page.op[o] \in PageOp /\ page.current = o /\ Looking(page)
    BY <1>1, <1>3 DEF Page, PageOp, Active
  <2>3. new \in PageOp /\ new.pc = "printers"
    BY <2>2 DEF PageOp
  <2>4. page' = WithOp(p, o, new, o)
    BY <1>1, <1>3, <1>5, <2>2 DEF WithOp, Page
  <2> HIDE DEF p, new
  <2>5. /\ page' \in Page /\ SameView(p, page') /\ SameAccess(p, page') /\ SameScreen(p, page')
        /\ page'.current = o
        /\ \A u \in Ops : page'.op[u] = IF u = o THEN new ELSE p.op[u]
    BY <2>1, <2>3, <2>4, OpFacts
  <2>6. Timed(page')
    BY <2>1, <2>2, <2>5, <1>1, <1>2, PageAssumption DEF Timed, PageAndTimer, Looking, SameView, SameAccess, Tokens
  <2>7. CardsAllowed(page') /\ BlobsFit(page')
    BY <1>1, <1>2, <2>1, <2>2, <2>5, PageAssumption
       DEF PageAndTimer, PageOK, CardsAllowed, BlobsFit, Looking, SameView, SameAccess, SameScreen, Tokens
  <2>8. AtMostOne(page') /\ ImagesBelong(page')
    BY <1>1, <1>2, <2>1, <2>2, <2>3, <2>5 DEF PageAndTimer, PageOK, AtMostOne, ImagesBelong, SameOps
  <2>9. PageAndTimer(page')
    BY <2>5, <2>6, <2>7, <2>8 DEF PageAndTimer, PageOK
  <2>10. PageTypeOK'
    BY <1>3, <2>5 DEF PageIInv, PageTypeOK, AuthTypeOK, authVars
  <2>11. KeyIsGood'
    BY <1>2, <1>3, <2>1, <2>5 DEF PageIInv, KeyIsGood, KeysFit, authVars, Capped, SameAccess
  <2>12. StopsForCause'
    BY <1>3, <2>1, <2>5 DEF PageIInv, StopsForCause, authVars, SameView
  <2> QED
    BY <2>9, <2>10, <2>11, <2>12 DEF PageIInv
<1> QED
  BY <1>4, <1>5

LEMMA RefusedOK ==
    ASSUME PageIInv, NEW o \in Ops, Refused(o)
    PROVE  PageIInv'
<1>1. page \in Page /\ AtMostOne(page)
  BY DEF PageIInv, PageAndTimer, PageOK
<1>2. /\ page' = Finish(DenyAccess(page), o) /\ ~eligible
      /\ UNCHANGED <<eligible, authVars>>
  BY DEF Refused
<1>3. PageAndTimer(DenyAccess(page)) /\ DenyAccess(page).access = Null
  BY <1>1, DenyFacts
<1>4. PageAndTimer(page') /\ page'.access = Null
  BY <1>2, <1>3, FinishFacts DEF SameAccess
<1> QED
  BY <1>2, <1>4, SameAuth, StepOK DEF PageStep

LEMMA UnauthorizedOK ==
    ASSUME PageIInv, NEW o \in Ops, Unauthorized(o)
    PROVE  PageIInv'
<1>1. page \in Page /\ AtMostOne(page) /\ AuthTypeOK
  BY DEF PageIInv, PageAndTimer, PageOK, PageTypeOK
<1>2. /\ Usable(page, o) /\ Verified(page.access.key, FALSE) /\ eligible' = eligible
      /\ \/ page' = Finish(DenyAccess(page), o)
         \/ \E i \in page.op[o].fetching : page' = Fetched(DenyAccess(page), o, i)
  BY DEF Unauthorized
<1>3. PageAndTimer(DenyAccess(page)) /\ DenyAccess(page).access = Null
  BY <1>1, DenyFacts
<1>4. PageAndTimer(page') /\ page'.access = Null
  BY <1>2, <1>3, FinishFacts, FetchedFacts DEF SameAccess
<1>5. AuthStep
  BY <1>2, CallAuth DEF Verified
<1>6. disturbed'
  <2>1. CASE disturbed
    BY <1>5, <2>1 DEF AuthStep
  <2>2. CASE ~disturbed
    <3>1. KeysFit /\ page.access.key = signing
      BY <1>2, <2>2 DEF PageIInv, KeyIsGood, Usable
    <3> QED
      BY <1>1, <1>2, <3>1, GoodTokenAccepted
  <2> QED
    BY <2>1, <2>2
<1> QED
  BY <1>2, <1>4, <1>5, <1>6, StepOK DEF PageStep

LEMMA CardsOK ==
    ASSUME PageIInv, NEW o \in Ops, Cards(o)
    PROVE  PageIInv'
<1> DEFINE c == ClearDashboard(page)
           p == [c EXCEPT !.cards = o]
           new == [p.op[o] EXCEPT !.pc = "images", !.fetching = Images]
           q == WithOp(p, o, new, o)
<1>1. page \in Page /\ PageAndTimer(page)
  BY DEF PageIInv, PageAndTimer, PageOK
<1>2. /\ page.op[o].pc = "printers" /\ Usable(page, o) /\ AuthStep /\ eligible' = eligible
      /\ page' = IF Images = {} THEN Finish(p, o)
                 ELSE [p EXCEPT !.op[o].pc = "images", !.op[o].fetching = Images]
  BY CallAuth DEF Cards, Verified
<1>3. /\ c \in Page /\ SameView(page, c) /\ SameAccess(page, c) /\ SameOps(page, c)
      /\ c.cards = Null /\ c.blobs = {} /\ \A i \in Images : c.image[i] = "none"
  BY <1>1, ClearFacts
<1> HIDE DEF c
<1>4. /\ p \in Page /\ SameView(page, p) /\ SameAccess(page, p) /\ SameOps(page, p)
      /\ p.cards = o /\ p.blobs = {} /\ \A i \in Images : p.image[i] = "none"
  BY <1>3 DEF Page, SameView, SameAccess, SameOps
<1> HIDE DEF p
<1>5. page.current = o /\ Looking(page) /\ page.access # Null
  BY <1>2 DEF Usable, Active
<1>6. Timed(p) /\ CardsAllowed(p) /\ BlobsFit(p)
  BY <1>1, <1>4, <1>5 DEF PageAndTimer, Timed, CardsAllowed, BlobsFit, Looking, SameView, SameAccess
<1>7. AtMostOne(p) /\ ImagesBelong(p)
  BY <1>1, <1>4, <1>5 DEF PageAndTimer, PageOK, AtMostOne, ImagesBelong, SameOps
<1>8. PageAndTimer(p)
  BY <1>4, <1>6, <1>7 DEF PageAndTimer, PageOK
<1>9. CASE Images = {}
  <2>1. PageAndTimer(page') /\ SameView(p, page') /\ SameAccess(p, page')
    BY <1>2, <1>8, <1>9, FinishFacts
  <2> QED
    BY <1>2, <1>4, <2>1, StepOK DEF PageStep, SameView, SameAccess
<1>10. CASE Images # {}
  <2>1. p.op[o] \in PageOp /\ p.current = o
    BY <1>4, <1>5 DEF Page, PageOp, SameOps
  <2>2. new \in PageOp /\ new.pc = "images"
    BY <2>1 DEF PageOp
  <2>3. page' = q
    BY <1>2, <1>4, <1>10, <2>1 DEF WithOp, Page, PageOp
  <2> HIDE DEF new
  <2>4. /\ q \in Page /\ SameView(p, q) /\ SameAccess(p, q) /\ SameScreen(p, q)
        /\ q.current = o
        /\ \A u \in Ops : q.op[u] = IF u = o THEN new ELSE p.op[u]
    BY <1>4, <2>2, OpFacts
  <2> HIDE DEF q
  <2>5. Timed(q) /\ CardsAllowed(q) /\ BlobsFit(q)
    BY <1>6, <2>4 DEF Timed, CardsAllowed, BlobsFit, Looking, SameView, SameAccess, SameScreen
  <2>6. AtMostOne(q) /\ ImagesBelong(q)
    BY <1>4, <1>7, <2>1, <2>4 DEF AtMostOne, ImagesBelong, SameScreen
  <2>7. PageAndTimer(q)
    BY <2>4, <2>5, <2>6 DEF PageAndTimer, PageOK
  <2> QED
    BY <1>2, <1>4, <2>3, <2>4, <2>7, StepOK DEF PageStep, SameView, SameAccess
<1> QED
  BY <1>9, <1>10

LEMMA ImageOK ==
    ASSUME PageIInv, NEW o \in Ops, NEW i \in Images, Image(o, i)
    PROVE  PageIInv'
<1> DEFINE state == IF page.cards = o THEN "loading" ELSE page.image[i]
           image == [page.image EXCEPT ![i] = "loading"]
           blobs == page.blobs \union {<<o, i>>}
           p == [page EXCEPT !.blobs = blobs, !.image = image]
<1>1. page \in Page /\ PageAndTimer(page)
  BY DEF PageIInv, PageAndTimer, PageOK
<1>2. /\ page.op[o].pc = "images" /\ Usable(page, o) /\ AuthStep /\ eligible' = eligible
      /\ page' = Fetched([page EXCEPT !.blobs = @ \union {<<o, i>>}, !.image[i] = state], o, i)
  BY CallAuth DEF Image, Verified, MayUse
<1>3. page.current = o /\ page.cards = o /\ state = "loading"
  BY <1>1, <1>2 DEF Usable, Active, PageAndTimer, PageOK, ImagesBelong
<1>4. image \in [Images -> {"none", "loading", "shown"}] /\ blobs \subseteq Ops \X Images
  BY <1>1 DEF Page
<1>5. page' = Fetched(p, o, i)
  <2> HIDE DEF state
  <2>1. [page EXCEPT !.blobs = @ \union {<<o, i>>}, !.image[i] = state] = p
    BY <1>1, <1>3 DEF Page
  <2> QED
    BY <1>2, <2>1
<1>6. /\ p \in Page /\ SameView(page, p) /\ SameAccess(page, p) /\ SameOps(page, p)
      /\ p.cards = page.cards /\ p.blobs = page.blobs \union {<<o, i>>}
      /\ p.image = [page.image EXCEPT ![i] = "loading"]
  <2> HIDE DEF image, blobs
  <2>1. /\ p \in Page /\ SameView(page, p) /\ SameAccess(page, p) /\ SameOps(page, p)
        /\ p.cards = page.cards /\ p.blobs = blobs /\ p.image = image
    BY <1>1, <1>4 DEF Page, SameView, SameAccess, SameOps
  <2> QED
    BY <2>1 DEF image, blobs
<1> HIDE DEF p, image, blobs, state
<1>7. \A j \in Images : p.image[j] = IF j = i THEN "loading" ELSE page.image[j]
  BY <1>1, <1>6 DEF Page
<1>8. BlobsFit(p)
  BY <1>1, <1>3, <1>6, <1>7 DEF PageAndTimer, PageOK, BlobsFit
<1>9. Timed(p) /\ CardsAllowed(p) /\ AtMostOne(p) /\ ImagesBelong(p)
  BY <1>1, <1>6 DEF PageAndTimer, PageOK, Timed, CardsAllowed, AtMostOne, ImagesBelong, Looking,
     SameView, SameAccess, SameOps
<1>10. PageAndTimer(p)
  BY <1>6, <1>8, <1>9 DEF PageAndTimer, PageOK
<1>11. PageAndTimer(page') /\ SameView(p, page') /\ SameAccess(p, page')
  BY <1>5, <1>10, FetchedFacts
<1> QED
  BY <1>2, <1>6, <1>11, StepOK DEF PageStep, SameView, SameAccess

LEMMA EndsOK ==
    ASSUME PageIInv, NEW o \in Ops, Fails(o) \/ Ignored(o)
    PROVE  PageIInv'
<1>1. PageAndTimer(page) /\ UNCHANGED <<eligible, authVars>>
  BY DEF PageIInv, Fails, Ignored
<1>2. \/ page' = Catch(page, o) \/ page' = Finish(page, o)
      \/ \E i \in page.op[o].fetching : page' = Fetched(page, o, i)
  BY DEF Fails, Ignored
<1>3. PageAndTimer(page') /\ SameView(page, page') /\ SameAccess(page, page')
  BY <1>1, <1>2, CatchFacts, FinishFacts, FetchedFacts
<1> QED
  BY <1>1, <1>3, SameAuth, StepOK DEF PageStep, SameView, SameAccess

LEMMA TimeoutOK ==
    ASSUME PageIInv, NEW o \in Ops, Timeout(o)
    PROVE  PageIInv'
<1> DEFINE new == [page.op[o] EXCEPT !.aborted = TRUE]
<1>1. page \in Page /\ PageAndTimer(page)
  BY DEF PageIInv, PageAndTimer, PageOK
<1>2. /\ page.current = o /\ page' = [page EXCEPT !.op[o].aborted = TRUE]
      /\ UNCHANGED <<eligible, authVars>>
  BY DEF Timeout
<1>3. page.op[o] \in PageOp
  BY <1>1 DEF Page, PageOp
<1>4. new \in PageOp /\ new.aborted /\ new.pc = page.op[o].pc
  BY <1>3 DEF PageOp
<1>5. page' = WithOp(page, o, new, o)
  BY <1>1, <1>2, <1>3 DEF WithOp, Page, PageOp
<1> HIDE DEF new
<1>6. /\ page' \in Page /\ SameView(page, page') /\ SameAccess(page, page') /\ SameScreen(page, page')
      /\ page'.current = o
      /\ \A u \in Ops : page'.op[u] = IF u = o THEN new ELSE page.op[u]
  BY <1>1, <1>4, <1>5, OpFacts
<1>7. Timed(page') /\ CardsAllowed(page') /\ BlobsFit(page')
  BY <1>1, <1>6 DEF PageAndTimer, PageOK, Timed, CardsAllowed, BlobsFit, Looking, SameView, SameAccess, SameScreen
<1>8. AtMostOne(page') /\ ImagesBelong(page')
  BY <1>1, <1>2, <1>4, <1>6 DEF PageAndTimer, PageOK, AtMostOne, ImagesBelong, SameScreen
<1>9. PageAndTimer(page')
  BY <1>6, <1>7, <1>8 DEF PageAndTimer, PageOK
<1> QED
  BY <1>2, <1>6, <1>9, SameAuth, StepOK DEF PageStep, SameView, SameAccess

LEMMA LoadedOK ==
    ASSUME PageIInv, NEW i \in Images, Loaded(i)
    PROVE  PageIInv'
<1>1. page \in Page /\ PageAndTimer(page)
  BY DEF PageIInv, PageAndTimer, PageOK
<1>2. PICK shown \in {"none", "shown"} :
         /\ page.image[i] = "loading" /\ page' = [page EXCEPT !.image[i] = shown]
         /\ UNCHANGED <<eligible, authVars>>
  BY DEF Loaded
<1>3. /\ page' \in Page /\ SameView(page, page') /\ SameAccess(page, page') /\ SameOps(page, page')
      /\ page'.cards = page.cards /\ page'.blobs = page.blobs
      /\ page'.image = [page.image EXCEPT ![i] = shown]
  BY <1>1, <1>2 DEF Page, SameView, SameAccess, SameOps
<1>4. \A j \in Images : page'.image[j] = IF j = i THEN shown ELSE page.image[j]
  BY <1>1, <1>3 DEF Page
<1>5. BlobsFit(page')
  BY <1>1, <1>2, <1>3, <1>4 DEF PageAndTimer, PageOK, BlobsFit
<1>6. Timed(page') /\ CardsAllowed(page') /\ AtMostOne(page') /\ ImagesBelong(page')
  BY <1>1, <1>3 DEF PageAndTimer, PageOK, Timed, CardsAllowed, AtMostOne, ImagesBelong, Looking,
     SameView, SameAccess, SameOps
<1>7. PageAndTimer(page')
  BY <1>3, <1>5, <1>6 DEF PageAndTimer, PageOK
<1> QED
  BY <1>2, <1>3, <1>7, SameAuth, StepOK DEF PageStep, SameView, SameAccess

LEMMA PollOK ==
    ASSUME PageIInv, Poll
    PROVE  PageIInv'
<1>1. PageAndTimer(page) /\ page' \in Refresh(page) /\ UNCHANGED <<eligible, authVars>>
  BY DEF PageIInv, Poll
<1>2. PageAndTimer(page') /\ SameView(page, page') /\ SameAccess(page, page')
  BY <1>1, RefreshFacts
<1> QED
  BY <1>1, <1>2, SameAuth, StepOK DEF PageStep, SameView, SameAccess

LEMMA TokenExpiresOK ==
    ASSUME PageIInv, TokenExpires
    PROVE  PageIInv'
<1> DEFINE r == [page EXCEPT !.timer = Null, !.access = Null]
           k == CancelRefresh(r)
           c == ClearDashboard(k)
<1>1. page \in Page /\ PageAndTimer(page)
  BY DEF PageIInv, PageAndTimer, PageOK
<1>2. page' \in Refresh(c) /\ UNCHANGED <<eligible, authVars>>
  BY DEF TokenExpires
<1>3. /\ r \in Page /\ r.access = Null /\ r.timer = Null /\ r.polling = page.polling
      /\ SameView(page, r) /\ SameOps(page, r)
  BY <1>1 DEF Page, SameView, SameOps
<1> HIDE DEF r
<1>4. /\ k \in Page /\ SameView(r, k) /\ SameAccess(r, k) /\ k.current = Null
      /\ \A o \in Ops : /\ k.op[o].pc = r.op[o].pc
                        /\ k.op[o].aborted = (r.op[o].aborted \/ r.current = o)
  BY <1>3, CancelFacts
<1> HIDE DEF k
<1>5. /\ c \in Page /\ SameView(k, c) /\ SameAccess(k, c) /\ SameOps(k, c)
      /\ c.cards = Null /\ c.blobs = {} /\ \A i \in Images : c.image[i] = "none"
  BY <1>4, ClearFacts
<1> HIDE DEF c
<1>6. c.access = Null /\ c.timer = Null /\ SameView(page, c) /\ c.polling = page.polling
  BY <1>3, <1>4, <1>5 DEF SameView, SameAccess
<1>7. Timed(c) /\ CardsAllowed(c) /\ BlobsFit(c)
  BY <1>1, <1>5, <1>6 DEF PageAndTimer, Timed, CardsAllowed, BlobsFit, Looking, SameView
<1>8. AtMostOne(c) /\ ImagesBelong(c)
  <2>1. ASSUME NEW o \in Ops
        PROVE  /\ c.op[o].pc = page.op[o].pc
               /\ page.op[o].aborted \/ page.current = o => c.op[o].aborted
    BY <1>3, <1>4, <1>5 DEF SameOps
  <2>2. c.current = Null
    BY <1>4, <1>5 DEF SameOps
  <2> QED
    BY <1>1, <2>1, <2>2, PageAssumption DEF PageAndTimer, PageOK, AtMostOne, ImagesBelong
<1>9. PageAndTimer(c)
  BY <1>5, <1>7, <1>8 DEF PageAndTimer, PageOK
<1>10. PageAndTimer(page') /\ SameView(c, page') /\ SameAccess(c, page')
  BY <1>2, <1>9, RefreshFacts
<1> QED
  BY <1>2, <1>6, <1>10, SameAuth, StepOK DEF PageStep, SameView, SameAccess

(* A page that is not looked at is paused. *)
LEMMA StopLooking ==
    ASSUME PageIInv, UNCHANGED <<eligible, authVars>>,
           NEW r \in Page, SameOps(page, r), r.stopped = page.stopped, ~Looking(r),
           r.access \in {page.access, Null}, page' = Pause(r)
    PROVE  PageIInv'
<1>1. AtMostOne(r)
  BY DEF PageIInv, PageAndTimer, PageOK, AtMostOne, SameOps
<1>2. PageOK(page') /\ SameView(r, page') /\ page'.access = r.access
  BY <1>1, PauseOK, PauseFacts
<1>3. PageAndTimer(page')
  BY <1>2 DEF PageAndTimer, Timed, Looking, SameView
<1> QED
  BY <1>2, <1>3, SameAuth, StepOK DEF PageStep, SameView

LEMMA HidesOK ==
    ASSUME PageIInv, Hide \/ PageHide
    PROVE  PageIInv'
<1> DEFINE r == [page EXCEPT !.visible = FALSE]
           s == [page EXCEPT !.suspended = TRUE, !.access = Null]
<1>1. page \in Page
  BY DEF PageIInv, PageAndTimer, PageOK
<1>2. /\ r \in Page /\ SameOps(page, r) /\ r.stopped = page.stopped /\ ~Looking(r)
      /\ r.access = page.access
  BY <1>1 DEF Page, SameOps, Looking
<1>3. /\ s \in Page /\ SameOps(page, s) /\ s.stopped = page.stopped /\ ~Looking(s)
      /\ s.access = Null
  BY <1>1 DEF Page, SameOps, Looking
<1>4. /\ page' = Pause(r) \/ page' = Pause(s)
      /\ UNCHANGED <<eligible, authVars>>
  BY DEF Hide, PageHide
<1> HIDE DEF r, s
<1> QED
  BY <1>2, <1>3, <1>4, StopLooking

(* A page that was not looked at shows nothing, and may resume. *)
LEMMA LookAgain ==
    ASSUME PageIInv, UNCHANGED <<eligible, authVars>>, ~Looking(page),
           NEW r \in Page, SameOps(page, r), SameAccess(page, r), SameScreen(page, r),
           r.stopped = page.stopped, page' \in Resume(r)
    PROVE  PageIInv'
<1>1. page.cards = Null /\ PageOK(page)
  BY DEF PageIInv, PageAndTimer, PageOK, CardsAllowed
<1>2. PageOK(r) /\ r.cards = Null
  BY <1>1 DEF PageOK, CardsAllowed, AtMostOne, ImagesBelong, BlobsFit, SameOps, SameScreen
<1>3. PageAndTimer(page') /\ SameView(r, page') /\ page'.access \in {r.access, Null}
  BY <1>2, ResumeFacts
<1> QED
  BY <1>3, SameAuth, StepOK DEF PageStep, SameView, SameAccess

LEMMA ShowsOK ==
    ASSUME PageIInv, Show \/ PageShow
    PROVE  PageIInv'
<1> DEFINE r == [page EXCEPT !.visible = TRUE]
           s == [page EXCEPT !.suspended = FALSE]
<1>1. page \in Page
  BY DEF PageIInv, PageAndTimer, PageOK
<1>2. /\ r \in Page /\ SameOps(page, r) /\ SameAccess(page, r) /\ SameScreen(page, r)
      /\ r.stopped = page.stopped
  BY <1>1 DEF Page, SameOps, SameAccess, SameScreen
<1>3. /\ s \in Page /\ SameOps(page, s) /\ SameAccess(page, s) /\ SameScreen(page, s)
      /\ s.stopped = page.stopped
  BY <1>1 DEF Page, SameOps, SameAccess, SameScreen
<1>4. /\ page' \in Resume(r) \/ page' \in Resume(s)
      /\ ~Looking(page) /\ UNCHANGED <<eligible, authVars>>
  BY DEF Show, PageShow, Looking
<1> HIDE DEF r, s
<1> QED
  BY <1>2, <1>3, <1>4, LookAgain

(* The page is left alone. *)
LEMMA PageAlone ==
    ASSUME PageIInv, UNCHANGED page, eligible' = eligible, AuthStep
    PROVE  PageIInv'
BY StepOK DEF PageIInv, PageStep, PageAndTimer, PageOK, CardsAllowed, AtMostOne, ImagesBelong,
   BlobsFit, Timed, Looking

LEMMA AccessEndsOK ==
    ASSUME PageIInv, AccessEnds
    PROVE  PageIInv'
<1>1. page' = page /\ eligible' = FALSE /\ UNCHANGED authVars
  BY DEF AccessEnds
<1>2. AuthStep
  BY <1>1, SameAuth
<1>3. PageAndTimer(page') /\ page' \in Page
  BY <1>1 DEF PageIInv, PageAndTimer, PageOK
<1>4. PageTypeOK' /\ KeyIsGood' /\ StopsForCause'
  BY <1>1, <1>2, <1>3 DEF PageIInv, PageTypeOK, KeyIsGood, StopsForCause, AuthStep
<1> QED
  BY <1>3, <1>4 DEF PageIInv

LEMMA ServersOK ==
    ASSUME PageIInv, OtherCall \/ ((RotateKey \/ EdgeRestart) /\ UNCHANGED <<page, eligible>>)
    PROVE  PageIInv'
<1>1. AuthTypeOK
  BY DEF PageIInv, PageTypeOK
<1>2. CASE OtherCall
  <2>1. AuthStep
    BY <1>2, CallAuth DEF OtherCall
  <2> QED
    BY <1>2, <2>1, PageAlone DEF OtherCall
<1>3. CASE RotateKey /\ UNCHANGED <<page, eligible>>
  <2>1. AuthTypeOK' /\ disturbed'
    BY <1>1, <1>3 DEF AuthTypeOK, RotateKey
  <2>2. PageAndTimer(page') /\ page' \in Page
    BY <1>3 DEF PageIInv, PageAndTimer, PageOK
  <2> QED
    BY <1>3, <2>1, <2>2 DEF PageIInv, PageTypeOK, KeyIsGood, StopsForCause
<1>4. CASE EdgeRestart /\ UNCHANGED <<page, eligible>>
  <2>1. AuthStep
    BY <1>1, <1>4, AgesAssumption DEF AuthStep, AuthTypeOK, EdgeRestart, KeysFit
  <2> QED
    BY <1>4, <2>1, PageAlone
<1> QED
  BY <1>2, <1>3, <1>4

LEMMA TickOK ==
    ASSUME PageIInv, Tick
    PROVE  PageIInv'
<1> DEFINE access == IF page.access = Null THEN Null
                     ELSE Older(page.access)
           timer == IF page.timer = Null THEN Null ELSE page.timer - 1
           op == [o \in Ops |-> IF page.op[o].pc = "none" THEN page.op[o]
                                ELSE [page.op[o] EXCEPT !.crossed = TRUE]]
           q == [page EXCEPT !.access = access, !.timer = timer, !.op = op]
<1>1. page \in Page /\ PageAndTimer(page)
  BY DEF PageIInv, PageAndTimer, PageOK
<1>2. page.timer # 0 /\ AuthTick /\ eligible' = eligible
  BY DEF Tick
<1>3. page' = q
  BY DEF Tick
<1>4. timer \in (0 .. TokenLife) \union {Null}
  BY <1>1, <1>2, PageAssumption DEF Page
<1>5. /\ access \in Tokens \union {Null} /\ (access = Null <=> page.access = Null)
      /\ access # Null => /\ access.key = page.access.key
                          /\ access.left = IF page.access.left = 0 THEN 0 ELSE page.access.left - 1
  <2>1. page.access \in Tokens \union {Null} /\ Null \notin Tokens
    BY <1>1, PageAssumption DEF Page
  <2>2. CASE page.access = Null
    BY <2>2
  <2>3. CASE page.access # Null
    <3>1. access \in Tokens /\ access.key = page.access.key
          /\ access.left = IF page.access.left = 0 THEN 0 ELSE page.access.left - 1
      BY <2>1, <2>3, PageAssumption DEF Older, Tokens
    <3> HIDE DEF access
    <3> QED
      BY <2>1, <2>3, <3>1
  <2> QED
    BY <2>2, <2>3
<1>6. /\ op \in [Ops -> PageOp]
      /\ \A o \in Ops : op[o].pc = page.op[o].pc /\ op[o].aborted = page.op[o].aborted
  <2>1. page.op \in [Ops -> PageOp]
    BY <1>1 DEF Page, PageOp
  <2>2. ASSUME NEW o \in Ops
        PROVE  op[o] \in PageOp /\ op[o].pc = page.op[o].pc /\ op[o].aborted = page.op[o].aborted
    <3>1. page.op[o] \in PageOp
      BY <2>1
    <3> QED
      BY <3>1 DEF PageOp
  <2>3. op = [o \in Ops |-> op[o]]
    OBVIOUS
  <2> HIDE DEF op
  <2> QED
    BY <2>2, <2>3
<1>7. Looking(page) /\ page.access # Null => timer = access.left
  BY <1>1, <1>2, <1>5, PageAssumption DEF PageAndTimer, Timed, Page, Tokens
<1>8. Looking(page) /\ page.access = Null => timer = Null
  BY <1>1 DEF PageAndTimer, Timed
<1> HIDE DEF access, timer, op
<1>9. /\ q \in Page /\ q.access = access /\ q.timer = timer /\ q.op = op
      /\ q.current = page.current /\ q.polling = page.polling
      /\ SameView(page, q) /\ SameScreen(page, q)
  <2>1. op \in [Ops -> PageOp] /\ access \in Tokens \union {Null}
    BY <1>5, <1>6
  <2> QED
    BY <1>1, <1>4, <2>1 DEF Page, PageOp, SameView, SameScreen
<1> HIDE DEF q
<1>10. Timed(q) /\ CardsAllowed(q)
  BY <1>1, <1>5, <1>7, <1>8, <1>9
     DEF PageAndTimer, PageOK, Timed, CardsAllowed, Looking, SameView, SameScreen
<1>11. AtMostOne(q) /\ ImagesBelong(q) /\ BlobsFit(q)
  BY <1>1, <1>6, <1>9
     DEF PageAndTimer, PageOK, AtMostOne, ImagesBelong, BlobsFit, SameScreen
<1>12. PageAndTimer(page')
  BY <1>3, <1>9, <1>10, <1>11 DEF PageAndTimer, PageOK
<1>13. AuthTypeOK' /\ signing' = signing /\ disturbed' = disturbed /\ (disturbed' \/ KeysFit')
  BY <1>2, AuthTickFits DEF PageIInv, PageTypeOK, KeyIsGood
<1>14. PageTypeOK' /\ StopsForCause'
  BY <1>2, <1>3, <1>9, <1>13 DEF PageIInv, PageTypeOK, StopsForCause, SameView
<1>15. KeyIsGood'
  BY <1>3, <1>5, <1>9, <1>13 DEF PageIInv, KeyIsGood
<1> QED
  BY <1>12, <1>14, <1>15 DEF PageIInv

LEMMA PageInitOK == PageInit => PageIInv
<1> SUFFICES ASSUME PageInit PROVE PageIInv
  OBVIOUS
<1>1. page \in Resume(Blank) /\ eligible = TRUE /\ AuthInit
  BY DEF PageInit
<1> DEFINE op == [o \in Ops |-> NotRunning]
<1>2. op \in [Ops -> PageOp] /\ \A o \in Ops : op[o].pc = "none"
  BY DEF NotRunning, Operation, PageOp
<1> HIDE DEF op
<1>3. /\ Blank \in Page /\ Blank.op = op /\ Blank.cards = Null /\ Blank.access = Null
      /\ Blank.current = Null /\ Blank.blobs = {} /\ Blank.image = NoImages /\ ~Blank.stopped
  BY <1>2 DEF Blank, Page, PageOp, NoImages, op
<1>4. PageOK(Blank)
  BY <1>2, <1>3, PageAssumption
     DEF PageOK, CardsAllowed, AtMostOne, ImagesBelong, BlobsFit, NoImages
<1>5. PageAndTimer(page) /\ SameView(Blank, page) /\ page.access = Null
  BY <1>1, <1>3, <1>4, ResumeFacts
<1>6. AuthTypeOK /\ KeysFit
  <2>1. signing = 1 /\ keys = {} /\ fetched = KeyMaxAge + 1 /\ attempted = KeyRetry /\ disturbed = FALSE
    BY <1>1 DEF AuthInit, NoKeys
  <2>2. fetched \in 0 .. KeyMaxAge + 1 /\ attempted \in 0 .. KeyRetry
    BY <2>1, AgesAssumption
  <2> QED
    BY <2>1, <2>2, KeysAssumption DEF AuthTypeOK, KeysFit
<1>7. page \in Page
  BY <1>5 DEF PageAndTimer, PageOK
<1> QED
  BY <1>1, <1>3, <1>5, <1>6, <1>7 DEF PageIInv, PageTypeOK, KeyIsGood, StopsForCause, SameView

LEMMA PageNextOK == PageIInv /\ [PageNext]_pageVars => PageIInv'
<1> SUFFICES ASSUME PageIInv, [PageNext]_pageVars PROVE PageIInv'
  OBVIOUS
<1>1. ASSUME NEW o \in Ops, Answer(o) \/ Timeout(o) PROVE PageIInv'
  BY <1>1, GrantedOK, RefusedOK, CardsOK, UnauthorizedOK, EndsOK, ImageOK, TimeoutOK DEF Answer
<1>2. ASSUME NEW i \in Images, Loaded(i) PROVE PageIInv'
  BY <1>2, LoadedOK
<1>3. CASE Poll
  BY <1>3, PollOK
<1>4. CASE TokenExpires
  BY <1>4, TokenExpiresOK
<1>5. CASE Hide \/ PageHide
  BY <1>5, HidesOK
<1>6. CASE Show \/ PageShow
  BY <1>6, ShowsOK
<1>7. CASE AccessEnds
  BY <1>7, AccessEndsOK
<1>8. CASE OtherCall \/ ((RotateKey \/ EdgeRestart) /\ UNCHANGED <<page, eligible>>)
  BY <1>8, ServersOK
<1>9. CASE Tick
  BY <1>9, TickOK
<1>10. CASE UNCHANGED pageVars
  <2>1. UNCHANGED page /\ eligible' = eligible /\ UNCHANGED authVars
    BY <1>10 DEF pageVars
  <2> QED
    BY <2>1, SameAuth, PageAlone
<1> QED
  BY <1>1, <1>2, <1>3, <1>4, <1>5, <1>6, <1>7, <1>8, <1>9, <1>10 DEF PageNext

LEMMA PageInvariant == PageSpec => []PageIInv
<1>1. PageInit => PageIInv
  BY PageInitOK
<1>2. PageIInv /\ [PageNext]_pageVars => PageIInv'
  BY PageNextOK
<1> QED
  BY <1>1, <1>2, PTL DEF PageSpec

\* Page, keys and ages keep to their sets: the expiry timer and a token's ticks never
\* leave 0 .. TokenLife, although time goes on while operations are under way.
THEOREM PageTypeCorrect == PageSpec => []PageTypeOK
<1>1. PageIInv => PageTypeOK
  BY DEF PageIInv
<1> QED
  BY <1>1, PageInvariant, PTL

\* ShownIsAuthorized (machines.js): whatever is on the screen is looked at, and a timer
\* is set for the end of its token.
THEOREM ShownIsAuthorizedHolds == PageSpec => []ShownIsAuthorized
<1>1. PageIInv => ShownIsAuthorized
  BY DEF PageIInv, PageAndTimer, PageOK, Timed, CardsAllowed, ShownIsAuthorized
<1> QED
  BY <1>1, PageInvariant, PTL

\* OneOperation (machines.js, refresh): every operation that has not ended is the current
\* one or was aborted.
THEOREM OneOperationHolds == PageSpec => []OneOperation
<1>1. PageIInv => OneOperation
  BY DEF PageIInv, PageAndTimer, PageOK, AtMostOne, OneOperation
<1> QED
  BY <1>1, PageInvariant, PTL

\* BlobsAreOnScreen (machines.js, showImage and clearDashboard): object URLs are those
\* of the cards on the screen.
THEOREM BlobsAreOnScreenHolds == PageSpec => []BlobsAreOnScreen
<1>1. PageIInv => BlobsAreOnScreen
  BY DEF PageIInv, PageAndTimer, PageOK, BlobsFit, BlobsAreOnScreen
<1> QED
  BY <1>1, PageInvariant, PTL

\* StopsForCause (machines.js, denyAccess; main.go, key): a page that stopped was right
\* to, or the Worker's key was replaced or could not be downloaded.
THEOREM StopsForCauseHolds == PageSpec => []StopsForCause
<1>1. PageIInv => StopsForCause
  BY DEF PageIInv
<1> QED
  BY <1>1, PageInvariant, PTL
=============================================================================
