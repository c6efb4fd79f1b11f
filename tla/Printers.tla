------------------------------ MODULE Printers -------------------------------
(***************************************************************************)
(* The edge's Bambu printers: edgeproxy/printers.go.                       *)
(*                                                                         *)
(* Every configured printer has a pair of goroutines, poll (MQTT status)   *)
(* and runCamera, that reconnect for ever until their context is           *)
(* cancelled.  A saved form replaces the configuration: under configMu it  *)
(* is stored, the pairs it changes are cancelled and awaited, and new ones *)
(* are started.  The tunnel reads status cards and camera snapshots while  *)
(* all this happens, and the edge can close, crash and restart.            *)
(*                                                                         *)
(* A pair is named by its serial and a slot; a slot is free again when     *)
(* nothing refers to its pair.                                             *)
(***************************************************************************)
CONSTANTS
    Serials,     \* serial numbers
    Settings,    \* the rest of a printerConfig: name, host, code, camera
    None,        \* no printer, no slot, nobody
    Forms,       \* bound: the valid printer lists that are saved
    Saves,       \* bound: concurrent POST requests
    Closer,      \* the goroutine that calls edge.close
    Slots,       \* bound: pairs of one serial that exist at once
    Reachable    \* the printers that answer at all

ASSUME ParametersAssumption ==
    /\ None \notin Settings \union Slots \union Saves \union {Closer} \union (Serials \X Slots)
    /\ Forms \subseteq [Serials -> Settings \union {None}]
    /\ Closer \notin Saves /\ Slots # {} /\ Reachable \subseteq Serials

Actors == Saves \union {Closer}
Pairs == Serials \X Slots

VARIABLES
    stored,    \* printer_config in SQLite
    config,    \* e.config
    holder,    \* who holds configMu
    job,       \* what each actor is doing
    set,       \* s.printers: the slot of each serial's pair
    inst,      \* the pairs
    closed,    \* the database is closed
    unsure     \* ghost: the last save failed and yet changed SQLite's row

lifecycle == <<stored, config, holder, job, set, closed, unsure>>
vars == <<lifecycle, inst>>

NoPrinters == [s \in Serials |-> None]
Idle == [pc |-> "idle", want |-> NoPrinters, removed |-> {}]

\* A pair whose goroutines have both returned.
Off == [setting |-> None, live |-> FALSE, poll |-> "done", camera |-> "done",
        error |-> FALSE, fresh |-> FALSE, callback |-> FALSE, frame |-> FALSE]

New(setting) == [Off EXCEPT !.setting = setting, !.live = TRUE,
                            !.poll = "connect", !.camera = "connect"]

Lists == Forms \union {NoPrinters}

PairState == [setting : Settings \union {None}, live : BOOLEAN,
              poll : {"connect", "on", "wait", "done"},
              camera : {"connect", "on", "wait", "done"},
              error : BOOLEAN, fresh : BOOLEAN, callback : BOOLEAN, frame : BOOLEAN]

\* The last conjunct: an entry of s.printers is a printer that has not been
\* cancelled.
TypeOK ==
    /\ stored \in Lists /\ config \in Lists
    /\ holder \in Actors \union {None}
    /\ job \in [Actors -> [pc : {"idle", "store", "stop", "wait", "start"},
                           want : Lists, removed : SUBSET Pairs]]
    /\ set \in [Serials -> Slots \union {None}]
    /\ inst \in [Pairs -> PairState]
    /\ closed \in BOOLEAN /\ unsure \in BOOLEAN
    /\ \A s \in Serials : set[s] # None => inst[<<s, set[s]>>].live

Init ==
    /\ stored = NoPrinters /\ config = NoPrinters
    /\ holder = None /\ job = [a \in Actors |-> Idle]
    /\ set = NoPrinters /\ inst = [p \in Pairs |-> Off]
    /\ closed = FALSE /\ unsure = FALSE

-----------------------------------------------------------------------------
(* storePrinters and close: one critical section of configMu *)

\* Mutant: a save does not wait for configMu.
Unguarded == TRUE

MutexFree == holder = None

Lock(a, pc, want) ==
    /\ job[a].pc = "idle" /\ MutexFree
    /\ holder' = a
    /\ job' = [job EXCEPT ![a] = [Idle EXCEPT !.pc = pc, !.want = want]]
    /\ UNCHANGED <<stored, config, set, closed, inst, unsure>>

\* configure has parsed and validated the form.
Save(a) == a \in Saves /\ \E form \in Forms : Lock(a, "store", form)

Close == ~closed /\ Lock(Closer, "stop", NoPrinters)

Store(a) ==
    /\ job[a].pc = "store" /\ ~closed
    /\ stored' = job[a].want /\ config' = job[a].want
    /\ job' = [job EXCEPT ![a].pc = "stop"]
    /\ unsure' = FALSE
    /\ UNCHANGED <<holder, set, closed, inst>>

(* The database is closed or cannot be written, or the client has gone: the *)
(* driver then reports the cancelled request, also when the row changed.    *)
StoreFails(a) ==
    /\ job[a].pc = "store"
    /\ \/ UNCHANGED <<stored, unsure>>
       \/ ~closed /\ stored' = job[a].want /\ unsure' = TRUE
    /\ holder' = None /\ job' = [job EXCEPT ![a] = Idle]
    /\ UNCHANGED <<config, set, closed, inst>>

-----------------------------------------------------------------------------
(* printerSet.replace *)

\* Mutant: only printers missing from the list are stopped.
ChangedSerial(s, want) == want[s] = None

\* The running pair is absent from the list or differs from its entry.
Changed(s, want) == want[s] # inst[<<s, set[s]>>].setting

\* Mutant: the cancelled printers stay in the map.
KeptAll(s, gone) == set[s]

Kept(s, gone) == IF <<s, set[s]>> \in gone THEN None ELSE set[s]

Stop(a) ==
    /\ job[a].pc = "stop"
    /\ LET gone == {<<s, set[s]>> : s \in {t \in Serials :
                        set[t] # None /\ Changed(t, job[a].want)}}
       IN  /\ set' = [s \in Serials |-> Kept(s, gone)]
           /\ inst' = [p \in Pairs |-> IF p \in gone THEN [inst[p] EXCEPT !.live = FALSE]
                                                   ELSE inst[p]]
           /\ job' = [job EXCEPT ![a].pc = "wait", ![a].removed = gone]
    /\ UNCHANGED <<stored, config, holder, closed, unsure>>

WorkersStopped(a) ==
    \* p.wg.Wait
    /\ job[a].pc = "wait" /\ \A p \in job[a].removed : inst[p] = Off
    /\ job' = [job EXCEPT ![a].pc = "start", ![a].removed = {}]
    /\ UNCHANGED <<stored, config, holder, set, closed, inst, unsure>>

FreeSlots(s) == {k \in Slots : inst[<<s, k>>] = Off /\ set[s] # k}

Start(a) ==
    /\ job[a].pc = "start"
    /\ LET want   == job[a].want
           added  == {s \in Serials : set[s] = None /\ want[s] # None}
           slot   == [s \in Serials |-> CHOOSE k \in FreeSlots(s) : TRUE]
       IN  /\ \A s \in added : FreeSlots(s) # {}
           /\ set' = [s \in Serials |-> IF s \in added THEN slot[s] ELSE set[s]]
           /\ inst' = [p \in Pairs |-> IF p[1] \in added /\ p[2] = slot[p[1]]
                                       THEN New(want[p[1]]) ELSE inst[p]]
    /\ holder' = None /\ job' = [job EXCEPT ![a] = Idle]
    /\ closed' = (closed \/ a = Closer)
    /\ UNCHANGED <<stored, config, unsure>>

(* The process dies, or exits after close; openEdge starts what is stored. *)
Restart ==
    /\ config' = stored /\ holder' = None
    /\ job' = [a \in Actors |-> Idle]
    /\ LET k == CHOOSE k \in Slots : TRUE
       IN  /\ set' = [s \in Serials |-> IF stored[s] = None THEN None ELSE k]
           /\ inst' = [p \in Pairs |-> IF p[2] = k /\ stored[p[1]] # None
                                       THEN New(stored[p[1]]) ELSE Off]
    /\ closed' = FALSE /\ unsure' = FALSE
    /\ UNCHANGED stored

-----------------------------------------------------------------------------
(* poll, pollConnection and report *)

\* Nothing reads a pair once both goroutines have returned.
Put(p, r) ==
    /\ inst' = [inst EXCEPT ![p] = IF r.poll = "done" /\ r.camera = "done" THEN Off ELSE r]
    /\ UNCHANGED lifecycle

Connect(p) ==
    /\ inst[p].poll = "connect" /\ p[1] \in Reachable
    /\ Put(p, [inst[p] EXCEPT !.poll = "on"])

(* Connecting, subscribing or a status request failed, or ctx is done. *)
Disconnect(p) ==
    /\ inst[p].poll \in {"connect", "on"}
    /\ Put(p, [inst[p] EXCEPT !.poll = "wait", !.error = TRUE])

\* Mutant: a printer that could not be reached is given up.
GiveUp(p) == "done"

\* Mutant: the loop does not look at the context.
AlwaysRetry(p) == "connect"

AfterPause(p) == IF inst[p].live THEN "connect" ELSE "done"

PollAgain(p) == inst[p].poll = "wait" /\ Put(p, [inst[p] EXCEPT !.poll = AfterPause(p)])

\* A report with a status field arrives; its callback runs on a goroutine of
\* the client that nothing waits for.  Bound: one report at a time.
Receive(p) ==
    /\ inst[p].poll = "on" /\ ~inst[p].callback
    /\ Put(p, [inst[p] EXCEPT !.callback = TRUE])

Report(p) ==
    /\ inst[p].callback
    /\ Put(p, [inst[p] EXCEPT !.callback = FALSE, !.fresh = TRUE, !.error = FALSE])

\* statusTimeout has passed since UpdatedAt.
Expire(p) == inst[p].fresh /\ Put(p, [inst[p] EXCEPT !.fresh = FALSE])

\* Mutant: the age of the last report is not looked at.
NoErrorSeen(r) == ~r.error

Available(r) == ~r.error /\ r.fresh

CardAvailable(s) == set[s] # None /\ Available(inst[<<s, set[s]>>])

-----------------------------------------------------------------------------
(* runCamera, both camera protocols, and snapshot *)

CameraConnect(p) ==
    /\ inst[p].camera = "connect" /\ p[1] \in Reachable
    /\ Put(p, [inst[p] EXCEPT !.camera = "on"])

Frame(p) ==
    /\ inst[p].camera = "on"
    /\ Put(p, [inst[p] EXCEPT !.frame = TRUE])

\* cameraTimeout has passed since frameAt.
AgeFrame(p) == inst[p].frame /\ Put(p, [inst[p] EXCEPT !.frame = FALSE])

(* Refused, end of stream, a bad frame, the watchdog or a cancelled ctx. *)
CameraEnds(p) ==
    /\ inst[p].camera \in {"connect", "on"}
    /\ Put(p, [inst[p] EXCEPT !.camera = "wait", !.frame = FALSE])

CameraAgain(p) ==
    /\ inst[p].camera = "wait"
    /\ Put(p, [inst[p] EXCEPT !.camera = AfterPause(p)])

\* Mutant: snapshot does not look at the printer's context.
HasFrame(p) == inst[p].frame

(* What snapshot answers from a pair it looked up, perhaps some time ago.  *)
(* It copies the frame and then asks the context; one not cancelled by     *)
(* then was not cancelled at the copy, which is the instant meant here.    *)
Servable(p) == inst[p].live /\ inst[p].frame

-----------------------------------------------------------------------------
PairStep(p) ==
    \/ Connect(p) \/ Disconnect(p) \/ PollAgain(p)
    \/ Receive(p) \/ Report(p) \/ Expire(p)
    \/ CameraConnect(p) \/ Frame(p) \/ AgeFrame(p)
    \/ CameraEnds(p) \/ CameraAgain(p)

Next ==
    \/ \E a \in Actors : Save(a) \/ Store(a) \/ StoreFails(a)
                         \/ Stop(a) \/ WorkersStopped(a) \/ Start(a)
    \/ Close \/ Restart
    \/ \E p \in Pairs : PairStep(p)

Spec == Init /\ [][Next]_vars

\* What the process itself brings about, whatever the printers do: a save's
\* next step; the end of an attempt to connect (5 s timeouts) and of a
\* connection whose context is done or whose camera has sent nothing for
\* cameraTimeout; the pause and what follows it.
Proceed(a) == Store(a) \/ StoreFails(a) \/ Stop(a) \/ WorkersStopped(a) \/ Start(a)

PollMoves(p) ==
    \/ /\ inst[p].poll = "connect" \/ ~inst[p].live
       /\ Connect(p) \/ Disconnect(p)
    \/ PollAgain(p)

CameraMoves(p) ==
    \/ /\ inst[p].camera = "connect" \/ ~inst[p].live \/ ~inst[p].frame
       /\ CameraConnect(p) \/ CameraEnds(p)
    \/ CameraAgain(p)

\* Goroutines run and time passes; a printer owes nothing.
Fairness ==
    /\ WF_vars(\E a \in Actors : Proceed(a))
    /\ \A s \in Serials :
         /\ WF_vars(\E k \in Slots : PollMoves(<<s, k>>))
         /\ WF_vars(\E k \in Slots : CameraMoves(<<s, k>>))
         /\ WF_vars(\E k \in Slots : Report(<<s, k>>))
         /\ WF_vars(\E k \in Slots : Expire(<<s, k>>))
         /\ WF_vars(\E k \in Slots : AgeFrame(<<s, k>>))

FairSpec == Spec /\ Fairness

-----------------------------------------------------------------------------
(* Properties *)

\* Two pairs never talk to one printer, whatever saves overlap: replace
\* starts a pair after the last one of that serial has stopped.
OnePairPerPrinter ==
    \A s \in Serials : \A k, l \in Slots :
        inst[<<s, k>>] # Off /\ inst[<<s, l>>] # Off => k = l

Running == [s \in Serials |-> IF set[s] = None THEN None ELSE inst[<<s, set[s]>>].setting]

\* Between critical sections what runs is what is configured, and nothing
\* else runs; after close nothing runs at all; and what is configured is what
\* is stored, unless the last save failed without being undone
\* (TestConcurrentPrinterConfiguration, for every interleaving).
RunningIsSaved ==
    holder = None =>
        /\ config = stored \/ unsure
        /\ Running = IF closed THEN NoPrinters ELSE config
        /\ \A p \in Pairs : set[p[1]] # p[2] => inst[p] = Off

\* An image is served only from the pair that is running under the current
\* settings, and only from its present camera connection, also to a request
\* that looked its pair up before a save replaced it.
ServesRunningCamera ==
    \A p \in Pairs : Servable(p) => set[p[1]] = p[2] /\ inst[p].camera = "on"

At(s, worker, pc) == set[s] # None /\ inst[<<s, set[s]>>][worker] = pc

\* A printer that stays silent is shown as unavailable and its image
\* withdrawn, even though a callback may clear the error of a connection
\* that has already been lost.
StaleIsHidden ==
    (<>[][\A p \in Pairs : ~Receive(p) /\ ~Frame(p)]_vars)
        => <>[](\A s \in Serials : ~CardAvailable(s)
                    /\ (set[s] # None => ~Servable(<<s, set[s]>>)))

\* wg.Wait is never for ever: a save always answers and releases configMu.
SaveEnds == (holder # None) ~> (holder = None)

\* A lost connection is tried again for as long as the printer is configured.
TriesAgain ==
    \A s \in Serials : \A worker \in {"poll", "camera"} :
        At(s, worker, "wait") ~> (set[s] = None \/ At(s, worker, "connect"))
=============================================================================
