---------------------------- MODULE SwipeOutbox -----------------------------
(***************************************************************************)
(* Swipes on their way from the edge's SQLite outbox to the Worker's       *)
(* history: controller, run, uploadSwipes and pendingSwipes                *)
(* (edgeproxy/main.go) and swipeWebhook (site/src/edge.tsx).               *)
(*                                                                         *)
(* A controller's batch is committed with fresh ids.  One goroutine        *)
(* uploads the oldest rows, deletes them once the Worker has answered 204, *)
(* and starts again.  The Worker stores a batch in several transactions    *)
(* and may still be at it when the edge has timed out and sent the same    *)
(* rows again.  The edge can stop anywhere.  `sequence` is a SQLite rowid: *)
(* it starts again from 1 whenever the table is empty.                     *)
(***************************************************************************)
EXTENDS Integers, Sequences, FiniteSets

CONSTANTS
    BatchMax,    \* rows in one upload (512)
    ChunkMax,    \* rows in one of the Worker's transactions (50)
    PostMax,     \* bound: swipes in one controller batch
    MaxIds,      \* bound: swipes stored by the edge
    Workers      \* bound: the Worker's concurrent invocations

ASSUME BatchAssumption ==
    /\ BatchMax \in Nat \ {0} /\ ChunkMax \in Nat \ {0}
    /\ PostMax \in Nat /\ MaxIds \in Nat
    /\ 0 \notin Workers

VARIABLES
    table,     \* the outbox: rows [seq, id]
    ids,       \* how many ids were drawn; a swipe's id is its number
    waking,    \* controller handlers between commit and wakeSender
    wake,      \* the wake channel holds a token
    retry,     \* the retry timer is armed
    pc,        \* the sender: waiting, reading, sent, deleting
    last,      \* highest sequence in the current upload
    work,      \* what each Worker invocation still has to store
    awaited,   \* the invocation whose answer the sender awaits, or 0
    history    \* the Worker's member_events: how many rows hold each id

senderVars == <<pc, last, awaited>>
edgeVars   == <<table, ids, waking>>
workerVars == <<work, history>>
outboxVars == <<edgeVars, wake, retry, senderVars, workerVars>>

Idle == [busy |-> FALSE, left |-> <<>>]

Rng(s) == {s[i] : i \in 1..Len(s)}
Shorter(a, b) == IF a < b THEN a ELSE b
Seqs == {r.seq : r \in table}
Stored == {id \in 1..MaxIds : history[id] > 0}

OutboxTypeOK ==
    /\ ids \in 0..MaxIds
    /\ table \subseteq [seq : Nat \ {0}, id : 1..ids]
    /\ waking \in Nat /\ wake \in BOOLEAN /\ retry \in BOOLEAN
    /\ pc \in {"waiting", "reading", "sent", "deleting"}
    /\ last \in Nat
    /\ work \in [Workers -> [busy : BOOLEAN, left : Seq(1..MaxIds)]]
    /\ awaited \in Workers \union {0}
    /\ history \in [1..MaxIds -> Nat]

\* run starts with a timer that fires at once.
OutboxInit ==
    /\ table = {} /\ ids = 0 /\ waking = 0
    /\ wake = FALSE /\ retry = TRUE
    /\ pc = "waiting" /\ last = 0 /\ awaited = 0
    /\ work = [w \in Workers |-> Idle] /\ history = [id \in 1..MaxIds |-> 0]

-----------------------------------------------------------------------------
(* controller: store a batch, then wake the sender *)

NextSeq == IF table = {} THEN 1 ELSE (CHOOSE s \in Seqs : \A t \in Seqs : t <= s) + 1

StoreSwipes ==
    /\ waking < 2
    /\ \E n \in 1..PostMax :
         /\ ids + n <= MaxIds
         /\ table' = table \union {[seq |-> NextSeq + i - 1, id |-> ids + i] : i \in 1..n}
         /\ ids' = ids + n
    /\ waking' = waking + 1
    /\ UNCHANGED <<wake, retry, senderVars, workerVars>>

WakeSender ==
    /\ waking > 0 /\ waking' = waking - 1
    /\ wake' = TRUE
    /\ UNCHANGED <<table, ids, retry, senderVars, workerVars>>

\* putFobs wakes the sender too: a new key may unblock pending swipes.
PushWakesSender ==
    /\ wake' = TRUE
    /\ UNCHANGED <<edgeVars, retry, senderVars, workerVars>>

-----------------------------------------------------------------------------
(* run and uploadSwipes *)

Woken ==
    /\ pc = "waiting"
    /\ \/ wake /\ wake' = FALSE /\ UNCHANGED retry
       \/ retry /\ retry' = FALSE /\ UNCHANGED wake
    /\ pc' = "reading"
    /\ UNCHANGED <<edgeVars, last, awaited, workerVars>>

\* The rows of the next upload: the BatchMax lowest sequences.
Oldest == {r \in table : Cardinality({q \in table : q.seq < r.seq}) < BatchMax}

Ordered(rows) == [i \in 1..Cardinality(rows) |->
    (CHOOSE r \in rows : Cardinality({q \in rows : q.seq < r.seq}) = i - 1).id]

NothingPending ==
    /\ pc = "reading" /\ table = {} /\ pc' = "waiting"
    /\ UNCHANGED <<edgeVars, wake, retry, last, awaited, workerVars>>

Send ==
    /\ pc = "reading" /\ table # {}
    /\ last' \in {r.seq : r \in Oldest} /\ \A r \in Oldest : r.seq <= last'
    /\ \E w \in Workers :
         /\ ~work[w].busy
         /\ work' = [work EXCEPT ![w] = [busy |-> TRUE, left |-> Ordered(Oldest)]]
         /\ awaited' = w
    /\ pc' = "sent"
    /\ UNCHANGED <<edgeVars, wake, retry, history>>

\* Mutant: a failed upload waits for the next swipe.
FailUnarmed == pc' = "waiting" /\ UNCHANGED retry

\* run arms the retry timer when uploadSwipes returns an error.
Fail == pc' = "waiting" /\ retry' = TRUE

(* Timeout, connection lost, 401 or any answer but 204. *)
UploadFails ==
    /\ pc = "sent" /\ Fail
    /\ awaited' = 0 /\ last' = 0
    /\ UNCHANGED <<edgeVars, wake, workerVars>>

\* Mutant: the whole outbox is deleted, rows stored meanwhile included.
UploadedAll == {}

\* DELETE FROM swipes WHERE sequence <= last
Uploaded == {r \in table : r.seq > last}

DeleteUploaded ==
    /\ pc = "deleting"
    /\ table' = Uploaded
    /\ pc' = "reading" /\ last' = 0 /\ awaited' = 0
    /\ UNCHANGED <<ids, waking, wake, retry, workerVars>>

DeleteFails ==
    /\ pc = "deleting" /\ Fail
    /\ last' = 0 /\ awaited' = 0
    /\ UNCHANGED <<edgeVars, wake, workerVars>>

-----------------------------------------------------------------------------
(* swipeWebhook: one transaction of at most ChunkMax rows after another *)

Chunk(w) == SubSeq(work[w].left, 1, Shorter(ChunkMax, Len(work[w].left)))
Rest(w)  == SubSeq(work[w].left, Shorter(ChunkMax, Len(work[w].left)) + 1, Len(work[w].left))

\* Mutant: no ON CONFLICT clause and no unique index.
InsertedBlindly(chunk) ==
    [id \in 1..MaxIds |-> IF id \in Rng(chunk) THEN history[id] + 1 ELSE history[id]]

\* ON CONFLICT(source_event_id) DO NOTHING
Inserted(chunk) ==
    [id \in 1..MaxIds |-> IF id \in Rng(chunk) /\ history[id] = 0 THEN 1 ELSE history[id]]

StoreChunk(w) ==
    /\ work[w].left # <<>>
    /\ history' = Inserted(Chunk(w))
    /\ work' = [work EXCEPT ![w].left = Rest(w)]
    /\ UNCHANGED <<edgeVars, wake, retry, senderVars>>

\* Mutant: the Worker answers before its last transaction.
AnsweredEarly(w) == work[w].busy /\ Len(work[w].left) <= ChunkMax

\* The Worker answers 204 after its last transaction.
Answered(w) == work[w].busy /\ work[w].left = <<>>

(* The answer reaches the sender, if it still waits for it. *)
Answer(w) ==
    /\ Answered(w)
    /\ work' = [work EXCEPT ![w] = Idle]
    /\ IF awaited = w THEN pc' = "deleting" ELSE UNCHANGED pc
    /\ UNCHANGED <<edgeVars, wake, retry, last, awaited, history>>

(* The Worker fails or is evicted between two transactions. *)
WorkerFails(w) ==
    /\ work[w].busy
    /\ work' = [work EXCEPT ![w] = Idle]
    /\ UNCHANGED <<edgeVars, wake, retry, senderVars, history>>

-----------------------------------------------------------------------------
OutboxRestart ==
    /\ waking' = 0 /\ wake' = FALSE /\ retry' = TRUE
    /\ pc' = "waiting" /\ last' = 0 /\ awaited' = 0
    /\ UNCHANGED <<table, ids, workerVars>>

OutboxNext ==
    \/ StoreSwipes \/ WakeSender \/ PushWakesSender
    \/ Woken \/ NothingPending \/ Send \/ UploadFails
    \/ DeleteUploaded \/ DeleteFails
    \/ \E w \in Workers : StoreChunk(w) \/ Answer(w) \/ WorkerFails(w)
    \/ OutboxRestart

OutboxSpec == OutboxInit /\ [][OutboxNext]_outboxVars

(* The sender runs whatever it can, handlers wake it after their commit,   *)
(* and every Worker invocation ends.                                       *)
OutboxFairness ==
    /\ WF_outboxVars(WakeSender) /\ WF_outboxVars(Woken) /\ WF_outboxVars(NothingPending)
    /\ WF_outboxVars(Send) /\ WF_outboxVars(UploadFails) /\ WF_outboxVars(DeleteUploaded)
    /\ \A w \in Workers : WF_outboxVars(StoreChunk(w) \/ Answer(w) \/ WorkerFails(w))

FairOutboxSpec == OutboxSpec /\ OutboxFairness

-----------------------------------------------------------------------------
(* Properties *)

(* Every swipe the edge ever stored is still in the outbox or in the       *)
(* Worker's history, whatever times out, is sent twice or crashes (main.go *)
(* :54 "an abrupt exit loses nothing").                                    *)
NothingLost == \A id \in 1..ids : id \in {r.id : r \in table} \union Stored

(* The history holds a swipe once, though its upload may have been         *)
(* executed several times, even concurrently.                              *)
StoredOnce == \A id \in 1..MaxIds : history[id] <= 1

Failure ==
    \/ UploadFails \/ DeleteFails \/ OutboxRestart
    \/ \E w \in Workers : WorkerFails(w)

(* If failures stop, every swipe is in the end in the history and out of   *)
(* the outbox, even if no further swipe or push ever wakes the sender.     *)
EventuallyUploaded ==
    <>[][~Failure]_outboxVars => \A id \in 1..MaxIds : id <= ids ~> (id \in Stored /\ id \notin {r.id : r \in table})

=============================================================================
