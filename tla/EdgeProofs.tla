----------------------------- MODULE EdgeProofs -----------------------------
(***************************************************************************)
(* Theorems about what the edge keeps in SQLite: the access row (FobPush)  *)
(* and the swipe outbox (SwipeOutbox).                                     *)
(*                                                                         *)
(* FobPush, for any lists and any number of changes, key rotations and     *)
(* concurrent pushes: what the edge holds is decided by pushes that were   *)
(* read long ago, so the claim about its row needs the same claim of every *)
(* push in flight, and both need a history that never changes behind them. *)
(*                                                                         *)
(* SwipeOutbox, for any batch sizes, numbers of swipes and Worker          *)
(* invocations: an upload deletes by sequence, so its last row must stay   *)
(* the last of those it sent, and be stored before it goes.                *)
(***************************************************************************)
EXTENDS FobPush, SwipeOutbox, FiniteSetTheorems, SequenceTheorems, TLAPS

(* FobPush *)

\* An upload names the row's revision and key: swipes wait only once a list
\* has arrived.
PendingHasRow == pending \/ upload # NoUpload => row # NoRow

IInv == TypeOK /\ ListMatchesRevision /\ PendingHasRow

-----------------------------------------------------------------------------
(* Merging a push into the row keeps a row of the right type: putFobs.     *)
LEMMA UpsertType ==
    ASSUME NEW m \in Push, TypeOK
    PROVE  Upsert(m) \in Push
BY DEF Upsert, TypeOK, Push

(* Merging a matching push into a matching row gives a matching row: the   *)
(* list and the revision are taken from the same side.                     *)
LEMMA UpsertMatches ==
    ASSUME NEW m \in Push, TypeOK, Matches(m), row # NoRow => Matches(row)
    PROVE  Matches(Upsert(m))
BY DEF Upsert, Matches, TypeOK, Push

(* The merge never lowers the revision: putFobs takes the larger one.      *)
LEMMA UpsertMonotone ==
    ASSUME NEW m \in Push, TypeOK, row # NoRow
    PROVE  Upsert(m).rev >= row.rev
BY DEF Upsert, TypeOK, Push

(* A commit appends to the history and rewrites none of it: AccessChange.  *)
LEMMA HistoryGrows ==
    ASSUME TypeOK, AccessChange
    PROVE  /\ rev' \in Nat /\ rev' = rev + 1
           /\ hist' \in [0..rev' -> Lists]
           /\ \A r \in 0..rev : r \in 0..rev' /\ hist'[r] = hist[r]
<1>1. rev' \in Nat /\ rev' = rev + 1
  BY DEF AccessChange, TypeOK
<1>2. PICK l \in Lists : hist' = [r \in 0..rev' |-> IF r = rev' THEN l ELSE hist[r]]
  BY DEF AccessChange
<1>3. \A r \in 0..rev' : r # rev' => r \in 0..rev
  BY <1>1 DEF TypeOK
<1>4. hist' \in [0..rev' -> Lists]
  BY <1>2, <1>3 DEF TypeOK
<1>5. \A r \in 0..rev : r \in 0..rev' /\ r # rev'
  BY <1>1 DEF TypeOK
<1> QED
  BY <1>1, <1>2, <1>4, <1>5

-----------------------------------------------------------------------------
(* The initial states satisfy the inductive invariant.                     *)
LEMMA InitIInv == Init => IInv
<1> SUFFICES ASSUME Init PROVE IInv
  OBVIOUS
<1>1. 0..rev = {0}
  BY DEF Init
<1> QED
  BY <1>1 DEF Init, IInv, TypeOK, ListMatchesRevision, PendingHasRow

(* Every step preserves it.                                                *)
LEMMA NextIInv == IInv /\ [Next]_vars => IInv'
<1> SUFFICES ASSUME TypeOK, ListMatchesRevision, PendingHasRow, [Next]_vars
             PROVE  IInv'
  BY DEF IInv
<1> USE DEF d1Vars, syncVars, swipeVars, IInv, ListMatchesRevision, PendingHasRow
<1>1. CASE AccessChange
  <2>1. TypeOK'
    BY <1>1, HistoryGrows DEF AccessChange, CallPushFobs, TypeOK
  <2>2. ListMatchesRevision'
    BY <1>1, HistoryGrows DEF AccessChange, Matches
  <2>3. PendingHasRow'
    BY <1>1 DEF AccessChange
  <2> QED
    BY <2>1, <2>2, <2>3
<1>2. CASE RotateKey
  BY <1>2 DEF RotateKey, TypeOK, Matches
<1>3. CASE PushStart
  <2>1. [rev |-> rev, fobs |-> hist[rev], key |-> key] \in Push
    BY DEF TypeOK, Push
  <2>2. Matches([rev |-> rev, fobs |-> hist[rev], key |-> key])
    BY DEF TypeOK, Matches
  <2>3. TypeOK'
    BY <1>3, <2>1 DEF PushStart, TypeOK
  <2>4. \A m \in pushes' : Matches(m)
    BY <1>3, <2>2 DEF PushStart
  <2> QED
    BY <1>3, <2>3, <2>4 DEF PushStart, Matches
<1>4. CASE PushDies
  BY <1>4 DEF PushDies, TypeOK, Matches
<1>5. CASE PushLost
  BY <1>5 DEF PushLost, TypeOK, Matches
<1>6. ASSUME NEW m \in pushes, PutFobs(m)
      PROVE  IInv'
  <2>1. m \in Push /\ Matches(m)
    BY DEF TypeOK
  <2>2. row' = Upsert(m) /\ row' \in Push
    BY <1>6, <2>1, UpsertType DEF PutFobs
  <2>3. Matches(Upsert(m))
    BY <2>1, UpsertMatches
  <2>4. TypeOK'
    BY <1>6, <2>2 DEF PutFobs, TypeOK
  <2>5. ListMatchesRevision'
    BY <1>6, <2>2, <2>3 DEF PutFobs, Matches
  <2> QED
    BY <2>2, <2>4, <2>5, ListsAssumption
<1>7. CASE RequestSync
  <2>1. owed' = owed + 1 \/ owed' = owed
    BY <1>7, Zenon DEF RequestSync, CallPushFobs
  <2>2. edgeWait' \in BOOLEAN /\ workerWait' \in BOOLEAN
    BY <1>7, Zenon DEF RequestSync, TypeOK
  <2>3. UNCHANGED <<rev, hist, key, pushes, row, stale, pending, upload>>
    BY <1>7 DEF RequestSync
  <2>4. TypeOK'
    BY <2>1, <2>2, <2>3 DEF TypeOK
  <2> QED
    BY <2>3, <2>4 DEF Matches
<1>8. CASE HoursPass \/ EdgeWaitOver \/ WorkerWaitOver
  <2>1. TypeOK'
    BY <1>8 DEF HoursPass, EdgeWaitOver, WorkerWaitOver, TypeOK
  <2> QED
    BY <1>8, <2>1 DEF HoursPass, EdgeWaitOver, WorkerWaitOver, Matches
<1>9. CASE SwipesArrive
  BY <1>9 DEF SwipesArrive, TypeOK, Matches
<1>10. CASE UploadStart
  <2>1. row \in Push
    BY <1>10 DEF UploadStart, TypeOK
  <2> QED
    BY <1>10, <2>1 DEF UploadStart, TypeOK, Push, Matches
<1>11. CASE UploadRefused \/ UploadLost
  <2>1. TypeOK'
    BY <1>11 DEF UploadRefused, UploadLost, TypeOK
  <2> QED
    BY <1>11, <2>1 DEF UploadRefused, UploadLost, Matches
<1>12. CASE UploadAccepted
  <2>1. owed' \in Nat
    BY <1>12 DEF UploadAccepted, CallPushFobs, TypeOK
  <2> QED
    BY <1>12, <2>1 DEF UploadAccepted, TypeOK, Matches
<1>13. CASE EdgeRestart
  BY <1>13 DEF EdgeRestart, TypeOK, Matches
<1>14. CASE UNCHANGED vars
  BY <1>14 DEF vars, TypeOK, Matches
<1> QED
  BY <1>1, <1>2, <1>3, <1>4, <1>5, <1>6, <1>7, <1>8, <1>9, <1>10, <1>11, <1>12,
     <1>13, <1>14 DEF Next

-----------------------------------------------------------------------------
(* Every state has the right type: of the database, of the pushes, of the  *)
(* edge's row and of its sync bookkeeping.                                 *)
THEOREM TypeCorrect == Spec => []TypeOK
<1>1. IInv => TypeOK
  BY DEF IInv
<1> QED
  BY InitIInv, NextIInv, <1>1, PTL DEF Spec

(* The edge never holds, and is never sent, a list other than the one the  *)
(* database had at the revision that comes with it (pushFobs, putFobs).    *)
THEOREM ListMatchesRevisionHolds == Spec => []ListMatchesRevision
<1>1. IInv => ListMatchesRevision
  BY DEF IInv
<1> QED
  BY InitIInv, NextIInv, <1>1, PTL DEF Spec

-----------------------------------------------------------------------------
(* The refinement *)

\* What the abstract specification sees of a row.
HeldRev == IF row = NoRow THEN -1 ELSE row.rev
Held    == IF row = NoRow THEN NoRow ELSE row.fobs

\* A step that leaves the database and the row alone is a stutter.
abstractVars == <<rev, hist, HeldRev, Held>>

(* A delivered push is an Adopt of the abstract holder: the list it leaves *)
(* in force is an authorized one, and not older than the one before.       *)
LEMMA PutFobsAdopts ==
    ASSUME IInv, NEW m \in pushes, PutFobs(m)
    PROVE  Abstract!Adopt
<1> USE DEF IInv
<1>1. m \in Push /\ Matches(m)
  BY DEF TypeOK, ListMatchesRevision
<1>2. row' = Upsert(m) /\ row' # NoRow /\ rev' = rev /\ hist' = hist
  BY <1>1, UpsertType, ListsAssumption DEF PutFobs, d1Vars
<1>3. Matches(row')
  BY <1>1, <1>2, UpsertMatches DEF ListMatchesRevision
<1>4. row # NoRow => row'.rev >= row.rev
  BY <1>1, <1>2, UpsertMonotone
<1>5. row'.rev \in Nat
  BY <1>3 DEF Matches
<1> QED
  BY <1>2, <1>3, <1>4, <1>5 DEF Abstract!Adopt, Matches

(* Every step of the protocol is a step of the abstract holder or none.    *)
LEMMA StepRefines ==
    ASSUME IInv, [Next]_vars
    PROVE  [Abstract!Next]_abstractVars
<1> USE DEF d1Vars, syncVars, swipeVars, abstractVars, HeldRev, Held
<1>1. CASE AccessChange
  BY <1>1 DEF AccessChange, Abstract!Next, Abstract!Change
<1>2. ASSUME NEW m \in pushes, PutFobs(m)
      PROVE  Abstract!Next
  BY <1>2, PutFobsAdopts DEF Abstract!Next
<1>3. CASE RotateKey \/ PushStart \/ PushDies \/ PushLost
  BY <1>3 DEF RotateKey, PushStart, PushDies, PushLost
<1>4. CASE RequestSync \/ HoursPass \/ EdgeWaitOver \/ WorkerWaitOver
  BY <1>4 DEF RequestSync, HoursPass, EdgeWaitOver, WorkerWaitOver
<1>5. CASE SwipesArrive \/ UploadStart \/ UploadRefused \/ UploadAccepted \/ UploadLost
  BY <1>5 DEF SwipesArrive, UploadStart, UploadRefused, UploadAccepted, UploadLost
<1>6. CASE EdgeRestart
  BY <1>6 DEF EdgeRestart
<1>7. CASE UNCHANGED vars
  BY <1>7 DEF vars
<1> QED
  BY <1>1, <1>2, <1>3, <1>4, <1>5, <1>6, <1>7 DEF Next

(* The protocol implements AuthorizedList: reordered, lost and late pushes *)
(* never take the edge back to a list it had already replaced (putFobs).   *)
THEOREM NeverRegressesHolds == Spec => NeverRegresses
<1>1. Init => Abstract!Init
  BY DEF Init, Abstract!Init
<1>2. IInv /\ [Next]_vars => [Abstract!Next]_abstractVars
  BY StepRefines
<1> QED
  BY InitIInv, NextIInv, <1>1, <1>2, PTL
  DEF Spec, NeverRegresses, Abstract!Spec, abstractVars, HeldRev, Held

-----------------------------------------------------------------------------
(* SwipeOutbox *)

\* The highest sequence, from which the next one is counted, exists.
HasLast == table # {} => \E r \in table : \A q \in table : q.seq <= r.seq

UniqueSeqs == \A r, q \in table : r.seq = q.seq => r = q

\* The rows that the current upload will delete.
Doomed == {r \in table : r.seq <= last}

\* New rows come after them, because the last of them is still there.
LastIsThere == pc \in {"sent", "deleting"} => \E r \in table : r.seq = last

\* Only an upload that runs or has been answered is awaited.
AwaitedIsSent ==
    /\ awaited \in Workers => pc \in {"sent", "deleting"}
    /\ pc = "sent" => awaited \in Workers

\* What an upload will delete is stored, or its invocation has yet to store it.
Covered ==
    /\ pc = "sent" /\ work[awaited].busy =>
         \A r \in Doomed : r.id \in Stored \/ r.id \in Rng(work[awaited].left)
    /\ pc = "deleting" => \A r \in Doomed : r.id \in Stored

TableOK == IsFiniteSet(table) /\ HasLast /\ UniqueSeqs

OutboxIInv == OutboxTypeOK /\ TableOK /\ LastIsThere /\ AwaitedIsSent /\ Covered /\ NothingLost

-----------------------------------------------------------------------------
(* Rows in the order of their sequences. *)

Earlier(r, rows) == {q \in rows : q.seq < r.seq}

LEMMA RankType ==
  ASSUME NEW rows, IsFiniteSet(rows), NEW r \in rows, r.seq \in Nat
  PROVE  /\ Cardinality(rows) \in Nat /\ Cardinality(Earlier(r, rows)) \in Nat
         /\ IsFiniteSet(Earlier(r, rows))
         /\ Cardinality(Earlier(r, rows)) < Cardinality(rows)
  <1>1. Earlier(r, rows) \in SUBSET rows /\ r \notin Earlier(r, rows)
    BY DEF Earlier
  <1>2. /\ IsFiniteSet(Earlier(r, rows)) /\ Cardinality(Earlier(r, rows)) <= Cardinality(rows)
        /\ Cardinality(rows) = Cardinality(Earlier(r, rows)) => rows = Earlier(r, rows)
    BY <1>1, FS_Subset
  <1>3. Cardinality(rows) \in Nat /\ Cardinality(Earlier(r, rows)) \in Nat
    BY <1>2, FS_CardinalityType
  <1> QED BY <1>1, <1>2, <1>3

LEMMA RankOrder ==
  ASSUME NEW rows, IsFiniteSet(rows), \A r \in rows : r.seq \in Nat,
         NEW a \in rows, NEW b \in rows, a.seq < b.seq
  PROVE  Cardinality(Earlier(a, rows)) < Cardinality(Earlier(b, rows))
  <1>1. IsFiniteSet(Earlier(b, rows)) /\ Cardinality(Earlier(b, rows)) \in Nat
    BY RankType
  <1>2. a \in Earlier(b, rows) /\ a \notin Earlier(a, rows)
    BY DEF Earlier
  <1>3. Earlier(a, rows) \in SUBSET Earlier(b, rows)
    BY DEF Earlier
  <1>4. /\ Cardinality(Earlier(a, rows)) <= Cardinality(Earlier(b, rows))
        /\ Cardinality(Earlier(b, rows)) = Cardinality(Earlier(a, rows)) => Earlier(b, rows) = Earlier(a, rows)
    BY <1>1, <1>3, FS_Subset
  <1>5. Cardinality(Earlier(a, rows)) \in Nat
    BY RankType
  <1> QED BY <1>1, <1>2, <1>4, <1>5

\* An upload lists every row it was built from, and nothing else.
LEMMA OrderedFacts ==
  ASSUME NEW rows, IsFiniteSet(rows), \A r \in rows : r.seq \in Nat,
         \A r, q \in rows : r.seq = q.seq => r = q,
         NEW S, \A r \in rows : r.id \in S
  PROVE  /\ Ordered(rows) \in Seq(S)
         /\ \A r \in rows : r.id \in Rng(Ordered(rows))
  <1> DEFINE n == Cardinality(rows)
             Rank(r) == Cardinality(Earlier(r, rows))
             rank == [r \in rows |-> Rank(r)]
  <1>1. n \in Nat
    BY FS_CardinalityType
  <1>2. \A r \in rows : Rank(r) \in 0 .. n - 1
    BY <1>1, RankType
  <1>3. \A a, b \in rows : Rank(a) = Rank(b) => a = b
    <2> SUFFICES ASSUME NEW a \in rows, NEW b \in rows, Rank(a) = Rank(b), a # b PROVE FALSE
      OBVIOUS
    <2>1. a.seq < b.seq \/ b.seq < a.seq
      OBVIOUS
    <2>2. Rank(a) \in Nat /\ Rank(b) \in Nat
      BY <1>1, <1>2
    <2>3. Rank(a) < Rank(b) \/ Rank(b) < Rank(a)
      BY <2>1, RankOrder
    <2> QED BY <2>2, <2>3
  <1> HIDE DEF Rank
  <1>4. \A i \in 1 .. n : \E r \in rows : Rank(r) = i - 1
    <2>1. rank \in Injection(rows, 0 .. n - 1)
      BY <1>2, <1>3 DEF Injection, IsInjective
    <2>2. IsFiniteSet(0 .. n - 1) /\ Cardinality(0 .. n - 1) = n
      BY <1>1, FS_Interval
    <2>3. rank \in Surjection(rows, 0 .. n - 1)
      BY <2>1, <2>2, FS_Injection
    <2>4. \A k \in 0 .. n - 1 : \E r \in rows : rank[r] = k
      BY <2>3 DEF Surjection
    <2>5. \A i \in 1 .. n : i - 1 \in 0 .. n - 1
      BY <1>1
    <2> QED BY <2>4, <2>5
  <1> DEFINE At(i) == CHOOSE r \in rows : Rank(r) = i - 1
  <1>5. \A i \in 1 .. n : At(i) \in rows /\ Rank(At(i)) = i - 1
    BY <1>4
  <1>6. Ordered(rows) = [i \in 1 .. n |-> At(i).id]
    BY DEF Ordered, Earlier, Rank
  <1>7. \A r \in rows : At(Rank(r) + 1) = r /\ Rank(r) + 1 \in 1 .. n
    <2> SUFFICES ASSUME NEW r \in rows PROVE At(Rank(r) + 1) = r /\ Rank(r) + 1 \in 1 .. n
      OBVIOUS
    <2>1. Rank(r) + 1 \in 1 .. n /\ (Rank(r) + 1) - 1 = Rank(r)
      BY <1>1, <1>2
    <2>2. At(Rank(r) + 1) \in rows /\ Rank(At(Rank(r) + 1)) = Rank(r)
      BY <1>5, <2>1
    <2> QED BY <1>3, <2>1, <2>2
  <1> HIDE DEF At
  <1>8. Ordered(rows) \in Seq(S) /\ Len(Ordered(rows)) = n
    BY <1>1, <1>5, <1>6
  <1>9. ASSUME NEW r \in rows PROVE r.id \in Rng(Ordered(rows))
    <2>1. Rank(r) + 1 \in 1 .. Len(Ordered(rows)) /\ Ordered(rows)[Rank(r) + 1] = r.id
      BY <1>6, <1>7, <1>8
    <2> QED BY <2>1 DEF Rng
  <1> QED BY <1>8, <1>9

\* A transaction takes a prefix of what is left, and the rest stays.
LEMMA ChunkFacts ==
  ASSUME OutboxTypeOK, NEW w \in Workers
  PROVE  /\ Rest(w) \in Seq(1 .. MaxIds)
         /\ Rng(work[w].left) \subseteq Rng(Chunk(w)) \union Rng(Rest(w))
  <1> DEFINE s == work[w].left
             k == Shorter(ChunkMax, Len(s))
  <1>1. s \in Seq(1 .. MaxIds) /\ Len(s) \in Nat /\ \A i \in 1 .. Len(s) : s[i] \in 1 .. MaxIds
    <2>1. work[w] \in [busy : BOOLEAN, left : Seq(1 .. MaxIds)]
      BY DEF OutboxTypeOK
    <2>2. s \in Seq(1 .. MaxIds)
      BY <2>1
    <2> HIDE DEF s
    <2>3. Len(s) \in Nat
      BY <2>2, LenProperties
    <2>4. \A i \in 1 .. Len(s) : s[i] \in 1 .. MaxIds
      BY <2>2, ElementOfSeq
    <2> QED BY <2>2, <2>3, <2>4
  <1>2. k \in 0 .. Len(s)
    BY <1>1, BatchAssumption DEF Shorter
  <1>3. Chunk(w) = SubSeq(s, 1, k) /\ Rest(w) = SubSeq(s, k + 1, Len(s))
    BY DEF Chunk, Rest
  <1> HIDE DEF s, k
  <1>4. /\ Len(SubSeq(s, 1, k)) = k
        /\ \A i \in 1 .. k : SubSeq(s, 1, k)[i] = s[i]
    <2>1. 1 \in Int /\ k \in Int /\ \A i \in 1 .. k : s[i] \in 1 .. MaxIds
      BY <1>1, <1>2
    <2>2. /\ Len(SubSeq(s, 1, k)) = IF 1 <= k THEN k - 1 + 1 ELSE 0
          /\ \A i \in 1 .. k - 1 + 1 : SubSeq(s, 1, k)[i] = s[1 + i - 1]
      BY <2>1, SubSeqProperties
    <2> QED BY <1>1, <1>2, <2>2
  <1>5. /\ SubSeq(s, k + 1, Len(s)) \in Seq(1 .. MaxIds)
        /\ Len(SubSeq(s, k + 1, Len(s))) = Len(s) - k
        /\ \A i \in 1 .. Len(s) - k : SubSeq(s, k + 1, Len(s))[i] = s[k + i]
    <2>1. k + 1 \in Int /\ Len(s) \in Int /\ \A i \in k + 1 .. Len(s) : s[i] \in 1 .. MaxIds
      BY <1>1, <1>2
    <2>2. /\ SubSeq(s, k + 1, Len(s)) \in Seq(1 .. MaxIds)
          /\ Len(SubSeq(s, k + 1, Len(s))) = IF k + 1 <= Len(s) THEN Len(s) - (k + 1) + 1 ELSE 0
          /\ \A i \in 1 .. Len(s) - (k + 1) + 1 : SubSeq(s, k + 1, Len(s))[i] = s[k + 1 + i - 1]
      BY <2>1, SubSeqProperties
    <2> QED BY <1>1, <1>2, <2>2
  <1>6. ASSUME NEW i \in 1 .. Len(s)
        PROVE  s[i] \in Rng(SubSeq(s, 1, k)) \union Rng(SubSeq(s, k + 1, Len(s)))
    <2>1. CASE i <= k
      <3>1. i \in 1 .. k
        BY <1>1, <1>2, <2>1
      <3> QED BY <1>4, <3>1 DEF Rng
    <2>2. CASE i > k
      <3>1. i - k \in 1 .. Len(s) - k /\ k + (i - k) = i
        BY <1>1, <1>2, <2>2
      <3> QED BY <1>5, <3>1 DEF Rng
    <2> QED BY <1>1, <1>2, <2>1, <2>2
  <1> QED BY <1>3, <1>5, <1>6 DEF Rng, s

-----------------------------------------------------------------------------
(* The outbox. *)

LEMMA NextSeqFacts ==
  ASSUME OutboxTypeOK, TableOK
  PROVE  NextSeq \in Nat \ {0} /\ \A r \in table : r.seq < NextSeq
  <1>1. CASE table = {}
    BY <1>1 DEF NextSeq
  <1>2. CASE table # {}
    <2>1. \E s \in Seqs : \A t \in Seqs : t <= s
      BY <1>2 DEF TableOK, HasLast, Seqs
    <2> DEFINE top == CHOOSE s \in Seqs : \A t \in Seqs : t <= s
    <2>2. top \in Seqs /\ \A t \in Seqs : t <= top
      BY <2>1
    <2>3. NextSeq = top + 1
      BY <1>2 DEF NextSeq
    <2>5. PICK m : m = top
      OBVIOUS
    <2>6. m \in Seqs /\ (\A t \in Seqs : t <= m) /\ NextSeq = m + 1
      BY <2>2, <2>3, <2>5
    <2>4. Seqs \subseteq Nat \ {0} /\ \A r \in table : r.seq \in Seqs
      BY DEF OutboxTypeOK, Seqs
    <2>7. ASSUME NEW r \in table PROVE r.seq < m + 1
      <3>1. r.seq \in Nat /\ m \in Nat /\ r.seq <= m
        BY <2>4, <2>6
      <3> QED BY <3>1
    <2>8. m + 1 \in Nat \ {0}
      BY <2>4, <2>6
    <2> QED BY <2>6, <2>7, <2>8
  <1> QED BY <1>1, <1>2

LEMMA StoreFacts ==
  ASSUME OutboxTypeOK, TableOK, StoreSwipes
  PROVE  /\ TableOK' /\ table \subseteq table'
         /\ ids' \in 0 .. MaxIds /\ ids <= ids'
         /\ table' \subseteq [seq : Nat \ {0}, id : 1 .. ids']
         /\ \A id \in ids + 1 .. ids' : \E r \in table' : r.id = id
         /\ \A r \in table', q \in table : r \notin table => q.seq < r.seq
  <1>1. NextSeq \in Nat \ {0} /\ \A r \in table : r.seq < NextSeq
    BY NextSeqFacts
  <1>2. PICK n \in 1 .. PostMax :
          /\ ids + n <= MaxIds /\ ids' = ids + n
          /\ table' = table \union {[seq |-> NextSeq + i - 1, id |-> ids + i] : i \in 1 .. n}
    BY DEF StoreSwipes
  <1>3. PICK first : first = NextSeq
    OBVIOUS
  <1>4. n \in Nat \ {0} /\ ids \in Nat /\ first \in Nat \ {0} /\ \A r \in table : r.seq < first
    BY <1>1, <1>3, BatchAssumption DEF OutboxTypeOK
  <1> DEFINE newRow(i) == [seq |-> first + i - 1, id |-> ids + i]
             new == {newRow(i) : i \in 1 .. n}
  <1>5. table' = table \union new
    BY <1>2, <1>3
  <1>6. \A i \in 1 .. n : /\ newRow(i) \in [seq : Nat \ {0}, id : 1 .. ids + n]
                          /\ newRow(i).seq = first + i - 1 /\ newRow(i).id = ids + i
    BY <1>4
  <1>7. IsFiniteSet(new)
    <2> DEFINE f == [i \in 1 .. n |-> newRow(i)]
    <2>1. f \in Surjection(1 .. n, new)
      BY DEF Surjection
    <2>2. IsFiniteSet(1 .. n)
      BY <1>4, FS_Interval
    <2> QED BY <2>1, <2>2, FS_Surjection
  <1> HIDE DEF newRow
  <1>8. \A r \in new : \E i \in 1 .. n : r = newRow(i)
    OBVIOUS
  <1>9. \A r \in new, q \in table : q.seq < r.seq
    <2> SUFFICES ASSUME NEW r \in new, NEW q \in table PROVE q.seq < r.seq
      OBVIOUS
    <2>1. PICK i \in 1 .. n : r = newRow(i)
      BY <1>8
    <2>2. q.seq < first /\ q.seq \in Nat
      BY <1>4 DEF OutboxTypeOK
    <2> QED BY <1>4, <1>6, <2>1, <2>2
  <1>10. IsFiniteSet(table')
    BY <1>5, <1>7, FS_Union DEF TableOK
  <1>11. HasLast'
    <2>1. n \in 1 .. n /\ newRow(n) \in new
      BY <1>4
    <2>2. \A q \in table : q.seq <= newRow(n).seq
      <3>1. \A q \in table : q.seq < newRow(n).seq /\ q.seq \in Nat
        BY <1>9, <2>1 DEF OutboxTypeOK
      <3>2. newRow(n).seq \in Nat
        BY <1>4, <1>6, <2>1
      <3> QED BY <3>1, <3>2
    <2>3. \A q \in new : q.seq <= newRow(n).seq
      <3> SUFFICES ASSUME NEW q \in new PROVE q.seq <= newRow(n).seq
        OBVIOUS
      <3>1. PICK i \in 1 .. n : q = newRow(i)
        BY <1>8
      <3> QED BY <1>4, <1>6, <2>1, <3>1
    <2> HIDE DEF new
    <2> QED BY <1>5, <2>1, <2>2, <2>3 DEF HasLast
  <1>12. UniqueSeqs'
    <2> SUFFICES ASSUME NEW r \in table', NEW q \in table', r.seq = q.seq PROVE r = q
      BY DEF UniqueSeqs
    <2>0. \A x \in table : x.seq \in Nat
      BY DEF OutboxTypeOK
    <2>1. CASE r \in table /\ q \in table
      BY <2>1 DEF TableOK, UniqueSeqs
    <2>2. CASE r \in new /\ q \in table
      BY <1>9, <2>0, <2>2
    <2>3. CASE r \in table /\ q \in new
      BY <1>9, <2>0, <2>3
    <2>4. CASE r \in new /\ q \in new
      <3>1. PICK i \in 1 .. n : r = newRow(i)
        BY <1>8, <2>4
      <3>2. PICK j \in 1 .. n : q = newRow(j)
        BY <1>8, <2>4
      <3>3. first + i - 1 = first + j - 1
        BY <1>6, <3>1, <3>2
      <3>4. i = j
        BY <1>4, <3>3
      <3> QED BY <3>1, <3>2, <3>4
    <2> QED BY <1>5, <2>1, <2>2, <2>3, <2>4
  <1>13. table' \subseteq [seq : Nat \ {0}, id : 1 .. ids']
    <2>1. 1 .. ids \subseteq 1 .. ids + n
      BY <1>4
    <2>2. table \subseteq [seq : Nat \ {0}, id : 1 .. ids + n]
      BY <2>1 DEF OutboxTypeOK
    <2> QED BY <1>2, <1>5, <1>6, <1>8, <2>2
  <1>14. \A id \in ids + 1 .. ids' : \E r \in table' : r.id = id
    <2> SUFFICES ASSUME NEW id \in ids + 1 .. ids + n PROVE \E r \in new : r.id = id
      BY <1>2, <1>5
    <2>1. id - ids \in 1 .. n /\ ids + (id - ids) = id
      BY <1>4
    <2> QED BY <1>6, <2>1
  <1>15. ids' \in 0 .. MaxIds /\ ids <= ids'
    BY <1>2, <1>4, BatchAssumption
  <1>16. \A r \in table', q \in table : r \notin table => q.seq < r.seq
    BY <1>5, <1>9
  <1> QED BY <1>5, <1>10, <1>11, <1>12, <1>13, <1>14, <1>15, <1>16 DEF TableOK

-----------------------------------------------------------------------------
(* The invariant, action by action. *)

LEMMA InitInv == OutboxInit => OutboxIInv
  <1> SUFFICES ASSUME OutboxInit PROVE OutboxIInv
    OBVIOUS
  <1>1. OutboxTypeOK
    <2>1. <<>> \in Seq(1 .. MaxIds)
      OBVIOUS
    <2>2. Idle \in [busy : BOOLEAN, left : Seq(1 .. MaxIds)]
      BY <2>1 DEF Idle
    <2>3. work \in [Workers -> [busy : BOOLEAN, left : Seq(1 .. MaxIds)]]
      BY <2>2 DEF OutboxInit
    <2>4. history \in [1 .. MaxIds -> Nat] /\ ids \in 0 .. MaxIds
      BY BatchAssumption DEF OutboxInit
    <2> QED BY <2>3, <2>4 DEF OutboxInit, OutboxTypeOK
  <1>2. TableOK
    BY FS_EmptySet DEF OutboxInit, TableOK, HasLast, UniqueSeqs
  <1>3. LastIsThere /\ AwaitedIsSent /\ Covered
    BY BatchAssumption DEF OutboxInit, LastIsThere, AwaitedIsSent, Covered
  <1>4. NothingLost
    BY DEF OutboxInit, NothingLost
  <1> QED BY <1>1, <1>2, <1>3, <1>4 DEF OutboxIInv

LEMMA StoreStep ==
  OutboxIInv /\ StoreSwipes => OutboxIInv'
  <1> SUFFICES ASSUME OutboxIInv, StoreSwipes PROVE OutboxIInv'
    OBVIOUS
  <1>0. UNCHANGED <<retry, wake, pc, last, awaited, work, history>> /\ waking' = waking + 1
    BY DEF StoreSwipes, senderVars, workerVars
  <1>1. /\ TableOK' /\ table \subseteq table'
        /\ ids' \in 0 .. MaxIds /\ ids <= ids'
        /\ table' \subseteq [seq : Nat \ {0}, id : 1 .. ids']
        /\ \A id \in ids + 1 .. ids' : \E r \in table' : r.id = id
        /\ \A r \in table', q \in table : r \notin table => q.seq < r.seq
    BY StoreFacts DEF OutboxIInv
  <1>2. OutboxTypeOK'
    BY <1>0, <1>1 DEF OutboxIInv, OutboxTypeOK
  <1>3. Stored' = Stored
    BY <1>0 DEF Stored
  <1>4. (LastIsThere /\ AwaitedIsSent)'
    BY <1>0, <1>1 DEF OutboxIInv, LastIsThere, AwaitedIsSent
  <1>5. pc \in {"sent", "deleting"} => Doomed' \subseteq Doomed
    <2> SUFFICES ASSUME pc \in {"sent", "deleting"}, NEW r \in table', r.seq <= last PROVE r \in table
      BY <1>0 DEF Doomed
    <2>1. PICK q \in table : q.seq = last
      BY DEF OutboxIInv, LastIsThere
    <2>2. r.seq \in Nat /\ last \in Nat
      BY <1>1 DEF OutboxIInv, OutboxTypeOK
    <2> QED BY <1>1, <2>1, <2>2
  <1>6. Covered'
    BY <1>0, <1>3, <1>5 DEF OutboxIInv, Covered
  <1>7. NothingLost'
    <2> SUFFICES ASSUME NEW id \in 1 .. ids' PROVE id \in {r.id : r \in table'} \union Stored
      BY <1>3 DEF NothingLost
    <2>1. ids \in Nat /\ ids' \in Nat /\ id \in Nat
      BY <1>1, BatchAssumption DEF OutboxIInv, OutboxTypeOK
    <2>2. CASE id <= ids
      BY <1>1, <2>1, <2>2 DEF OutboxIInv, NothingLost
    <2>3. CASE id > ids
      BY <1>1, <2>1, <2>3
    <2> QED BY <2>1, <2>2, <2>3
  <1> QED BY <1>1, <1>2, <1>4, <1>6, <1>7 DEF OutboxIInv

\* Steps that only touch the wake-ups, or end an upload, with the outbox left as it is.
LEMMA QuietStep ==
  ASSUME OutboxIInv, OutboxTypeOK', UNCHANGED <<table, ids, work, history>>,
         \/ UNCHANGED <<pc, last, awaited>>
         \/ pc' \in {"waiting", "reading"} /\ awaited' = 0
         \/ pc \in {"waiting", "reading"} /\ pc' \in {"waiting", "reading"} /\ UNCHANGED <<last, awaited>>
  PROVE  OutboxIInv'
  <1>1. TableOK' /\ NothingLost' /\ Stored' = Stored
    BY DEF OutboxIInv, TableOK, HasLast, UniqueSeqs, NothingLost, Stored
  <1>2. CASE UNCHANGED <<pc, last, awaited>>
    BY <1>1, <1>2 DEF OutboxIInv, LastIsThere, AwaitedIsSent, Covered, Doomed
  <1>3. CASE pc' \in {"waiting", "reading"} /\ awaited' = 0
    BY <1>1, <1>3, BatchAssumption DEF OutboxIInv, LastIsThere, AwaitedIsSent, Covered
  <1>4. CASE pc \in {"waiting", "reading"} /\ pc' \in {"waiting", "reading"} /\ UNCHANGED <<last, awaited>>
    BY <1>1, <1>4 DEF OutboxIInv, LastIsThere, AwaitedIsSent, Covered
  <1> QED BY <1>2, <1>3, <1>4

LEMMA SendStep ==
  OutboxIInv /\ Send => OutboxIInv'
  <1> SUFFICES ASSUME OutboxIInv, Send PROVE OutboxIInv'
    OBVIOUS
  <1>0. UNCHANGED <<table, ids, waking, wake, retry, history>> /\ pc' = "sent"
    BY DEF Send, edgeVars
  <1>1. PICK w \in Workers :
          /\ ~work[w].busy /\ awaited' = w
          /\ work' = [work EXCEPT ![w] = [busy |-> TRUE, left |-> Ordered(Oldest)]]
    BY DEF Send
  <1>2. PICK o \in Oldest : last' = o.seq
    BY DEF Send
  <1>3. Oldest \subseteq table /\ IsFiniteSet(Oldest) /\ IsFiniteSet(table)
    <2>1. Oldest \in SUBSET table
      BY DEF Oldest
    <2> QED BY <2>1, FS_Subset DEF OutboxIInv, TableOK
  <1>4. \A r \in table : r.seq \in Nat /\ r.id \in 1 .. MaxIds
    BY BatchAssumption DEF OutboxIInv, OutboxTypeOK
  <1>5. Ordered(Oldest) \in Seq(1 .. MaxIds) /\ \A r \in Oldest : r.id \in Rng(Ordered(Oldest))
    <2>1. /\ \A r \in Oldest : r.seq \in Nat /\ r.id \in 1 .. MaxIds
          /\ \A r, q \in Oldest : r.seq = q.seq => r = q
      BY <1>3, <1>4 DEF OutboxIInv, TableOK, UniqueSeqs
    <2> QED BY <1>3, <2>1, OrderedFacts
  <1>6. \A r \in table : r.seq <= o.seq => r \in Oldest
    <2> SUFFICES ASSUME NEW r \in table, r.seq <= o.seq, r # o PROVE r \in Oldest
      OBVIOUS
    <2>1. o \in table /\ r.seq < o.seq
      BY <1>2, <1>3, <1>4 DEF OutboxIInv, TableOK, UniqueSeqs
    <2>2. /\ Cardinality(Earlier(r, table)) < Cardinality(Earlier(o, table))
          /\ Cardinality(Earlier(r, table)) \in Nat /\ Cardinality(Earlier(o, table)) \in Nat
      BY <1>3, <1>4, <2>1, RankOrder, RankType
    <2>3. Cardinality(Earlier(o, table)) < BatchMax
      BY DEF Oldest, Earlier
    <2>4. Cardinality(Earlier(r, table)) < BatchMax
      BY <2>2, <2>3, BatchAssumption
    <2> QED BY <2>4 DEF Oldest, Earlier
  <1> DEFINE new == [busy |-> TRUE, left |-> Ordered(Oldest)]
  <1>7. new \in [busy : BOOLEAN, left : Seq(1 .. MaxIds)] /\ new.busy /\ new.left = Ordered(Oldest)
    BY <1>5
  <1>8. work' = [work EXCEPT ![w] = new]
    BY <1>1
  <1> HIDE DEF new
  <1>9. work' \in [Workers -> [busy : BOOLEAN, left : Seq(1 .. MaxIds)]] /\ work'[w] = new
    BY <1>7, <1>8 DEF OutboxIInv, OutboxTypeOK
  <1>10. OutboxTypeOK'
    BY <1>0, <1>1, <1>2, <1>3, <1>4, <1>9 DEF OutboxIInv, OutboxTypeOK
  <1>11. TableOK' /\ NothingLost' /\ Stored' = Stored
    BY <1>0 DEF OutboxIInv, TableOK, HasLast, UniqueSeqs, NothingLost, Stored
  <1>12. LastIsThere' /\ AwaitedIsSent'
    BY <1>0, <1>1, <1>2, <1>3 DEF LastIsThere, AwaitedIsSent
  <1>13. Covered'
    BY <1>0, <1>1, <1>2, <1>5, <1>6, <1>7, <1>9 DEF Covered, Doomed
  <1> QED BY <1>10, <1>11, <1>12, <1>13 DEF OutboxIInv

LEMMA DeleteStep ==
  OutboxIInv /\ DeleteUploaded => OutboxIInv'
  <1> SUFFICES ASSUME OutboxIInv, DeleteUploaded PROVE OutboxIInv'
    OBVIOUS
  <1>0. /\ UNCHANGED <<ids, waking, wake, retry, work, history>>
        /\ pc = "deleting" /\ pc' = "reading" /\ last' = 0 /\ awaited' = 0
        /\ table' = {r \in table : r.seq > last}
    BY DEF DeleteUploaded, workerVars, Uploaded
  <1>1. table' \in SUBSET table /\ IsFiniteSet(table')
    BY <1>0, FS_Subset DEF OutboxIInv, TableOK
  <1>2. OutboxTypeOK'
    BY <1>0, <1>1 DEF OutboxIInv, OutboxTypeOK
  <1>3. HasLast'
    <2> SUFFICES ASSUME NEW x \in table' PROVE \E r \in table' : \A q \in table' : q.seq <= r.seq
      BY DEF HasLast
    <2>1. PICK r \in table : \A q \in table : q.seq <= r.seq
      BY <1>1 DEF OutboxIInv, TableOK, HasLast
    <2>2. x.seq > last /\ x.seq <= r.seq /\ x.seq \in Nat /\ r.seq \in Nat /\ last \in Nat
      BY <1>0, <2>1 DEF OutboxIInv, OutboxTypeOK
    <2>3. r \in table'
      BY <1>0, <2>2
    <2> QED BY <1>1, <2>1, <2>3
  <1>4. TableOK'
    BY <1>1, <1>3 DEF OutboxIInv, TableOK, UniqueSeqs
  <1>5. Stored' = Stored
    BY <1>0 DEF Stored
  <1>6. NothingLost'
    <2> SUFFICES ASSUME NEW id \in 1 .. ids, id \notin Stored PROVE \E r \in table' : r.id = id
      BY <1>0, <1>5 DEF NothingLost
    <2>1. PICK r \in table : r.id = id
      BY DEF OutboxIInv, NothingLost
    <2>2. r \notin Doomed
      BY <1>0, <2>1 DEF OutboxIInv, Covered
    <2>3. r.seq \in Nat /\ last \in Nat
      BY DEF OutboxIInv, OutboxTypeOK
    <2>4. r.seq > last
      BY <2>2, <2>3 DEF Doomed
    <2> QED BY <1>0, <2>1, <2>4
  <1>7. LastIsThere' /\ AwaitedIsSent' /\ Covered'
    BY <1>0, BatchAssumption DEF LastIsThere, AwaitedIsSent, Covered
  <1> QED BY <1>2, <1>4, <1>6, <1>7 DEF OutboxIInv

LEMMA ChunkStep ==
  ASSUME OutboxIInv, NEW w \in Workers, StoreChunk(w)
  PROVE  OutboxIInv'
  <1>0. UNCHANGED <<table, ids, waking, wake, retry, pc, last, awaited>>
    BY DEF StoreChunk, edgeVars, senderVars
  <1>1. /\ Rest(w) \in Seq(1 .. MaxIds)
        /\ Rng(work[w].left) \subseteq Rng(Chunk(w)) \union Rng(Rest(w))
    BY ChunkFacts DEF OutboxIInv
  <1>2. PICK rest : rest = Rest(w)
    OBVIOUS
  <1>3. work' = [work EXCEPT ![w].left = rest]
    BY <1>2 DEF StoreChunk
  <1>4. /\ work' \in [Workers -> [busy : BOOLEAN, left : Seq(1 .. MaxIds)]]
        /\ \A v \in Workers : work'[v].busy = work[v].busy
        /\ \A v \in Workers \ {w} : work'[v] = work[v]
        /\ work'[w].left = rest
    BY <1>1, <1>2, <1>3 DEF OutboxIInv, OutboxTypeOK
  <1>5. history' \in [1 .. MaxIds -> Nat] /\ Stored \subseteq Stored'
        /\ \A id \in 1 .. MaxIds : id \in Rng(Chunk(w)) => id \in Stored'
    <2>1. history \in [1 .. MaxIds -> Nat]
      BY DEF OutboxIInv, OutboxTypeOK
    <2>2. PICK chunk : chunk = Rng(Chunk(w))
      OBVIOUS
    <2>3. history' = [id \in 1 .. MaxIds |-> IF id \in chunk /\ history[id] = 0 THEN 1 ELSE history[id]]
      BY <2>2 DEF StoreChunk, Inserted
    <2> QED BY <2>1, <2>2, <2>3 DEF Stored
  <1>6. OutboxTypeOK'
    BY <1>0, <1>4, <1>5 DEF OutboxIInv, OutboxTypeOK
  <1>7. TableOK' /\ LastIsThere' /\ AwaitedIsSent' /\ Doomed' = Doomed
    BY <1>0 DEF OutboxIInv, TableOK, HasLast, UniqueSeqs, LastIsThere, AwaitedIsSent, Doomed
  <1>8. NothingLost'
    BY <1>0, <1>5 DEF OutboxIInv, NothingLost
  <1>9. Covered'
    <2>1. pc = "deleting" => \A r \in Doomed : r.id \in Stored'
      BY <1>5 DEF OutboxIInv, Covered
    <2>2. ASSUME pc = "sent", work'[awaited].busy, NEW r \in Doomed
          PROVE  r.id \in Stored' \/ r.id \in Rng(work'[awaited].left)
      <3>1. awaited \in Workers
        BY <2>2 DEF OutboxIInv, AwaitedIsSent
      <3>2. r.id \in Stored \/ r.id \in Rng(work[awaited].left)
        BY <1>4, <2>2, <3>1 DEF OutboxIInv, Covered
      <3>3. r.id \in 1 .. MaxIds
        BY BatchAssumption DEF OutboxIInv, OutboxTypeOK, Doomed
      <3>4. CASE awaited = w
        BY <1>1, <1>2, <1>4, <1>5, <3>2, <3>3, <3>4
      <3>5. CASE awaited # w
        BY <1>4, <1>5, <3>1, <3>2, <3>5
      <3> QED BY <3>4, <3>5
    <2> QED BY <1>0, <1>7, <2>1, <2>2 DEF Covered
  <1> QED BY <1>6, <1>7, <1>8, <1>9 DEF OutboxIInv

\* An invocation ends: with the answer, or between two transactions.
LEMMA EndStep ==
  ASSUME OutboxIInv, NEW w \in Workers, Answer(w) \/ WorkerFails(w)
  PROVE  OutboxIInv'
  <1>0. UNCHANGED <<table, ids, waking, wake, retry, last, awaited, history>>
    BY DEF Answer, WorkerFails, edgeVars, senderVars
  <1>1. work' = [work EXCEPT ![w] = Idle] /\ work[w].busy
    BY DEF Answer, Answered, WorkerFails
  <1>2. Idle \in [busy : BOOLEAN, left : Seq(1 .. MaxIds)] /\ ~Idle.busy
    BY DEF Idle
  <1>3. /\ work' \in [Workers -> [busy : BOOLEAN, left : Seq(1 .. MaxIds)]]
        /\ ~work'[w].busy
        /\ \A v \in Workers \ {w} : work'[v] = work[v]
    BY <1>1, <1>2 DEF OutboxIInv, OutboxTypeOK
  <1>4. \/ pc' = pc
        \/ awaited = w /\ Answered(w) /\ pc' = "deleting"
    BY DEF Answer, WorkerFails, senderVars
  <1>5. OutboxTypeOK'
    BY <1>0, <1>3, <1>4 DEF OutboxIInv, OutboxTypeOK
  <1>6. TableOK' /\ NothingLost' /\ Doomed' = Doomed /\ Stored' = Stored
    BY <1>0 DEF OutboxIInv, TableOK, HasLast, UniqueSeqs, NothingLost, Doomed, Stored
  <1>7. CASE pc' = pc
    <2>1. pc = "sent" => awaited \in Workers
      BY DEF OutboxIInv, AwaitedIsSent
    <2>2. Covered'
      BY <1>0, <1>3, <1>6, <1>7, <2>1 DEF OutboxIInv, Covered
    <2> QED BY <1>0, <1>5, <1>6, <1>7, <2>2 DEF OutboxIInv, LastIsThere, AwaitedIsSent
  <1>8. CASE awaited = w /\ Answered(w) /\ pc' = "deleting"
    <2>1. pc \in {"sent", "deleting"}
      BY <1>8 DEF OutboxIInv, AwaitedIsSent
    <2>2. Rng(work[w].left) = {}
      BY <1>8 DEF Answered, Rng
    <2>3. \A r \in Doomed : r.id \in Stored
      BY <1>1, <1>8, <2>1, <2>2 DEF OutboxIInv, Covered
    <2> QED BY <1>0, <1>5, <1>6, <1>8, <2>1, <2>3 DEF OutboxIInv, LastIsThere, AwaitedIsSent, Covered
  <1> QED BY <1>4, <1>7, <1>8

LEMMA InvStep ==
  OutboxIInv /\ [OutboxNext]_outboxVars => OutboxIInv'
  <1> SUFFICES ASSUME OutboxIInv, [OutboxNext]_outboxVars PROVE OutboxIInv'
    OBVIOUS
  <1>1. CASE StoreSwipes
    BY <1>1, StoreStep
  <1>2. CASE WakeSender \/ PushWakesSender
    <2>1. UNCHANGED <<table, ids, work, history, pc, last, awaited>>
      BY <1>2 DEF WakeSender, PushWakesSender, edgeVars, senderVars, workerVars
    <2>2. OutboxTypeOK'
      <3>1. waking' \in Nat /\ wake' \in BOOLEAN /\ retry' = retry
        <4>0. waking \in Nat
          BY DEF OutboxIInv, OutboxTypeOK
        <4>1. CASE WakeSender
          <5>1. waking' = waking - 1 /\ waking > 0 /\ wake' = TRUE /\ retry' = retry
            BY <4>1 DEF WakeSender
          <5> QED BY <4>0, <5>1
        <4>2. CASE PushWakesSender
          BY <4>0, <4>2 DEF PushWakesSender, edgeVars
        <4> QED BY <1>2, <4>1, <4>2
      <3> QED BY <2>1, <3>1 DEF OutboxIInv, OutboxTypeOK
    <2> QED BY <2>1, <2>2, QuietStep
  <1>3. CASE Woken \/ NothingPending
    <2>1. /\ UNCHANGED <<table, ids, waking, work, history, last, awaited>>
          /\ pc \in {"waiting", "reading"} /\ pc' \in {"waiting", "reading"}
      BY <1>3 DEF Woken, NothingPending, edgeVars, workerVars
    <2>2. OutboxTypeOK'
      BY <1>3, <2>1 DEF Woken, NothingPending, OutboxIInv, OutboxTypeOK
    <2> QED BY <2>1, <2>2, QuietStep
  <1>4. CASE Send
    BY <1>4, SendStep
  <1>5. CASE UploadFails \/ DeleteFails \/ OutboxRestart
    <2>1. /\ UNCHANGED <<table, ids, work, history>>
          /\ pc' = "waiting" /\ awaited' = 0 /\ last' = 0
          /\ retry' = TRUE /\ (waking' = 0 \/ waking' = waking) /\ (wake' = FALSE \/ wake' = wake)
      BY <1>5 DEF UploadFails, DeleteFails, OutboxRestart, Fail, edgeVars, workerVars
    <2>2. waking' \in Nat /\ wake' \in BOOLEAN
      <3>1. waking \in Nat /\ wake \in BOOLEAN
        BY DEF OutboxIInv, OutboxTypeOK
      <3>2. waking' \in Nat
        <4>1. 0 \in Nat
          OBVIOUS
        <4> QED BY <2>1, <3>1, <4>1, Zenon
      <3>3. wake' \in BOOLEAN
        BY <2>1, <3>1, Zenon
      <3> QED BY <3>2, <3>3
    <2>3. OutboxTypeOK'
      BY <2>1, <2>2 DEF OutboxIInv, OutboxTypeOK
    <2> QED BY <2>1, <2>3, QuietStep
  <1>6. CASE DeleteUploaded
    BY <1>6, DeleteStep
  <1>7. ASSUME NEW w \in Workers, StoreChunk(w) PROVE OutboxIInv'
    BY <1>7, ChunkStep
  <1>8. ASSUME NEW w \in Workers, Answer(w) \/ WorkerFails(w) PROVE OutboxIInv'
    BY <1>8, EndStep
  <1>9. CASE UNCHANGED outboxVars
    <2>1. UNCHANGED <<table, ids, waking, wake, retry, work, history, pc, last, awaited>>
      BY <1>9 DEF outboxVars, edgeVars, senderVars, workerVars
    <2>2. OutboxTypeOK'
      BY <2>1 DEF OutboxIInv, OutboxTypeOK
    <2> QED BY <2>1, <2>2, QuietStep
  <1> QED BY <1>1, <1>2, <1>3, <1>4, <1>5, <1>6, <1>7, <1>8, <1>9 DEF OutboxNext

THEOREM Invariance == OutboxSpec => []OutboxIInv
  <1>1. OutboxInit => OutboxIInv
    BY InitInv
  <1>2. OutboxIInv /\ [OutboxNext]_outboxVars => OutboxIInv'
    BY InvStep
  <1> QED BY <1>1, <1>2, PTL DEF OutboxSpec

-----------------------------------------------------------------------------
(* Rows, uploads and invocations keep their types, and an upload lists only stored swipes. *)
THEOREM OutboxTypeCorrect == OutboxSpec => []OutboxTypeOK
  <1>1. OutboxIInv => OutboxTypeOK
    BY DEF OutboxIInv
  <1> QED BY <1>1, Invariance, PTL

(* Whatever times out, is sent again, is answered late or stops, a swipe the edge has stored *)
(* is in the outbox or in the history: rows are deleted only when the invocation that was    *)
(* awaited has stored every row up to the last sequence, and rows stored meanwhile come      *)
(* after it.                                                                                 *)
THEOREM NothingLostHolds == OutboxSpec => []NothingLost
  <1>1. OutboxIInv => NothingLost
    BY DEF OutboxIInv
  <1> QED BY <1>1, Invariance, PTL

(* However often, and however concurrently, an upload is executed, a swipe has one row. *)
THEOREM StoredOnceHolds == OutboxSpec => []StoredOnce
  <1>1. OutboxInit => StoredOnce
    BY DEF OutboxInit, StoredOnce
  <1>2. OutboxIInv /\ StoredOnce /\ [OutboxNext]_outboxVars => StoredOnce'
    <2> SUFFICES ASSUME OutboxIInv, StoredOnce, [OutboxNext]_outboxVars PROVE StoredOnce'
      OBVIOUS
    <2>1. history \in [1 .. MaxIds -> Nat]
      BY DEF OutboxIInv, OutboxTypeOK
    <2>2. CASE history' = history
      BY <2>2 DEF StoredOnce
    <2>3. ASSUME NEW w \in Workers, StoreChunk(w) PROVE StoredOnce'
      <3>1. PICK chunk : chunk = Rng(Chunk(w))
        OBVIOUS
      <3>2. history' = [id \in 1 .. MaxIds |-> IF id \in chunk /\ history[id] = 0 THEN 1 ELSE history[id]]
        BY <2>3, <3>1 DEF StoreChunk, Inserted
      <3> QED BY <2>1, <3>2 DEF StoredOnce
    <2>4. history' = history \/ \E w \in Workers : StoreChunk(w)
      BY DEF OutboxNext, StoreSwipes, WakeSender, PushWakesSender, Woken, NothingPending, Send, UploadFails,
             DeleteUploaded, DeleteFails, Answer, WorkerFails, OutboxRestart, outboxVars, workerVars
    <2> QED BY <2>2, <2>3, <2>4
  <1> QED BY <1>1, <1>2, Invariance, PTL DEF OutboxSpec
=============================================================================
