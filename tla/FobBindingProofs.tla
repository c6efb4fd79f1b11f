-------------------------- MODULE FobBindingProofs --------------------------
(***************************************************************************)
(* Theorems about FobBinding, for any members, fobs, forms and swipes and  *)
(* any number of changes.  A swipe's owner is computed from the assignment *)
(* table, so the argument is that the intervals of one fob never overlap   *)
(* and that no statement changes what the table says of a past time.       *)
(***************************************************************************)
EXTENDS FobBinding, TLAPS

Tables == Seq(Row)

\* The intervals of one fob follow each other in the order of their ids.
Disjoint(table) ==
    \A i, j \in 1..Len(table) : i < j /\ table[i].fob = table[j].fob =>
        table[i].ended # Open /\ table[i].ended <= table[j].started

\* No interval begins or ends in the future.
Elapsed ==
    \A i \in 1..Len(assigned) : assigned[i].started <= now /\ assigned[i].ended <= now

\* What the table says of the past is what was.
PastOnRecord ==
    \A t \in 0..(now - 1), f \in Fobs : heldAt[t][f] = Owner(assigned, f, t)

\* A swipe that counts as settled was made before now and with a fob.
SettledIsPast ==
    \A s \in settled : swipes[s].time \in 0..(now - 1) /\ swipes[s].fob \in Fobs

\* A form shows the fob of its version.
FormsShowVersion ==
    \A a \in Admins : form[a].member # None =>
        /\ form[a].version <= version[form[a].member]
        /\ form[a].member \in live /\ form[a].version = version[form[a].member] =>
             form[a].fob = fob[form[a].member]

IInv ==
    /\ TypeOK /\ AssignmentsFollowFobs /\ SwipesNameHolder
    /\ Disjoint(assigned) /\ Elapsed /\ PastOnRecord /\ SettledIsPast /\ FormsShowVersion

-----------------------------------------------------------------------------
(* The lookup *)

(* If intervals are disjoint the lookup of swipeWebhook finds the only     *)
(* assignment that was in force.                                           *)
LEMMA OwnerIsUnique ==
    ASSUME NEW table \in Tables, Disjoint(table), NEW f \in Fobs, NEW t \in Nat,
           NEW i \in 1..Len(table), Held(table[i], f, t)
    PROVE  Owner(table, f, t) = table[i].member
<1> DEFINE matching == {j \in DOMAIN table : Held(table[j], f, t)}
<1>1. DOMAIN table = 1..Len(table) /\ Len(table) \in Nat
  BY DEF Tables
<1>2. \A j \in 1..Len(table) : table[j] \in Row
  BY DEF Tables
<1>3. \A j \in matching : j = i
  <2> SUFFICES ASSUME NEW j \in matching, j # i PROVE FALSE
    OBVIOUS
  <2>1. j \in 1..Len(table) /\ table[j].fob = f /\ table[i].fob = f
    BY <1>1 DEF Held
  <2>2. CASE i < j
    BY <1>2, <2>1, <2>2 DEF Disjoint, Held, Row, Open
  <2>3. CASE j < i
    BY <1>2, <2>1, <2>3 DEF Disjoint, Held, Row, Open
  <2> QED
    BY <2>1, <2>2, <2>3
<1>4. matching = {i}
  BY <1>1, <1>3
<1>5. (CHOOSE k \in matching : \A j \in matching : Later(table, k, j)) = i
  <2>1. Later(table, i, i)
    BY <1>1 DEF Later
  <2> QED
    BY <1>4, <2>1
<1> QED
  BY <1>4, <1>5 DEF Owner

(* Without an assignment in force the lookup finds nobody.                 *)
LEMMA OwnerIsNobody ==
    ASSUME NEW table \in Tables, NEW f \in Fobs, NEW t \in Nat,
           \A i \in 1..Len(table) : ~Held(table[i], f, t)
    PROVE  Owner(table, f, t) = None
<1>1. DOMAIN table = 1..Len(table)
  BY DEF Tables
<1> QED
  BY <1>1 DEF Owner

-----------------------------------------------------------------------------
(* The statements *)

(* Closing a member's assignment touches nothing but its end.              *)
LEMMA ClosedRows ==
    ASSUME TypeOK, NEW m \in Members
    PROVE  /\ Closed(m) \in Tables /\ Len(Closed(m)) = Len(assigned)
           /\ \A i \in 1..Len(assigned) :
                Closed(m)[i] = IF assigned[i].member = m /\ assigned[i].ended = Open
                               THEN [assigned[i] EXCEPT !.ended = now] ELSE assigned[i]
<1>1. DOMAIN assigned = 1..Len(assigned) /\ Len(assigned) \in Nat
  BY DEF TypeOK
<1>2. \A i \in 1..Len(assigned) : assigned[i] \in Row
  BY DEF TypeOK
<1>3. \A i \in 1..Len(assigned) : [assigned[i] EXCEPT !.ended = now] \in Row
  BY <1>2 DEF Row, TypeOK
<1> QED
  BY <1>1, <1>2, <1>3 DEF Closed, Tables

(* A new assignment starts now and is open; clearing a fob makes none.     *)
LEMMA OpenedRows ==
    ASSUME TypeOK, NEW m \in Members, NEW f \in Fobs \union {None}
    PROVE  /\ Opened(m, f) \in Tables
           /\ f = None => Opened(m, f) = <<>>
           /\ f # None => Opened(m, f) = <<[fob |-> f, member |-> m, started |-> now, ended |-> Open]>>
<1>1. CASE f = None
  BY <1>1 DEF Opened, Tables
<1>2. CASE f # None
  <2> DEFINE r == [fob |-> f, member |-> m, started |-> now, ended |-> Open]
  <2>1. r \in Row
    BY <1>2 DEF Row, TypeOK
  <2>2. Opened(m, f) = <<r>>
    BY <1>2 DEF Opened
  <2>3. <<r>> \in Seq(Row)
    <3> HIDE DEF r
    <3> QED
      BY <2>1
  <2> QED
    BY <1>2, <2>2, <2>3 DEF Tables
<1> QED
  BY <1>1, <1>2

(* The table after a fob has changed, row by row (member_fob_changed).     *)
LEMMA ChangedRows ==
    ASSUME TypeOK, NEW m \in Members, NEW f \in Fobs \union {None},
           f # fob[m], SetFob(m, f)
    PROVE  /\ assigned' \in Tables
           /\ Len(assigned') = IF f = None THEN Len(assigned) ELSE Len(assigned) + 1
           /\ \A i \in 1..Len(assigned) :
                assigned'[i] = IF assigned[i].member = m /\ assigned[i].ended = Open
                               THEN [assigned[i] EXCEPT !.ended = now] ELSE assigned[i]
           /\ f # None => assigned'[Len(assigned) + 1] =
                            [fob |-> f, member |-> m, started |-> now, ended |-> Open]
<1>1. assigned' = Closed(m) \o Opened(m, f)
  BY DEF SetFob
<1> DEFINE c == Closed(m)
           o == Opened(m, f)
<1>2. c \in Tables /\ o \in Tables /\ Len(c) = Len(assigned) /\ Len(assigned) \in Nat
  BY ClosedRows, OpenedRows DEF TypeOK
<1>3. c \o o \in Tables /\ Len(c \o o) = Len(c) + Len(o)
      /\ \A i \in 1..(Len(c) + Len(o)) : (c \o o)[i] = IF i <= Len(c) THEN c[i] ELSE o[i - Len(c)]
  <2> HIDE DEF c, o
  <2> QED
    BY <1>2 DEF Tables
<1>4. Len(o) = IF f = None THEN 0 ELSE 1
  BY OpenedRows
<1>5. f # None => o[1] = [fob |-> f, member |-> m, started |-> now, ended |-> Open]
  BY OpenedRows
<1>6. \A i \in 1..Len(assigned) : assigned'[i] = c[i]
  <2> HIDE DEF c, o
  <2> QED
    BY <1>1, <1>2, <1>3, <1>4 DEF c, o
<1>7. f # None => assigned'[Len(assigned) + 1] = o[1]
  <2>1. assigned' = c \o o
    BY <1>1
  <2> HIDE DEF c, o
  <2> QED
    BY <2>1, <1>2, <1>3, <1>4
<1> QED
  BY <1>1, <1>2, <1>3, <1>4, <1>5, <1>6, <1>7, ClosedRows

-----------------------------------------------------------------------------
(* What a change of a member's fob preserves *)

(* The new table has disjoint intervals that have begun, says the same of  *)
(* every past time, and its open rows are the members' fobs again.         *)
LEMMA ChangeKeepsTable ==
    ASSUME IInv, NEW m \in live, NEW f \in Fobs \union {None},
           f # fob[m], ~Taken(f, m), SetFob(m, f), now' = now
    PROVE  Disjoint(assigned') /\ Elapsed'
<1> DEFINE n == Len(assigned)
<1>1. m \in Members /\ TypeOK /\ now \in Nat
  BY DEF IInv, TypeOK
<1>2. /\ Len(assigned') = IF f = None THEN n ELSE n + 1
      /\ \A i \in 1..n : assigned'[i] = IF assigned[i].member = m /\ assigned[i].ended = Open
                                        THEN [assigned[i] EXCEPT !.ended = now] ELSE assigned[i]
      /\ f # None => assigned'[n + 1] = [fob |-> f, member |-> m, started |-> now, ended |-> Open]
  BY <1>1, ChangedRows
<1>3. n \in Nat /\ \A i \in 1..n : assigned[i] \in Row
  BY <1>1 DEF TypeOK
<1> HIDE DEF n
<1>4. \A i \in 1..n : /\ assigned'[i].fob = assigned[i].fob
                      /\ assigned'[i].started = assigned[i].started
                      /\ \/ assigned'[i].ended = assigned[i].ended
                         \/ assigned[i].ended = Open /\ assigned'[i].ended = now
  BY <1>2, <1>3 DEF Row
<1>5. \A i \in 1..n : assigned[i].started \in Nat /\ assigned[i].started <= now
                      /\ assigned[i].ended \in Nat \union {Open} /\ assigned[i].ended <= now
  <2>1. \A i \in 1..n : assigned[i].started \in Nat /\ assigned[i].ended \in Nat \union {Open}
    BY <1>3 DEF Row
  <2>2. \A i \in 1..n : assigned[i].started <= now /\ assigned[i].ended <= now
    BY DEF IInv, Elapsed, n
  <2> QED
    BY <2>1, <2>2
<1>6. \A i, j \in 1..n : i < j /\ assigned[i].fob = assigned[j].fob =>
        assigned[i].ended # Open /\ assigned[i].ended <= assigned[j].started
  BY DEF IInv, Disjoint, n
<1>7. \A i \in 1..n : f # None /\ assigned[i].fob = f =>
        assigned'[i].ended # Open /\ assigned'[i].ended <= now
  <2> SUFFICES ASSUME NEW i \in 1..n, f # None, assigned[i].fob = f
               PROVE  assigned'[i].ended # Open /\ assigned'[i].ended <= now
    OBVIOUS
  <2>1. assigned[i].ended # Open
    <3> SUFFICES ASSUME assigned[i].ended = Open PROVE FALSE
      OBVIOUS
    <3>1. DOMAIN assigned = 1..n
      BY <1>1 DEF TypeOK, n
    <3>2. assigned[i].member \in live /\ fob[assigned[i].member] = f
      BY <3>1 DEF IInv, AssignmentsFollowFobs, IsOpen
    <3>3. assigned[i].member = m
      BY <3>2 DEF Taken
    <3> QED
      BY <3>2, <3>3
  <2> QED
    BY <1>4, <1>5, <2>1
<1>8. Disjoint(assigned')
  <2> SUFFICES ASSUME NEW i \in 1..Len(assigned'), NEW j \in 1..Len(assigned'), i < j,
                      assigned'[i].fob = assigned'[j].fob
               PROVE  assigned'[i].ended # Open /\ assigned'[i].ended <= assigned'[j].started
    BY DEF Disjoint
  <2>1. i \in 1..n
    BY <1>2, <1>3
  <2>2. CASE j \in 1..n
    BY <1>4, <1>6, <2>1, <2>2
  <2>3. CASE j \notin 1..n
    <3>1. f # None /\ j = n + 1
      BY <1>2, <1>3, <2>3
    <3>2. assigned'[j].fob = f /\ assigned'[j].started = now
      BY <1>2, <3>1
    <3>3. assigned[i].fob = f
      BY <1>4, <2>1, <3>2
    <3> QED
      BY <1>7, <2>1, <3>1, <3>2, <3>3
  <2> QED
    BY <2>2, <2>3
<1>9. Elapsed'
  <2> SUFFICES ASSUME NEW i \in 1..Len(assigned')
               PROVE  assigned'[i].started <= now /\ assigned'[i].ended <= now
    BY DEF Elapsed
  <2>1. CASE i \in 1..n
    BY <1>1, <1>4, <1>5, <2>1
  <2>2. CASE i \notin 1..n
    <3>1. f # None /\ i = n + 1
      BY <1>2, <1>3, <2>2
    <3> QED
      BY <1>1, <1>2, <3>1 DEF Open
  <2> QED
    BY <2>1, <2>2
<1> QED
  BY <1>8, <1>9

(* The lookup's answer for a past time is the same after the change.       *)
LEMMA ChangeKeepsPast ==
    ASSUME IInv, NEW m \in live, NEW f \in Fobs \union {None},
           f # fob[m], ~Taken(f, m), SetFob(m, f), now' = now,
           NEW t \in 0..(now - 1), NEW g \in Fobs
    PROVE  Owner(assigned', g, t) = Owner(assigned, g, t)
<1> DEFINE n == Len(assigned)
<1>1. m \in Members /\ TypeOK /\ now \in Nat /\ t \in Nat /\ t < now
  BY DEF IInv, TypeOK
<1>2. /\ assigned' \in Tables
      /\ Len(assigned') = IF f = None THEN n ELSE n + 1
      /\ \A i \in 1..n : assigned'[i] = IF assigned[i].member = m /\ assigned[i].ended = Open
                                        THEN [assigned[i] EXCEPT !.ended = now] ELSE assigned[i]
      /\ f # None => assigned'[n + 1] = [fob |-> f, member |-> m, started |-> now, ended |-> Open]
  BY <1>1, ChangedRows
<1>3. assigned \in Tables /\ n \in Nat /\ \A i \in 1..n : assigned[i] \in Row
  BY <1>1 DEF TypeOK, Tables
<1>4. Disjoint(assigned) /\ Disjoint(assigned')
  BY ChangeKeepsTable DEF IInv
<1>5. \A i \in 1..n : /\ Held(assigned'[i], g, t) <=> Held(assigned[i], g, t)
                      /\ assigned'[i].member = assigned[i].member
  BY <1>1, <1>2, <1>3 DEF Held, Row, Open
<1>6. f # None => ~Held(assigned'[n + 1], g, t)
  BY <1>1, <1>2 DEF Held
<1>7. CASE \E i \in 1..n : Held(assigned[i], g, t)
  <2>1. PICK i \in 1..n : Held(assigned[i], g, t)
    BY <1>7
  <2>2. Owner(assigned, g, t) = assigned[i].member
    BY <1>1, <1>3, <1>4, <2>1, OwnerIsUnique
  <2>3. i \in 1..Len(assigned') /\ Held(assigned'[i], g, t)
    BY <1>2, <1>3, <1>5, <2>1
  <2>4. Owner(assigned', g, t) = assigned'[i].member
    BY <1>1, <1>2, <1>4, <2>3, OwnerIsUnique
  <2> QED
    BY <1>5, <2>2, <2>4
<1>8. CASE \A i \in 1..n : ~Held(assigned[i], g, t)
  <2>1. \A i \in 1..Len(assigned') : i \in 1..n \/ (f # None /\ i = n + 1)
    BY <1>2, <1>3
  <2>2. \A i \in 1..Len(assigned') : ~Held(assigned'[i], g, t)
    BY <1>5, <1>6, <1>8, <2>1
  <2> QED
    BY <1>1, <1>2, <1>3, <1>8, <2>2, OwnerIsNobody
<1> QED
  BY <1>7, <1>8

(* After the change the open rows are the members' fobs again.             *)
LEMMA ChangeFollowsFobs ==
    ASSUME IInv, NEW m \in live, NEW f \in Fobs \union {None},
           f # fob[m], ~Taken(f, m), SetFob(m, f)
    PROVE  AssignmentsFollowFobs'
<1> DEFINE n == Len(assigned)
<1>1. m \in Members /\ TypeOK /\ now \in Nat /\ live' = live /\ live \subseteq Members
  BY DEF IInv, TypeOK, SetFob
<1>2. /\ assigned' \in Tables
      /\ Len(assigned') = IF f = None THEN n ELSE n + 1
      /\ \A i \in 1..n : assigned'[i] = IF assigned[i].member = m /\ assigned[i].ended = Open
                                        THEN [assigned[i] EXCEPT !.ended = now] ELSE assigned[i]
      /\ f # None => assigned'[n + 1] = [fob |-> f, member |-> m, started |-> now, ended |-> Open]
  BY <1>1, ChangedRows
<1>3. n \in Nat /\ (\A i \in 1..n : assigned[i] \in Row) /\ DOMAIN assigned = 1..n
      /\ DOMAIN assigned' = 1..Len(assigned')
  BY <1>1, <1>2 DEF TypeOK, Tables
<1>4. fob \in [Members -> Fobs \union {None}] /\ fob' = [fob EXCEPT ![m] = f]
  BY <1>1 DEF TypeOK, SetFob
<1> HIDE DEF n
<1>5. \A i \in 1..n : /\ assigned'[i].fob = assigned[i].fob
                      /\ assigned'[i].member = assigned[i].member
                      /\ assigned'[i].ended = Open <=>
                           assigned[i].ended = Open /\ assigned[i].member # m
  <2> SUFFICES ASSUME NEW i \in 1..n
               PROVE  /\ assigned'[i].fob = assigned[i].fob
                      /\ assigned'[i].member = assigned[i].member
                      /\ assigned'[i].ended = Open <=>
                           assigned[i].ended = Open /\ assigned[i].member # m
    OBVIOUS
  <2>1. assigned[i] \in Row /\ now # Open
    BY <1>1, <1>3 DEF Open
  <2>2. CASE assigned[i].member = m /\ assigned[i].ended = Open
    <3>1. assigned'[i] = [assigned[i] EXCEPT !.ended = now]
      BY <1>2, <2>2
    <3> QED
      BY <2>1, <2>2, <3>1 DEF Row
  <2>3. CASE ~(assigned[i].member = m /\ assigned[i].ended = Open)
    <3>1. assigned'[i] = assigned[i]
      BY <1>2, <2>3
    <3> QED
      BY <2>3, <3>1
  <2> QED
    BY <2>2, <2>3
<1>6. \A i \in 1..Len(assigned') : i \in 1..n \/ (f # None /\ i = n + 1)
  BY <1>2, <1>3
<1>7. f # None => /\ n + 1 \in 1..Len(assigned') /\ assigned'[n + 1].fob = f
                  /\ assigned'[n + 1].member = m /\ assigned'[n + 1].ended = Open
  BY <1>2, <1>3
<1>8. /\ \A i \in 1..n : assigned[i].ended = Open =>
           assigned[i].member \in live /\ fob[assigned[i].member] = assigned[i].fob
      /\ \A k \in live : fob[k] # None => \E i \in 1..n : assigned[i].ended = Open /\ assigned[i].member = k
      /\ \A i, j \in 1..n : assigned[i].ended = Open /\ assigned[j].ended = Open
                            /\ assigned[i].fob = assigned[j].fob => i = j
      /\ \A k, l \in live : fob[k] = fob[l] /\ fob[k] # None => k = l
  BY <1>3 DEF IInv, AssignmentsFollowFobs, IsOpen
<1>9. \A k \in live \ {m} : fob'[k] = fob[k] /\ (f # None => fob[k] # f)
  BY <1>1, <1>4 DEF Taken
<1>10. fob'[m] = f
  BY <1>1, <1>4
<1>11. \A k, l \in live : fob'[k] = fob'[l] /\ fob'[k] # None => k = l
  BY <1>8, <1>9, <1>10
<1>12. \A i \in 1..Len(assigned') : assigned'[i].ended = Open =>
         assigned'[i].member \in live /\ fob'[assigned'[i].member] = assigned'[i].fob
  BY <1>5, <1>6, <1>7, <1>8, <1>9, <1>10
<1>13. ASSUME NEW k \in live, fob'[k] # None
       PROVE  \E i \in 1..Len(assigned') : assigned'[i].ended = Open /\ assigned'[i].member = k
  <2>1. CASE k = m
    BY <1>7, <1>10, <1>13, <2>1
  <2>2. CASE k # m
    <3>1. PICK i \in 1..n : assigned[i].ended = Open /\ assigned[i].member = k
      BY <1>8, <1>9, <1>13, <2>2
    <3>2. i \in 1..Len(assigned')
      BY <1>2, <1>3
    <3> QED
      BY <1>5, <2>2, <3>1, <3>2
  <2> QED
    BY <2>1, <2>2
<1>14. ASSUME NEW i \in 1..Len(assigned'), NEW j \in 1..Len(assigned'),
              assigned'[i].ended = Open, assigned'[j].ended = Open,
              assigned'[i].fob = assigned'[j].fob
       PROVE  i = j
  <2>1. CASE i \in 1..n /\ j \in 1..n
    BY <1>5, <1>8, <1>14, <2>1
  <2>2. ASSUME NEW k \in 1..n, assigned'[k].ended = Open, f # None, assigned'[k].fob = f
        PROVE  FALSE
    <3>1. assigned[k].ended = Open /\ assigned[k].member # m /\ assigned[k].fob = f
      BY <1>5, <2>2
    <3> QED
      BY <1>8, <1>9, <2>2, <3>1
  <2> QED
    BY <1>6, <1>7, <1>14, <2>1, <2>2
<1> DEFINE T == assigned'
<1>15. DOMAIN T = 1..Len(T)
  BY <1>3
<1>16. /\ \A k, l \in live' : fob'[k] = fob'[l] /\ fob'[k] # None => k = l
       /\ \A i \in DOMAIN T : T[i].ended = Open =>
            T[i].member \in live' /\ fob'[T[i].member] = T[i].fob
       /\ \A k \in live' : fob'[k] # None => \E i \in DOMAIN T : T[i].ended = Open /\ T[i].member = k
       /\ \A i, j \in DOMAIN T : T[i].ended = Open /\ T[j].ended = Open /\ T[i].fob = T[j].fob => i = j
  <2> HIDE DEF T
  <2> QED
    BY <1>1, <1>15, <1>11, <1>12, <1>13, <1>14 DEF T
<1> QED
  BY <1>16, Zenon DEF AssignmentsFollowFobs, IsOpen

-----------------------------------------------------------------------------
(* What a deletion preserves *)

(* The rows after /delete: the member's open row has ended and none of     *)
(* them names the member (edge_member_delete, ON DELETE SET NULL).         *)
LEMMA DeletedRows ==
    ASSUME TypeOK, NEW m \in Members, assigned' = Unlinked(Closed(m), m)
    PROVE  /\ assigned' \in Tables /\ Len(assigned') = Len(assigned)
           /\ \A i \in 1..Len(assigned) :
                /\ assigned'[i].fob = assigned[i].fob
                /\ assigned'[i].started = assigned[i].started
                /\ assigned'[i].member = IF assigned[i].member = m THEN None ELSE assigned[i].member
                /\ assigned'[i].ended = IF assigned[i].member = m /\ assigned[i].ended = Open
                                        THEN now ELSE assigned[i].ended
<1> DEFINE c == Closed(m)
<1>1. c \in Tables /\ Len(c) = Len(assigned) /\ Len(assigned) \in Nat
      /\ \A i \in 1..Len(assigned) :
           c[i] = IF assigned[i].member = m /\ assigned[i].ended = Open
                  THEN [assigned[i] EXCEPT !.ended = now] ELSE assigned[i]
  <2>1. Len(assigned) \in Nat
    BY DEF TypeOK
  <2> QED
    BY <2>1, ClosedRows, Zenon
<1>2. assigned' = [i \in DOMAIN c |-> IF c[i].member = m THEN [c[i] EXCEPT !.member = None] ELSE c[i]]
  BY DEF Unlinked
<1> HIDE DEF c
<1>3. DOMAIN c = 1..Len(assigned) /\ \A i \in 1..Len(assigned) : c[i] \in Row /\ assigned[i] \in Row
  BY <1>1 DEF Tables, TypeOK
<1>4. ASSUME NEW i \in 1..Len(assigned)
      PROVE  /\ c[i].fob = assigned[i].fob /\ c[i].started = assigned[i].started
             /\ c[i].member = assigned[i].member
             /\ c[i].ended = IF assigned[i].member = m /\ assigned[i].ended = Open
                             THEN now ELSE assigned[i].ended
  <2>1. CASE assigned[i].member = m /\ assigned[i].ended = Open
    BY <1>1, <1>3, <2>1 DEF Row
  <2>2. CASE ~(assigned[i].member = m /\ assigned[i].ended = Open)
    BY <1>1, <2>2
  <2> QED
    BY <2>1, <2>2
<1>5. ASSUME NEW i \in 1..Len(assigned)
      PROVE  /\ assigned'[i] \in Row
             /\ assigned'[i].fob = c[i].fob /\ assigned'[i].started = c[i].started
             /\ assigned'[i].ended = c[i].ended
             /\ assigned'[i].member = IF c[i].member = m THEN None ELSE c[i].member
  <2>1. assigned'[i] = IF c[i].member = m THEN [c[i] EXCEPT !.member = None] ELSE c[i]
    BY <1>2, <1>3
  <2>2. CASE c[i].member = m
    BY <1>3, <2>1, <2>2 DEF Row
  <2>3. CASE c[i].member # m
    BY <1>3, <2>1, <2>3
  <2> QED
    BY <2>2, <2>3
<1>6. assigned' \in Tables /\ Len(assigned') = Len(assigned)
  <2>1. assigned' \in [1..Len(assigned) -> Row]
    BY <1>2, <1>3, <1>5
  <2>2. assigned' \in Seq(Row)
    BY <1>1, <2>1
  <2> QED
    BY <1>1, <2>1, <2>2 DEF Tables
<1> QED
  BY <1>4, <1>5, <1>6

(* Deleting a member keeps the intervals disjoint and elapsed, and the     *)
(* open rows those of the members that are left.                           *)
LEMMA DeleteKeepsTable ==
    ASSUME IInv, NEW m \in live, assigned' = Unlinked(Closed(m), m),
           live' = live \ {m}, fob' = [fob EXCEPT ![m] = None], now' = now
    PROVE  Disjoint(assigned') /\ Elapsed' /\ AssignmentsFollowFobs'
<1> DEFINE n == Len(assigned)
<1>1. m \in Members /\ TypeOK /\ now \in Nat /\ live \subseteq Members
  BY DEF IInv, TypeOK
<1>2. /\ assigned' \in Tables /\ Len(assigned') = n
      /\ \A i \in 1..n :
           /\ assigned'[i].fob = assigned[i].fob
           /\ assigned'[i].started = assigned[i].started
           /\ assigned'[i].member = IF assigned[i].member = m THEN None ELSE assigned[i].member
           /\ assigned'[i].ended = IF assigned[i].member = m /\ assigned[i].ended = Open
                                   THEN now ELSE assigned[i].ended
  BY <1>1, DeletedRows
<1>3. n \in Nat /\ (\A i \in 1..n : assigned[i] \in Row) /\ DOMAIN assigned = 1..n
      /\ DOMAIN assigned' = 1..n
  BY <1>1, <1>2 DEF TypeOK, Tables
<1>4. /\ \A i \in 1..n : assigned[i].started <= now /\ assigned[i].ended <= now
      /\ \A i, j \in 1..n : i < j /\ assigned[i].fob = assigned[j].fob =>
           assigned[i].ended # Open /\ assigned[i].ended <= assigned[j].started
  BY DEF IInv, Elapsed, Disjoint
<1>5. /\ \A i \in 1..n : assigned[i].ended = Open =>
           assigned[i].member \in live /\ fob[assigned[i].member] = assigned[i].fob
      /\ \A k \in live : fob[k] # None => \E i \in 1..n : assigned[i].ended = Open /\ assigned[i].member = k
      /\ \A i, j \in 1..n : assigned[i].ended = Open /\ assigned[j].ended = Open
                            /\ assigned[i].fob = assigned[j].fob => i = j
      /\ \A k, l \in live : fob[k] = fob[l] /\ fob[k] # None => k = l
  BY <1>3 DEF IInv, AssignmentsFollowFobs, IsOpen
<1> HIDE DEF n
<1>6. Disjoint(assigned')
  BY <1>1, <1>2, <1>3, <1>4 DEF Disjoint, Open
<1>7. Elapsed'
  BY <1>1, <1>2, <1>4 DEF Elapsed
<1>8. \A i \in 1..n : assigned'[i].ended = Open =>
        assigned[i].ended = Open /\ assigned[i].member # m /\ assigned'[i].member = assigned[i].member
  BY <1>1, <1>2 DEF Open
<1>9. \A k \in live' : k \in live /\ k # m /\ fob'[k] = fob[k]
  BY <1>1 DEF TypeOK
<1>10. \A i \in 1..n : assigned[i].ended = Open /\ assigned[i].member # m =>
         assigned'[i].ended = Open /\ assigned'[i].member = assigned[i].member
  BY <1>2
<1> DEFINE T == assigned'
<1>11. /\ \A k, l \in live' : fob'[k] = fob'[l] /\ fob'[k] # None => k = l
       /\ \A i \in DOMAIN T : T[i].ended = Open =>
            T[i].member \in live' /\ fob'[T[i].member] = T[i].fob
       /\ \A k \in live' : fob'[k] # None => \E i \in DOMAIN T : T[i].ended = Open /\ T[i].member = k
       /\ \A i, j \in DOMAIN T : T[i].ended = Open /\ T[j].ended = Open /\ T[i].fob = T[j].fob => i = j
  <2>1. \A k, l \in live' : fob'[k] = fob'[l] /\ fob'[k] # None => k = l
    BY <1>5, <1>9
  <2>2. \A i \in 1..n : assigned'[i].ended = Open =>
          assigned'[i].member \in live' /\ fob'[assigned'[i].member] = assigned'[i].fob
    BY <1>2, <1>5, <1>8, <1>9
  <2>3. \A k \in live' : fob'[k] # None => \E i \in 1..n : assigned'[i].ended = Open /\ assigned'[i].member = k
    BY <1>5, <1>9, <1>10
  <2>4. \A i, j \in 1..n : assigned'[i].ended = Open /\ assigned'[j].ended = Open
                          /\ assigned'[i].fob = assigned'[j].fob => i = j
    BY <1>2, <1>5, <1>8
  <2> QED
    BY <1>3, <2>1, <2>2, <2>3, <2>4
<1>12. AssignmentsFollowFobs'
  BY <1>11, Zenon DEF AssignmentsFollowFobs, IsOpen
<1> QED
  BY <1>6, <1>7, <1>12

(* For a past time the lookup finds whom it found before, or nobody if     *)
(* that was the deleted member.                                            *)
LEMMA DeleteKeepsPast ==
    ASSUME IInv, NEW m \in live, assigned' = Unlinked(Closed(m), m),
           live' = live \ {m}, fob' = [fob EXCEPT ![m] = None], now' = now,
           NEW t \in 0..(now - 1), NEW g \in Fobs
    PROVE  Owner(assigned', g, t) = IF Owner(assigned, g, t) = m THEN None ELSE Owner(assigned, g, t)
<1> DEFINE n == Len(assigned)
<1>1. m \in Members /\ TypeOK /\ now \in Nat /\ t \in Nat /\ t < now
  BY DEF IInv, TypeOK
<1>2. /\ assigned' \in Tables /\ Len(assigned') = n
      /\ \A i \in 1..n :
           /\ assigned'[i].fob = assigned[i].fob
           /\ assigned'[i].started = assigned[i].started
           /\ assigned'[i].member = IF assigned[i].member = m THEN None ELSE assigned[i].member
           /\ assigned'[i].ended = IF assigned[i].member = m /\ assigned[i].ended = Open
                                   THEN now ELSE assigned[i].ended
  BY <1>1, DeletedRows
<1>3. assigned \in Tables /\ n \in Nat
  BY <1>1 DEF TypeOK, Tables
<1>4. Disjoint(assigned) /\ Disjoint(assigned')
  BY DeleteKeepsTable DEF IInv
<1>5. \A i \in 1..n : Held(assigned'[i], g, t) <=> Held(assigned[i], g, t)
  BY <1>1, <1>2 DEF Held, Open
<1>6. CASE \E i \in 1..n : Held(assigned[i], g, t)
  <2>1. PICK i \in 1..n : Held(assigned[i], g, t)
    BY <1>6
  <2>2. Owner(assigned, g, t) = assigned[i].member
    BY <1>1, <1>3, <1>4, <2>1, OwnerIsUnique
  <2>3. i \in 1..Len(assigned') /\ Held(assigned'[i], g, t)
    BY <1>2, <1>5, <2>1
  <2>4. Owner(assigned', g, t) = assigned'[i].member
    BY <1>1, <1>2, <1>4, <2>3, OwnerIsUnique
  <2> QED
    BY <1>2, <2>2, <2>4
<1>7. CASE \A i \in 1..n : ~Held(assigned[i], g, t)
  <2>1. Owner(assigned, g, t) = None
    BY <1>1, <1>3, <1>7, OwnerIsNobody
  <2>2. \A i \in 1..Len(assigned') : ~Held(assigned'[i], g, t)
    BY <1>2, <1>5, <1>7
  <2>3. Owner(assigned', g, t) = None
    BY <1>1, <1>2, <2>2, OwnerIsNobody
  <2> QED
    BY <2>1, <2>3
<1> QED
  BY <1>6, <1>7

-----------------------------------------------------------------------------
(* The invariant *)

Bindings == [Binders -> [member : Members \union {None}, fob : Fobs \union {None}]]
Forms == [Admins -> [member : Members \union {None}, version : Nat, fob : Fobs \union {None}]]

(* The initial state satisfies the inductive invariant.                    *)
LEMMA InitIInv == Init => IInv
<1> SUFFICES ASSUME Init PROVE IInv
  OBVIOUS
<1>1. TypeOK
  BY DEF Init, TypeOK, NotBinding, NoForm
<1>2. Len(assigned) = 0 /\ DOMAIN assigned = {} /\ \A m \in live : fob[m] = None
  BY DEF Init
<1>3. AssignmentsFollowFobs /\ Disjoint(assigned) /\ Elapsed
  BY <1>2 DEF AssignmentsFollowFobs, Disjoint, Elapsed
<1>4. SwipesNameHolder /\ SettledIsPast /\ PastOnRecord
  BY DEF Init, SwipesNameHolder, SettledIsPast, PastOnRecord
<1>5. FormsShowVersion
  BY DEF Init, FormsShowVersion, NoForm
<1> QED
  BY <1>1, <1>3, <1>4, <1>5 DEF IInv

(* A statement that sets a member's fob preserves it, whoever issues it:   *)
(* bindFob, updateMember.                                                  *)
LEMMA SetFobKeepsIInv ==
    ASSUME IInv, NEW m \in live, NEW f \in Fobs \union {None}, ~Taken(f, m), SetFob(m, f),
           UNCHANGED <<now, claims, swipes, history, settled, heldAt>>,
           binding' \in Bindings, form' \in Forms,
           \A a \in Admins : form'[a] = form[a] \/ form'[a].member = None
    PROVE  IInv'
<1>1. TypeOK /\ m \in Members /\ now \in Nat
  BY DEF IInv, TypeOK
<1>2. /\ live' = live /\ changes' \in Nat
      /\ fob' = [fob EXCEPT ![m] = f] /\ version' = [version EXCEPT ![m] = version[m] + 1]
  BY <1>1 DEF SetFob, TypeOK
<1>3. CASE f = fob[m]
  <2>1. assigned' = assigned /\ fob' = fob
    BY <1>1, <1>2, <1>3 DEF SetFob, TypeOK
  <2> QED
    <3>1. AssignmentsFollowFobs' /\ Disjoint(assigned)' /\ Elapsed' /\ PastOnRecord'
      <4>1. AssignmentsFollowFobs'
        BY <1>2, <2>1 DEF IInv, AssignmentsFollowFobs, IsOpen
      <4>2. Disjoint(assigned') /\ Elapsed'
        BY <1>2, <2>1 DEF IInv, Disjoint, Elapsed
      <4>3. PastOnRecord'
        BY <2>1 DEF IInv, PastOnRecord
      <4> QED
        BY <4>1, <4>2, <4>3
    <3>2. assigned' \in Seq(Row)
      BY <1>1, <2>1 DEF TypeOK
    <3>3. TypeOK'
      BY <1>1, <1>2, <3>2 DEF TypeOK, Bindings, Forms
    <3>4. SwipesNameHolder' /\ SettledIsPast'
      BY DEF IInv, SwipesNameHolder, SettledIsPast
    <3>5. FormsShowVersion'
      BY <1>1, <1>2 DEF IInv, FormsShowVersion, TypeOK
    <3> QED
      BY <3>1, <3>3, <3>4, <3>5 DEF IInv
<1>4. CASE f # fob[m]
  <2>1. AssignmentsFollowFobs'
    BY <1>4, ChangeFollowsFobs
  <2>2. Disjoint(assigned)' /\ Elapsed'
    BY <1>4, ChangeKeepsTable
  <2>3. PastOnRecord'
    BY <1>4, ChangeKeepsPast DEF IInv, PastOnRecord
  <2>4. assigned' \in Seq(Row)
    BY <1>1, <1>4, ChangedRows DEF Tables
  <2>5. TypeOK'
    BY <1>1, <1>2, <2>4 DEF TypeOK, Bindings, Forms
  <2>6. SwipesNameHolder' /\ SettledIsPast'
    BY DEF IInv, SwipesNameHolder, SettledIsPast
  <2>7. FormsShowVersion'
    BY <1>1, <1>2 DEF IInv, FormsShowVersion, TypeOK
  <2> QED
    BY <2>1, <2>2, <2>3, <2>5, <2>6, <2>7 DEF IInv
<1> QED
  BY <1>3, <1>4

(* So does a deletion, which also strikes the member from the history.     *)
LEMMA DeleteKeepsIInv == IInv /\ Delete => IInv'
<1> SUFFICES ASSUME IInv, Delete PROVE IInv'
  OBVIOUS
<1>1. PICK m \in live :
        /\ live' = live \ {m} /\ fob' = [fob EXCEPT ![m] = None]
        /\ assigned' = Unlinked(Closed(m), m) /\ history' = Unlinked(history, m)
        /\ heldAt' = [t \in DOMAIN heldAt |-> [f \in Fobs |->
                        IF heldAt[t][f] = m THEN None ELSE heldAt[t][f]]]
  BY DEF Delete
<1>2. UNCHANGED <<now, version, claims, binding, form, swipes, settled>> /\ changes' \in Nat
  BY DEF Delete, requestVars, IInv, TypeOK
<1>3. TypeOK /\ m \in Members /\ now \in Nat
  BY DEF IInv, TypeOK
<1>4. Disjoint(assigned)' /\ Elapsed' /\ AssignmentsFollowFobs'
  BY <1>1, <1>2, DeleteKeepsTable
<1>5. \A t \in 0..(now - 1), f \in Fobs :
        heldAt'[t][f] = IF heldAt[t][f] = m THEN None ELSE heldAt[t][f]
  BY <1>1, <1>3 DEF TypeOK
<1>6. PastOnRecord'
  <2> SUFFICES ASSUME NEW t \in 0..(now - 1), NEW f \in Fobs
               PROVE  heldAt'[t][f] = Owner(assigned', f, t)
    BY <1>2 DEF PastOnRecord
  <2>1. Owner(assigned', f, t) = IF Owner(assigned, f, t) = m THEN None ELSE Owner(assigned, f, t)
    BY <1>1, <1>2, DeleteKeepsPast
  <2> QED
    BY <1>5, <2>1 DEF IInv, PastOnRecord
<1>7. \A s \in Swipes : /\ history'[s].member = IF history[s].member = m THEN None ELSE history[s].member
                        /\ history'[s] \in [stored : BOOLEAN, member : Members \union {None}]
  BY <1>1, <1>3 DEF Unlinked, TypeOK
<1>8. TypeOK'
  <2>1. history' \in [Swipes -> [stored : BOOLEAN, member : Members \union {None}]]
    BY <1>1, <1>3, <1>7 DEF Unlinked, TypeOK
  <2>2. assigned' \in Seq(Row)
    BY <1>1, <1>3, DeletedRows DEF Tables
  <2>3. heldAt' \in [0..(now - 1) -> [Fobs -> Members \union {None}]]
    BY <1>1, <1>3 DEF TypeOK
  <2>4. live' \subseteq Members /\ fob' \in [Members -> Fobs \union {None}]
    BY <1>1, <1>3 DEF TypeOK
  <2> QED
    BY <1>2, <1>3, <2>1, <2>2, <2>3, <2>4 DEF TypeOK
<1>9. SwipesNameHolder' /\ SettledIsPast'
  <2>1. SettledIsPast'
    BY <1>2 DEF IInv, SettledIsPast
  <2>2. SwipesNameHolder'
    <3> SUFFICES ASSUME NEW s \in settled
                 PROVE  history'[s].member = heldAt'[swipes[s].time][swipes[s].fob]
      BY <1>2 DEF SwipesNameHolder
    <3>1. s \in Swipes /\ swipes[s].time \in 0..(now - 1) /\ swipes[s].fob \in Fobs
      BY <1>3 DEF IInv, SettledIsPast, TypeOK
    <3>2. history[s].member = heldAt[swipes[s].time][swipes[s].fob]
      BY DEF IInv, SwipesNameHolder
    <3> QED
      BY <1>5, <1>7, <3>1, <3>2
  <2> QED
    BY <2>1, <2>2
<1>10. FormsShowVersion'
  <2>1. \A k \in live' : k \in live /\ fob'[k] = fob[k]
    BY <1>1, <1>3 DEF TypeOK
  <2> QED
    BY <1>2, <2>1 DEF IInv, FormsShowVersion
<1> QED
  BY <1>4, <1>6, <1>8, <1>9, <1>10 DEF IInv

(* A tick puts on record who has each fob: the open rows say the same.     *)
LEMMA TickKeepsIInv == IInv /\ Tick => IInv'
<1> SUFFICES ASSUME IInv, Tick PROVE IInv'
  OBVIOUS
<1>1. /\ TypeOK /\ now \in Nat /\ now' = now + 1
      /\ UNCHANGED <<live, fob, version, assigned, changes, binding, form, swipes, history, settled>>
      /\ claims' \subseteq claims
      /\ heldAt' = [t \in 0..now |-> IF t = now THEN [f \in Fobs |-> Holder(f)] ELSE heldAt[t]]
  BY DEF IInv, TypeOK, Tick, memberVars, swipeVars
<1>2. AssignmentsFollowFobs' /\ Disjoint(assigned)'
  BY <1>1 DEF IInv, AssignmentsFollowFobs, IsOpen, Disjoint
<1>3. \A i \in 1..Len(assigned) : assigned[i].started \in Nat /\ assigned[i].ended \in Nat \union {Open}
                                /\ assigned[i].started <= now /\ assigned[i].ended <= now
  <2>1. \A i \in 1..Len(assigned) : assigned[i] \in Row
    BY <1>1 DEF TypeOK
  <2>2. \A i \in 1..Len(assigned) : assigned[i].started <= now /\ assigned[i].ended <= now
    BY DEF IInv, Elapsed
  <2> QED
    BY <2>1, <2>2 DEF Row
<1>4. Elapsed'
  BY <1>1, <1>3 DEF Elapsed, Open
<1>5. \A f \in Fobs : Holder(f) \in Members \union {None} /\ Holder(f) = Owner(assigned, f, now)
  <2> SUFFICES ASSUME NEW f \in Fobs
               PROVE  Holder(f) \in Members \union {None} /\ Holder(f) = Owner(assigned, f, now)
    OBVIOUS
  <2>1. assigned \in Tables /\ Disjoint(assigned) /\ DOMAIN assigned = 1..Len(assigned) /\ f # None
        /\ live \subseteq Members
    BY <1>1, NoneAssumption DEF IInv, TypeOK, Tables
  <2>2. \A i \in 1..Len(assigned) : Held(assigned[i], f, now) <=> assigned[i].fob = f /\ assigned[i].ended = Open
    BY <1>1, <1>3 DEF Held, Open
  <2>3. CASE \E m \in live : fob[m] = f
    <3>1. PICK m \in live : fob[m] = f
      BY <2>3
    <3>2. \A k \in live : fob[k] = f => k = m
      BY <2>1, <3>1 DEF IInv, AssignmentsFollowFobs
    <3>3. Holder(f) = m
      BY <3>1, <3>2 DEF Holder
    <3>4. PICK i \in 1..Len(assigned) : assigned[i].ended = Open /\ assigned[i].member = m
      BY <2>1, <3>1 DEF IInv, AssignmentsFollowFobs, IsOpen
    <3>5. assigned[i].fob = f
      BY <2>1, <3>1, <3>4 DEF IInv, AssignmentsFollowFobs, IsOpen
    <3>6. Held(assigned[i], f, now)
      BY <2>2, <3>4, <3>5
    <3>7. Owner(assigned, f, now) = m
      BY <1>1, <2>1, <3>4, <3>6, OwnerIsUnique
    <3> QED
      BY <2>1, <3>3, <3>7
  <2>4. CASE ~\E m \in live : fob[m] = f
    <3>1. Holder(f) = None
      BY <2>4 DEF Holder
    <3>2. \A i \in 1..Len(assigned) : ~Held(assigned[i], f, now)
      BY <2>1, <2>2, <2>4 DEF IInv, AssignmentsFollowFobs, IsOpen
    <3>3. Owner(assigned, f, now) = None
      BY <1>1, <2>1, <3>2, OwnerIsNobody
    <3> QED
      BY <3>1, <3>3
  <2> QED
    BY <2>3, <2>4
<1>6. \A t \in 0..(now - 1) : heldAt'[t] = heldAt[t]
  BY <1>1
<1>7. PastOnRecord'
  <2> SUFFICES ASSUME NEW t \in 0..now, NEW f \in Fobs
               PROVE  heldAt'[t][f] = Owner(assigned, f, t)
    BY <1>1 DEF PastOnRecord
  <2>1. CASE t = now
    BY <1>1, <1>5, <2>1
  <2>2. CASE t \in 0..(now - 1)
    BY <1>6, <2>2 DEF IInv, PastOnRecord
  <2> QED
    BY <1>1, <2>1, <2>2
<1>8. TypeOK'
  <2>1. heldAt' \in [0..now -> [Fobs -> Members \union {None}]]
    BY <1>1, <1>5 DEF TypeOK
  <2>2. now' - 1 = now
    BY <1>1
  <2> QED
    BY <1>1, <2>1, <2>2 DEF TypeOK
<1>9. SettledIsPast'
  BY <1>1 DEF IInv, SettledIsPast
<1>10. SwipesNameHolder'
  BY <1>1, <1>6 DEF IInv, SwipesNameHolder, SettledIsPast
<1>11. FormsShowVersion'
  BY <1>1 DEF IInv, FormsShowVersion
<1> QED
  BY <1>2, <1>4, <1>7, <1>8, <1>9, <1>10, <1>11 DEF IInv

(* A stored swipe's owner is looked up in a table that records the past.   *)
LEMMA StoreKeepsIInv == ASSUME IInv, NEW s \in Swipes, StoreSwipe(s) PROVE IInv'
<1>1. /\ TypeOK /\ now \in Nat /\ swipes[s].fob \in Fobs /\ swipes[s].time \in Nat
      /\ UNCHANGED <<now, live, fob, version, assigned, changes, claims, binding, form, swipes, heldAt>>
      /\ history' = [history EXCEPT ![s] =
           [stored |-> TRUE, member |-> Owner(assigned, swipes[s].fob, swipes[s].time)]]
      /\ settled' = IF swipes[s].time < now THEN settled \union {s} ELSE settled
      /\ s \notin settled => \A r \in settled : r # s
  BY DEF StoreSwipe, IInv, TypeOK, memberVars, requestVars
<1>2. Owner(assigned, swipes[s].fob, swipes[s].time) \in Members \union {None}
  <2> DEFINE f == swipes[s].fob
             t == swipes[s].time
  <2>1. assigned \in Tables /\ Disjoint(assigned) /\ \A i \in 1..Len(assigned) : assigned[i] \in Row
    BY <1>1 DEF IInv, TypeOK, Tables
  <2>2. CASE \E i \in 1..Len(assigned) : Held(assigned[i], f, t)
    <3>1. PICK i \in 1..Len(assigned) : Held(assigned[i], f, t)
      BY <2>2
    <3>2. Owner(assigned, f, t) = assigned[i].member
      BY <1>1, <2>1, <3>1, OwnerIsUnique
    <3> QED
      BY <2>1, <3>2 DEF Row
  <2>3. CASE \A i \in 1..Len(assigned) : ~Held(assigned[i], f, t)
    <3>1. Owner(assigned, f, t) = None
      BY <1>1, <2>1, <2>3, OwnerIsNobody
    <3> QED
      BY <3>1
  <2> QED
    BY <2>2, <2>3
<1>3. history' \in [Swipes -> [stored : BOOLEAN, member : Members \union {None}]]
  BY <1>1, <1>2 DEF TypeOK
<1>4. TypeOK'
  BY <1>1, <1>3 DEF TypeOK
<1>5. AssignmentsFollowFobs' /\ Disjoint(assigned)' /\ Elapsed' /\ FormsShowVersion'
  BY <1>1 DEF IInv, AssignmentsFollowFobs, IsOpen, Disjoint, Elapsed, FormsShowVersion
<1>6. PastOnRecord'
  BY <1>1 DEF IInv, PastOnRecord
<1>7. SettledIsPast'
  BY <1>1 DEF IInv, SettledIsPast
<1>8. SwipesNameHolder'
  <2> SUFFICES ASSUME NEW r \in settled'
               PROVE  history'[r].member = heldAt[swipes[r].time][swipes[r].fob]
    BY <1>1 DEF SwipesNameHolder
  <2>1. swipes[r].time \in 0..(now - 1) /\ swipes[r].fob \in Fobs
    BY <1>1, <1>7 DEF SettledIsPast
  <2>2. CASE r = s
    <3>1. history'[s].member = Owner(assigned, swipes[s].fob, swipes[s].time)
      BY <1>1, <1>2 DEF TypeOK
    <3> QED
      BY <2>1, <2>2, <3>1 DEF IInv, PastOnRecord
  <2>3. CASE r # s
    <3>1. r \in settled /\ history'[r] = history[r]
      BY <1>1, <2>3 DEF TypeOK
    <3> QED
      BY <3>1 DEF IInv, SwipesNameHolder
  <2> QED
    BY <2>2, <2>3
<1> QED
  BY <1>4, <1>5, <1>6, <1>7, <1>8 DEF IInv

(* Every step preserves the invariant.                                     *)
LEMMA NextIInv == IInv /\ [Next]_vars => IInv'
<1> SUFFICES ASSUME IInv, [Next]_vars PROVE IInv'
  OBVIOUS
<1>1. TypeOK
  BY DEF IInv
<1>2. ASSUME UNCHANGED <<now, live, fob, version, assigned, changes, history, settled, heldAt>>,
             swipes' = swipes \/ \E s \in Swipes : Swipe(s),
             TypeOK', FormsShowVersion'
      PROVE  IInv'
  <2>1. AssignmentsFollowFobs' /\ Disjoint(assigned)' /\ Elapsed' /\ PastOnRecord'
    BY <1>2 DEF IInv, AssignmentsFollowFobs, IsOpen, Disjoint, Elapsed, PastOnRecord
  <2>2. \A s \in settled : swipes'[s] = swipes[s]
    BY <1>1, <1>2, NoneAssumption DEF IInv, SettledIsPast, Swipe, TypeOK
  <2>3. SwipesNameHolder' /\ SettledIsPast'
    BY <1>2, <2>2 DEF IInv, SwipesNameHolder, SettledIsPast
  <2> QED
    BY <1>2, <2>1, <2>3 DEF IInv
<1>3. CASE Scan
  <2>1. claims' \subseteq [fob : Fobs, exp : Nat]
    BY <1>1, <1>3, TimeAssumption DEF Scan, TypeOK
  <2>2. UNCHANGED <<now, live, fob, version, assigned, changes, binding, form, swipes, history, settled, heldAt>>
    BY <1>3 DEF Scan, memberVars, swipeVars
  <2>3. TypeOK'
    BY <1>1, <2>1, <2>2 DEF TypeOK
  <2>4. FormsShowVersion'
    BY <2>2 DEF IInv, FormsShowVersion
  <2> QED
    BY <1>2, <2>2, <2>3, <2>4
<1>4. ASSUME NEW b \in Binders, Redeem(b)
      PROVE  IInv'
  <2>1. binding' \in Bindings
    BY <1>1, <1>4 DEF Redeem, TypeOK, Bindings
  <2>2. UNCHANGED <<now, live, fob, version, assigned, changes, claims, form, swipes, history, settled, heldAt>>
    BY <1>4 DEF Redeem, memberVars, swipeVars
  <2>3. TypeOK'
    BY <1>1, <2>1, <2>2 DEF TypeOK, Bindings
  <2>4. FormsShowVersion'
    BY <2>2 DEF IInv, FormsShowVersion
  <2> QED
    BY <1>2, <2>2, <2>3, <2>4
<1>5. ASSUME NEW b \in Binders, Bind(b)
      PROVE  IInv'
  <2> DEFINE m == binding[b].member
             f == binding[b].fob
  <2>1. UNCHANGED <<now, claims, form, swipes, history, settled, heldAt>> /\ f \in Fobs \union {None}
    BY <1>1, <1>5 DEF Bind, TypeOK, swipeVars
  <2>2. binding' \in Bindings /\ form' \in Forms
    BY <1>1, <1>5, <2>1 DEF Bind, DoneBinding, NotBinding, TypeOK, Bindings, Forms
  <2>3. CASE m \in live /\ ~Taken(f, m) /\ SetFob(m, f)
    <3> HIDE DEF m, f
    <3> QED
      BY <2>1, <2>2, <2>3, SetFobKeepsIInv
  <2>4. CASE UNCHANGED memberVars
    <3>1. TypeOK'
      BY <1>1, <2>1, <2>2, <2>4 DEF TypeOK, memberVars, Bindings
    <3>2. FormsShowVersion'
      BY <2>1, <2>4 DEF IInv, FormsShowVersion, memberVars
    <3> QED
      BY <1>2, <2>1, <2>4, <3>1, <3>2 DEF memberVars
  <2> QED
    BY <1>5, <2>3, <2>4 DEF Bind
<1>6. ASSUME NEW a \in Admins, OpenForm(a)
      PROVE  IInv'
  <2>1. UNCHANGED <<now, live, fob, version, assigned, changes, claims, binding, swipes, history, settled, heldAt>>
    BY <1>6 DEF OpenForm, memberVars, swipeVars
  <2>2. PICK m \in live : form' = [form EXCEPT ![a] = [member |-> m, version |-> version[m], fob |-> fob[m]]]
    BY <1>6 DEF OpenForm
  <2>3. m \in Members /\ version[m] \in Nat /\ fob[m] \in Fobs \union {None}
    BY <1>1 DEF TypeOK
  <2>4. form' \in Forms
    BY <1>1, <2>2, <2>3 DEF TypeOK, Forms
  <2>5. TypeOK'
    BY <1>1, <2>1, <2>4 DEF TypeOK, Forms
  <2>6. FormsShowVersion'
    BY <1>1, <2>1, <2>2, <2>3 DEF IInv, FormsShowVersion, TypeOK
  <2> QED
    BY <1>2, <2>1, <2>5, <2>6
<1>7. ASSUME NEW a \in Admins, SaveForm(a)
      PROVE  IInv'
  <2>1. form[a].member \in live
    BY <1>7 DEF SaveForm, Fresh
  <2>2. UNCHANGED <<now, claims, binding, swipes, history, settled, heldAt>>
    BY <1>7 DEF SaveForm, swipeVars
  <2>3. form' = [form EXCEPT ![a] = NoForm]
    BY <1>7 DEF SaveForm
  <2>4. binding' \in Bindings /\ form' \in Forms
    BY <1>1, <2>2, <2>3 DEF TypeOK, Bindings, Forms, NoForm
  <2>5. \A c \in Admins : form'[c] = form[c] \/ form'[c].member = None
    BY <1>1, <2>3 DEF TypeOK, NoForm
  <2>6. PICK f \in Fobs \union {None} : ~Taken(f, form[a].member) /\ SetFob(form[a].member, f)
    BY <1>7 DEF SaveForm
  <2> QED
    BY <2>1, <2>2, <2>4, <2>5, <2>6, SetFobKeepsIInv
<1>8. ASSUME NEW s \in Swipes, Swipe(s)
      PROVE  IInv'
  <2>1. UNCHANGED <<now, live, fob, version, assigned, changes, claims, binding, form, history, settled, heldAt>>
    BY <1>8 DEF Swipe, memberVars, requestVars
  <2>2. TypeOK'
    BY <1>1, <1>8, <2>1 DEF Swipe, TypeOK
  <2>3. FormsShowVersion'
    BY <2>1 DEF IInv, FormsShowVersion
  <2> QED
    BY <1>2, <1>8, <2>1, <2>2, <2>3
<1>9. CASE UNCHANGED vars
  <2>1. UNCHANGED <<now, live, fob, version, assigned, changes, claims, binding, form, swipes, history,
                    settled, heldAt>>
    BY <1>9 DEF vars, memberVars, requestVars, swipeVars
  <2>2. TypeOK' /\ FormsShowVersion'
    BY <1>1, <2>1 DEF TypeOK, IInv, FormsShowVersion
  <2> QED
    BY <1>2, <2>1, <2>2
<1> QED
  BY <1>3, <1>4, <1>5, <1>6, <1>7, <1>8, <1>9, DeleteKeepsIInv, TickKeepsIInv, StoreKeepsIInv DEF Next

-----------------------------------------------------------------------------
(* Every state has the right type: rows, claims, forms and histories.      *)
THEOREM TypeCorrect == Spec => []TypeOK
<1>1. IInv => TypeOK
  BY DEF IInv
<1> QED
  BY InitIInv, NextIInv, <1>1, PTL DEF Spec

(* However bindings, form saves and deletions interleave, the open         *)
(* assignments are the members' fobs (the triggers of migrations/0001).    *)
THEOREM AssignmentsFollowFobsHolds == Spec => []AssignmentsFollowFobs
<1>1. IInv => AssignmentsFollowFobs
  BY DEF IInv
<1> QED
  BY InitIInv, NextIInv, <1>1, PTL DEF Spec

(* A swipe stored late, however late, names who had the fob at its time    *)
(* (the lookup of swipeWebhook).                                           *)
THEOREM SwipesNameHolderHolds == Spec => []SwipesNameHolder
<1>1. IInv => SwipesNameHolder
  BY DEF IInv
<1> QED
  BY InitIInv, NextIInv, <1>1, PTL DEF Spec

(* No saved form overwrites a fob its admin was not shown (updateMember).  *)
THEOREM NoLostEditHolds == Spec => NoLostEdit
<1>1. ASSUME IInv, NEW a \in Admins, SaveForm(a)
      PROVE  fob[form[a].member] = form[a].fob
  BY <1>1, NoneAssumption DEF IInv, TypeOK, SaveForm, Fresh, FormsShowVersion
<1>2. IInv /\ [Next]_vars => [\A a \in Admins : SaveForm(a) => fob[form[a].member] = form[a].fob]_vars
  BY <1>1
<1> QED
  BY InitIInv, NextIInv, <1>2, PTL DEF Spec, NoLostEdit

=============================================================================
