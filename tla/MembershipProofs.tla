-------------------------- MODULE MembershipProofs --------------------------
(***************************************************************************)
(* Theorems about Membership, for any members, accounts, emails, fobs and  *)
(* invocations and any number of changes.  The statements of registerMember*)
(* and the triggers are shown, one by one, to keep the UNIQUE columns and  *)
(* to leave alone what access and waivers depend on; the theorems about    *)
(* the specification follow from these facts.                              *)
(***************************************************************************)
EXTENDS Membership, FiniteSetTheorems, TLAPS

IsTable(t) == DOMAIN t \subseteq Ids /\ t \in [DOMAIN t -> Row]

\* What a row's access and waiver depend on.
Standing(row) == <<row.fob, row.exempt, row.paying, row.legacy, row.waiver>>
NoStanding == <<None, FALSE, FALSE, FALSE, FALSE>>

\* T has t's rows with their standing, and otherwise rows without any.
Extends(t, T) ==
    /\ DOMAIN t \subseteq DOMAIN T
    /\ \A m \in DOMAIN t : Standing(T[m]) = Standing(t[m])
    /\ \A m \in DOMAIN T \ DOMAIN t : Standing(T[m]) = NoStanding

\* Accounts, once set, are the same in T.
KeepsAccounts(t, T) == \A m \in DOMAIN t : t[m].account \in {None, T[m].account}

-----------------------------------------------------------------------------
(* Rows *)

(* A new member has no email, account, fob or access.                      *)
LEMMA NewRowType == NewRow \in Row
BY DEF NewRow, Row

(* A table with one more row, or one replaced.                             *)
LEMMA PutRows ==
    ASSUME NEW t, IsTable(t), NEW m \in Ids, NEW row \in Row
    PROVE  /\ IsTable(Put(t, m, row)) /\ DOMAIN Put(t, m, row) = DOMAIN t \union {m}
           /\ Put(t, m, row)[m] = row
           /\ \A i \in DOMAIN t \ {m} : Put(t, m, row)[i] = t[i]
<1>1. \A i \in DOMAIN t : t[i] \in Row
  BY DEF IsTable
<1> QED
  BY <1>1 DEF Put, IsTable

-----------------------------------------------------------------------------
(* The statements of registerMember *)

(* The link by email keeps the columns unique: the email leads to one row, *)
(* and the account is on none.                                             *)
LEMMA LinkedByEmailRows ==
    ASSUME NEW t, IsTable(t), Unique(t), NEW a \in Accounts, NEW e \in Emails
    PROVE  LET T == LinkedByEmail(t, a, e)
           IN  /\ IsTable(T) /\ Unique(T) /\ DOMAIN T = DOMAIN t
               /\ Extends(t, T) /\ KeepsAccounts(t, T)
               /\ HasAccount(T, a) \/ T = t
<1> DEFINE T == LinkedByEmail(t, a, e)
<1>1. \A m \in DOMAIN t : t[m] \in Row
  BY DEF IsTable
<1>2. CASE HasAccount(t, a)
  BY <1>2 DEF LinkedByEmail, Extends, KeepsAccounts
<1>3. CASE ~HasAccount(t, a)
  <2>1. T = [m \in DOMAIN t |-> IF t[m].email = e /\ t[m].account = None
                                THEN [t[m] EXCEPT !.account = a] ELSE t[m]]
    BY <1>3 DEF LinkedByEmail
  <2> HIDE DEF T
  <2>2. DOMAIN T = DOMAIN t
    BY <2>1
  <2>3. \A m \in DOMAIN t : /\ T[m] \in Row /\ Standing(T[m]) = Standing(t[m])
                            /\ T[m].email = t[m].email /\ T[m].fob = t[m].fob
    BY <1>1, <2>1 DEF Row, Standing
  <2>4. \A m \in DOMAIN t : \/ T[m].account = t[m].account
                            \/ t[m].account = None /\ t[m].email = e /\ T[m].account = a
    BY <1>1, <2>1 DEF Row
  <2>5. T = t \/ \E m \in DOMAIN t : T[m].account = a
    <3>1. CASE \E m \in DOMAIN t : t[m].email = e /\ t[m].account = None
      BY <1>1, <2>1, <3>1 DEF Row
    <3>2. CASE ~\E m \in DOMAIN t : t[m].email = e /\ t[m].account = None
      BY <2>1, <3>2 DEF IsTable
    <3> QED
      BY <3>1, <3>2
  <2>6. Unique(T)
    <3> SUFFICES ASSUME NEW m \in DOMAIN t, NEW n \in DOMAIN t, m # n
                 PROVE  /\ T[m].account # T[n].account \/ T[m].account = None
                        /\ T[m].email # T[n].email \/ T[m].email = None
                        /\ T[m].fob # T[n].fob \/ T[m].fob = None
      BY <2>2 DEF Unique
    <3>1. /\ t[m].account # t[n].account \/ t[m].account = None
          /\ t[m].email # t[n].email \/ t[m].email = None
          /\ t[m].fob # t[n].fob \/ t[m].fob = None
      BY DEF Unique
    <3>2. t[m].account # a /\ t[n].account # a /\ e # None
      BY <1>3, NoneAssumption DEF HasAccount
    <3> QED
      BY <2>3, <2>4, <3>1, <3>2
  <2>7. T \in [DOMAIN T -> Row] /\ DOMAIN T \subseteq Ids
    BY <2>1, <2>2, <2>3 DEF IsTable
  <2>8. KeepsAccounts(t, T)
    BY <2>4 DEF KeepsAccounts
  <2>9. HasAccount(T, a) \/ T = t
    BY <2>2, <2>5 DEF HasAccount
  <2> QED
    BY <2>2, <2>3, <2>6, <2>7, <2>8, <2>9 DEF Extends, IsTable, T
<1> QED
  BY <1>2, <1>3

(* The insertion finds no conflict, and afterwards somebody has the account.*)
LEMMA InsertedRows ==
    ASSUME NEW t, IsTable(t), Unique(t), NEW a \in Accounts, NEW e \in Emails,
           NEW id \in Ids, id \notin DOMAIN t
    PROVE  LET T == Inserted(t, a, e, id)
           IN  /\ IsTable(T) /\ Unique(T) /\ HasAccount(T, a)
               /\ Extends(t, T) /\ KeepsAccounts(t, T)
               /\ DOMAIN T = DOMAIN t \/ DOMAIN T = DOMAIN t \union {id}
<1> DEFINE T == Inserted(t, a, e, id)
<1>1. CASE HasAccount(t, a)
  BY <1>1 DEF Inserted, Extends, KeepsAccounts
<1>2. CASE ~HasAccount(t, a)
  <2> DEFINE row == [NewRow EXCEPT !.account = a, !.email = IF HasEmail(t, e) THEN None ELSE e]
  <2>1. T = Put(t, id, row)
    BY <1>2 DEF Inserted
  <2>2. row \in Row /\ row.account = a /\ row.fob = None /\ Standing(row) = NoStanding
    BY DEF NewRow, Row, Standing, NoStanding
  <2>3. row.email = None \/ (row.email = e /\ ~HasEmail(t, e))
    BY DEF NewRow
  <2> HIDE DEF row
  <2>4. /\ IsTable(T) /\ DOMAIN T = DOMAIN t \union {id}
        /\ T[id] = row /\ \A i \in DOMAIN t : T[i] = t[i]
    <3> HIDE DEF T
    <3>1. DOMAIN t \ {id} = DOMAIN t
      OBVIOUS
    <3>2. /\ IsTable(Put(t, id, row)) /\ DOMAIN Put(t, id, row) = DOMAIN t \union {id}
          /\ Put(t, id, row)[id] = row
          /\ \A i \in DOMAIN t \ {id} : Put(t, id, row)[i] = t[i]
      BY <2>2, PutRows
    <3> QED
      BY <2>1, <3>1, <3>2
  <2> HIDE DEF T
  <2>5. Unique(T)
    <3> SUFFICES ASSUME NEW m \in DOMAIN T, NEW n \in DOMAIN T, m # n
                 PROVE  /\ T[m].account # T[n].account \/ T[m].account = None
                        /\ T[m].email # T[n].email \/ T[m].email = None
                        /\ T[m].fob # T[n].fob \/ T[m].fob = None
      BY DEF Unique
    <3>1. CASE m \in DOMAIN t /\ n \in DOMAIN t
      BY <2>4, <3>1 DEF Unique
    <3>2. \A i \in DOMAIN t : t[i].account # a /\ (row.email # None => t[i].email # row.email)
      BY <1>2, <2>3 DEF HasAccount, HasEmail
    <3>3. CASE m = id /\ n \in DOMAIN t
      BY <2>2, <2>4, <3>2, <3>3
    <3>4. CASE n = id /\ m \in DOMAIN t
      <4>1. T[m].fob # T[n].fob \/ T[m].fob = None
        BY <2>2, <2>4, <3>4
      <4> QED
        BY <2>2, <2>4, <3>2, <3>4, <4>1
    <3> QED
      BY <2>4, <3>1, <3>3, <3>4
  <2>6. HasAccount(T, a)
    BY <2>2, <2>4 DEF HasAccount
  <2>7. Extends(t, T) /\ KeepsAccounts(t, T)
    BY <2>2, <2>4 DEF Extends, KeepsAccounts
  <2> QED
    BY <2>4, <2>5, <2>6, <2>7 DEF T
<1> QED
  BY <1>1, <1>2

(* The last statement touches nothing but the account's email.             *)
LEMMA RefreshedRows ==
    ASSUME NEW t, IsTable(t), Unique(t), NEW a \in Accounts, NEW e \in Emails
    PROVE  LET T == Refreshed(t, a, e)
           IN  /\ IsTable(T) /\ Unique(T) /\ DOMAIN T = DOMAIN t
               /\ Extends(t, T) /\ KeepsAccounts(t, T)
<1> DEFINE T == Refreshed(t, a, e)
<1>1. \A m \in DOMAIN t : t[m] \in Row
  BY DEF IsTable
<1>2. T = [m \in DOMAIN t |-> IF t[m].account = a THEN [t[m] EXCEPT !.dmail = e] ELSE t[m]]
  BY DEF Refreshed
<1> HIDE DEF T
<1>3. DOMAIN T = DOMAIN t
  BY <1>2
<1>4. \A m \in DOMAIN t : /\ T[m] \in Row /\ Standing(T[m]) = Standing(t[m])
                          /\ T[m].email = t[m].email /\ T[m].fob = t[m].fob
                          /\ T[m].account = t[m].account
  BY <1>1, <1>2 DEF Row, Standing
<1>5. Unique(T)
  BY <1>3, <1>4 DEF Unique
<1>6. IsTable(T)
  BY <1>2, <1>3, <1>4 DEF IsTable
<1>7. Extends(t, T) /\ KeepsAccounts(t, T)
  BY <1>3, <1>4 DEF Extends, KeepsAccounts
<1> QED
  BY <1>3, <1>5, <1>6, <1>7 DEF T

LEMMA ExtendsTransitive ==
    ASSUME NEW t, NEW u, NEW T, Extends(t, u), Extends(u, T), KeepsAccounts(t, u), KeepsAccounts(u, T)
    PROVE  Extends(t, T) /\ KeepsAccounts(t, T)
<1>1. \A m \in DOMAIN t : m \in DOMAIN u /\ m \in DOMAIN T
  BY DEF Extends
<1>2. \A m \in DOMAIN t : Standing(T[m]) = Standing(t[m])
  BY <1>1 DEF Extends
<1>3. \A m \in DOMAIN T \ DOMAIN t : Standing(T[m]) = NoStanding
  BY DEF Extends
<1>4. \A m \in DOMAIN t : t[m].account \in {None, T[m].account}
  BY <1>1 DEF KeepsAccounts
<1> QED
  BY <1>1, <1>2, <1>3, <1>4 DEF Extends, KeepsAccounts

(* registerMember as a whole: standing stays, accounts stay, and no column *)
(* has a value twice.                                                      *)
LEMMA RegisteredRows ==
    ASSUME NEW t, IsTable(t), Unique(t), NEW a \in Accounts, NEW e \in Emails,
           NEW id \in Ids, id \notin DOMAIN t
    PROVE  LET T == Registered(t, a, e, id)
           IN  /\ IsTable(T) /\ Unique(T) /\ Extends(t, T) /\ KeepsAccounts(t, T)
               /\ DOMAIN T = DOMAIN t \/ DOMAIN T = DOMAIN t \union {id}
<1> DEFINE linked   == LinkedByEmail(t, a, e)
           inserted == Inserted(linked, a, e, id)
           T == Refreshed(inserted, a, e)
<1>1. /\ IsTable(linked) /\ Unique(linked) /\ DOMAIN linked = DOMAIN t
      /\ Extends(t, linked) /\ KeepsAccounts(t, linked)
  BY LinkedByEmailRows
<1> HIDE DEF linked
<1>2. /\ IsTable(inserted) /\ Unique(inserted)
      /\ Extends(linked, inserted) /\ KeepsAccounts(linked, inserted)
      /\ DOMAIN inserted = DOMAIN linked \/ DOMAIN inserted = DOMAIN linked \union {id}
  BY <1>1, InsertedRows
<1> HIDE DEF inserted
<1>3. /\ IsTable(T) /\ Unique(T) /\ DOMAIN T = DOMAIN inserted
      /\ Extends(inserted, T) /\ KeepsAccounts(inserted, T)
  BY <1>2, RefreshedRows
<1> HIDE DEF T
<1>4. Extends(t, inserted) /\ KeepsAccounts(t, inserted)
  BY <1>1, <1>2, ExtendsTransitive
<1>5. Extends(t, T) /\ KeepsAccounts(t, T)
  BY <1>3, <1>4, ExtendsTransitive
<1>6. Registered(t, a, e, id) = T
  BY DEF Registered, T, inserted, linked
<1> QED
  BY <1>1, <1>2, <1>3, <1>5, <1>6

(* signWaiver's registration of a member whose email leads to nobody.      *)
LEMMA EmailOnlyRows ==
    ASSUME NEW t, IsTable(t), Unique(t), NEW e \in Emails \union {None}, Matching(t, e) = {},
           NEW id \in Ids, id \notin DOMAIN t
    PROVE  LET T == Put(t, id, [NewRow EXCEPT !.email = e])
           IN  /\ IsTable(T) /\ Unique(T) /\ Extends(t, T) /\ KeepsAccounts(t, T)
               /\ DOMAIN T = DOMAIN t \union {id}
<1> DEFINE row == [NewRow EXCEPT !.email = e]
           T == Put(t, id, row)
<1>1. /\ row \in Row /\ row.account = None /\ row.fob = None /\ row.email = e
      /\ Standing(row) = NoStanding
  BY DEF NewRow, Row, Standing, NoStanding
<1>2. \A i \in DOMAIN t : t[i].email # e
  BY DEF Matching
<1> HIDE DEF row
<1>3. /\ IsTable(T) /\ DOMAIN T = DOMAIN t \union {id}
      /\ T[id] = row /\ \A i \in DOMAIN t \ {id} : T[i] = t[i]
  BY <1>1, PutRows
<1>4. \A i \in DOMAIN t : T[i] = t[i]
  BY <1>3
<1> HIDE DEF T
<1>5. Unique(T)
  <2> SUFFICES ASSUME NEW m \in DOMAIN T, NEW n \in DOMAIN T, m # n
               PROVE  /\ T[m].account # T[n].account \/ T[m].account = None
                      /\ T[m].email # T[n].email \/ T[m].email = None
                      /\ T[m].fob # T[n].fob \/ T[m].fob = None
    BY DEF Unique
  <2>1. CASE m \in DOMAIN t /\ n \in DOMAIN t
    BY <1>4, <2>1 DEF Unique
  <2>2. CASE m = id /\ n \in DOMAIN t
    BY <1>1, <1>2, <1>3, <1>4, <2>2
  <2>3. CASE n = id /\ m \in DOMAIN t
    <3>1. T[m].account = None \/ T[m].account # T[n].account
      BY <1>1, <1>3, <2>3
    <3>2. T[m].email # T[n].email
      BY <1>1, <1>2, <1>3, <1>4, <2>3
    <3>3. T[m].fob = None \/ T[m].fob # T[n].fob
      BY <1>1, <1>3, <2>3
    <3> QED
      BY <3>1, <3>2, <3>3
  <2> QED
    BY <1>3, <2>1, <2>2, <2>3
<1>6. Extends(t, T) /\ KeepsAccounts(t, T)
  BY <1>1, <1>3, <1>4 DEF Extends, KeepsAccounts
<1> QED
  BY <1>3, <1>5, <1>6 DEF T, row

-----------------------------------------------------------------------------
(* The triggers *)

(* A signature sets its member's flag and nothing else.                    *)
LEMMA SignedRows ==
    ASSUME NEW t, IsTable(t), Unique(t), NEW m \in DOMAIN t
    PROVE  LET T == Signed(t, m)
           IN  /\ IsTable(T) /\ Unique(T) /\ DOMAIN T = DOMAIN t
               /\ T[m].waiver = TRUE
               /\ \A i \in DOMAIN t \ {m} : T[i] = t[i]
               /\ \A i \in DOMAIN t : T[i].legacy = t[i].legacy /\ T[i].account = t[i].account
<1> DEFINE T == Signed(t, m)
<1>1. \A i \in DOMAIN t : t[i] \in Row
  BY DEF IsTable
<1>2. T = [i \in DOMAIN t |-> IF i = m THEN [t[m] EXCEPT !.waiver = TRUE] ELSE t[i]]
  BY DEF Signed, IsTable
<1> HIDE DEF T
<1>3. DOMAIN T = DOMAIN t
  BY <1>2
<1>4. \A i \in DOMAIN t : /\ T[i] \in Row /\ T[i].legacy = t[i].legacy
                          /\ T[i].account = t[i].account /\ T[i].email = t[i].email
                          /\ T[i].fob = t[i].fob
  BY <1>1, <1>2 DEF Row
<1>5. T[m].waiver = TRUE /\ \A i \in DOMAIN t \ {m} : T[i] = t[i]
  BY <1>1, <1>2 DEF Row
<1>6. Unique(T)
  BY <1>3, <1>4 DEF Unique
<1>7. IsTable(T)
  BY <1>2, <1>3, <1>4 DEF IsTable
<1> QED
  BY <1>3, <1>4, <1>5, <1>6, <1>7 DEF T

(* At most one row is inserted.                                            *)
LEMMA InsertedCount ==
    ASSUME NEW S, NEW id, NEW T, T = S \/ T = S \union {id}
    PROVE  Cardinality(T \ S) \in Nat
<1>1. IsFiniteSet({}) /\ IsFiniteSet({id})
  BY FS_EmptySet, FS_Singleton
<1>2. T \ S = {} \/ T \ S = {id}
  OBVIOUS
<1>3. IsFiniteSet(T \ S)
  BY <1>1, <1>2
<1> QED
  BY <1>3, FS_CardinalityType

(* The rows of a statement that changes no standing give the same list.    *)
LEMMA SameList ==
    ASSUME Extends(members, members')
    PROVE  Authorized' = Authorized
<1>1. \A m \in DOMAIN members :
        /\ m \in DOMAIN members' /\ members'[m].fob = members[m].fob
        /\ Access(members'[m]) <=> Access(members[m])
  BY DEF Extends, Standing, Access
<1>2. \A m \in DOMAIN members' \ DOMAIN members :
        ~Access(members'[m])
  BY DEF Extends, Standing, NoStanding, Access
<1>3. {members'[m].fob : m \in {i \in DOMAIN members' : Access(members'[i])}} =
      {members[m].fob : m \in {i \in DOMAIN members : Access(members[i])}}
  BY <1>1, <1>2
<1> QED
  BY <1>3 DEF Authorized

(* If the trigger edge_member_change does not fire, the list is the same.  *)
LEMMA TouchedList ==
    ASSUME DOMAIN members' = DOMAIN members,
           \A m \in DOMAIN members : members'[m].waiver = members[m].waiver
    PROVE  /\ Touched(members') \in 0..1
           /\ Authorized' # Authorized => Touched(members') = 1
<1>1. CASE \E m \in DOMAIN members : Columns(members'[m]) # Columns(members[m])
  BY <1>1 DEF Touched
<1>2. CASE \A m \in DOMAIN members : Columns(members'[m]) = Columns(members[m])
  <2>1. \A m \in DOMAIN members :
          /\ members'[m].fob = members[m].fob
          /\ Access(members'[m]) <=> Access(members[m])
    BY <1>2 DEF Columns, Access
  <2>2. {members'[m].fob : m \in {i \in DOMAIN members' : Access(members'[i])}} =
        {members[m].fob : m \in {i \in DOMAIN members : Access(members[i])}}
    BY <2>1
  <2>3. Authorized' = Authorized
    BY <2>2 DEF Authorized
  <2>4. Touched(members') = 0
    BY <1>2 DEF Touched
  <2> QED
    BY <2>3, <2>4
<1> QED
  BY <1>1, <1>2

-----------------------------------------------------------------------------
(* The invariant *)

IInv == TypeOK /\ Unique(members) /\ WaiverOnRecord /\ ListIsPushed

\* What no action does.
RaisesRevision == Authorized' # Authorized => rev' > rev
KeepsLinks == \A m \in DOMAIN members \intersect DOMAIN members' :
    members[m].account \in {None, members'[m].account}

(* The parts of TypeOK about the tables and about the invocations.         *)
TablesOK ==
    /\ used \subseteq Ids /\ DOMAIN members \subseteq used /\ members \in [DOMAIN members -> Row]
    /\ waivers \in Seq(DOMAIN members \union {None})
    /\ rev \in Nat /\ changes \in Nat
ProcsOK ==
    /\ proc \in [Procs -> [pc : {"idle", "sign", "push"}, member : Ids \union {None},
                           email : Emails \union {None}]]
    /\ sent \in [rev : Nat, fobs : SUBSET Fobs]
    /\ lost \in BOOLEAN

LEMMA TypeParts == TypeOK <=> TablesOK /\ ProcsOK
BY DEF TypeOK, TablesOK, ProcsOK

LEMMA MembersTable ==
    ASSUME TypeOK PROVE IsTable(members)
BY DEF TypeOK, IsTable

(* Ids that are still free are nobody's and sign nothing.                  *)
LEMMA FreeIds ==
    ASSUME TypeOK, NEW id \in Ids \ used
    PROVE  id \notin DOMAIN members /\ \A i \in DOMAIN waivers : waivers[i] # id
<1>1. id \notin DOMAIN members /\ id # None
  BY NoneAssumption DEF TypeOK
<1>2. \A i \in DOMAIN waivers : waivers[i] \in DOMAIN members \union {None}
  BY DEF TypeOK
<1> QED
  BY <1>1, <1>2

(* A registration without a signature leaves the record as it was.         *)
LEMMA UnsignedRecord ==
    ASSUME TypeOK, WaiverOnRecord, Extends(members, members'), waivers' = waivers,
           NEW id \in Ids \ used, DOMAIN members' \subseteq DOMAIN members \union {id}
    PROVE  WaiverOnRecord' /\ waivers' \in Seq(DOMAIN members' \union {None})
<1>1. waivers' \in Seq(DOMAIN members' \union {None})
  BY DEF TypeOK, Extends
<1>2. \A m \in DOMAIN members :
        members'[m].waiver = members[m].waiver /\ members'[m].legacy = members[m].legacy
  BY DEF Extends, Standing
<1>3. \A m \in DOMAIN members' \ DOMAIN members :
        m = id /\ members'[m].waiver = FALSE /\ members'[m].legacy = FALSE
  BY DEF Extends, Standing, NoStanding
<1>4. \A i \in DOMAIN waivers : waivers[i] # id
  BY FreeIds
<1>5. WaiverOnRecord'
  BY <1>2, <1>3, <1>4 DEF WaiverOnRecord
<1> QED
  BY <1>1, <1>5

(* A signature by a member, registered in the same transaction or not.     *)
LEMMA SignedRecord ==
    ASSUME TypeOK, WaiverOnRecord, NEW t, IsTable(t), Unique(t), Extends(members, t),
           NEW id \in Ids \ used, DOMAIN t \subseteq DOMAIN members \union {id},
           NEW m \in DOMAIN t, members' = Signed(t, m), waivers' = Append(waivers, m)
    PROVE  /\ WaiverOnRecord' /\ waivers' \in Seq(DOMAIN members' \union {None})
<1> DEFINE T == Signed(t, m)
<1>1. /\ DOMAIN T = DOMAIN t /\ T[m].waiver = TRUE
      /\ \A i \in DOMAIN t \ {m} : T[i] = t[i]
      /\ \A i \in DOMAIN t : T[i].legacy = t[i].legacy
  BY SignedRows
<1> HIDE DEF T
<1>2. members' = T
  BY DEF T
<1>3. waivers \in Seq(DOMAIN t \union {None})
  BY DEF TypeOK, Extends
<1>4. waivers' \in Seq(DOMAIN members' \union {None})
  BY <1>1, <1>2, <1>3
<1>5. /\ DOMAIN waivers = 1..Len(waivers) /\ Len(waivers) \in Nat
      /\ DOMAIN waivers' = 1..(Len(waivers) + 1)
      /\ waivers'[Len(waivers) + 1] = m
      /\ \A i \in DOMAIN waivers : waivers'[i] = waivers[i]
  BY <1>3
<1>6. \A n \in DOMAIN members : t[n].waiver = members[n].waiver /\ t[n].legacy = members[n].legacy
  BY DEF Extends, Standing
<1>7. \A n \in DOMAIN t \ DOMAIN members :
        n = id /\ t[n].waiver = FALSE /\ t[n].legacy = FALSE
  BY DEF Extends, Standing, NoStanding
<1>8. \A i \in DOMAIN waivers : waivers[i] # id
  BY FreeIds
<1>9. \A n \in DOMAIN t : t[n].waiver <=> t[n].legacy \/ \E i \in DOMAIN waivers : waivers[i] = n
  BY <1>6, <1>7, <1>8 DEF WaiverOnRecord
<1>10. \A n \in DOMAIN T : T[n].waiver <=> T[n].legacy \/ \E i \in DOMAIN waivers' : waivers'[i] = n
  <2>1. \E i \in DOMAIN waivers' : waivers'[i] = m
    BY <1>5
  <2>2. \A n \in DOMAIN t \ {m} :
          (\E i \in DOMAIN waivers' : waivers'[i] = n) <=> (\E i \in DOMAIN waivers : waivers[i] = n)
    BY <1>5
  <2> QED
    BY <1>1, <1>9, <2>1, <2>2
<1> QED
  BY <1>2, <1>4, <1>10 DEF WaiverOnRecord

(* A signature by a member who is there already.                           *)
LEMMA SignedOwnRecord ==
    ASSUME TypeOK, WaiverOnRecord, NEW m \in DOMAIN members,
           members' = Signed(members, m), waivers' = Append(waivers, m)
    PROVE  WaiverOnRecord' /\ waivers' \in Seq(DOMAIN members' \union {None})
<1>1. /\ DOMAIN members' = DOMAIN members
      /\ \A i \in DOMAIN members : i # m => members'[i] = members[i]
      /\ members'[m].waiver = TRUE /\ members'[m].legacy = members[m].legacy
  BY DEF TypeOK, Signed, Row
<1>2. waivers' \in Seq(DOMAIN members' \union {None})
  BY <1>1 DEF TypeOK
<1>3. /\ DOMAIN waivers = 1..Len(waivers) /\ Len(waivers) \in Nat
      /\ DOMAIN waivers' = 1..(Len(waivers) + 1)
      /\ waivers'[Len(waivers) + 1] = m
      /\ \A i \in DOMAIN waivers : waivers'[i] = waivers[i]
  BY DEF TypeOK
<1>4. \E i \in DOMAIN waivers' : waivers'[i] = m
  BY <1>3
<1>5. \A n \in DOMAIN members \ {m} :
        (\E i \in DOMAIN waivers' : waivers'[i] = n) <=> (\E i \in DOMAIN waivers : waivers[i] = n)
  BY <1>3
<1> QED
  BY <1>1, <1>2, <1>4, <1>5 DEF WaiverOnRecord

(* An action that neither pushes nor changes the list.                     *)
LEMMA PushedStays ==
    ASSUME ListIsPushed, Authorized' = Authorized, UNCHANGED <<sent, lost>>,
           \A p \in Procs : proc'[p].pc # "push" => proc[p].pc # "push"
    PROVE  ListIsPushed'
BY DEF ListIsPushed

(* An action that leaves a push to do.                                     *)
LEMMA PushToDo ==
    ASSUME ProcsOK, NEW p \in Procs, ThenPush(p), UNCHANGED <<sent, lost>>
    PROVE  ProcsOK' /\ ListIsPushed'
<1>1. [Idle EXCEPT !.pc = "push"] \in [pc : {"idle", "sign", "push"}, member : Ids \union {None},
                                       email : Emails \union {None}]
  BY DEF Idle
<1>2. proc'[p] = [Idle EXCEPT !.pc = "push"] /\ ProcsOK'
  BY <1>1 DEF ProcsOK, ThenPush, Become
<1>3. proc'[p].pc = "push"
  BY <1>2 DEF Idle
<1> QED
  BY <1>2, <1>3 DEF ListIsPushed

-----------------------------------------------------------------------------
(* The actions *)

LEMMA RegisterStep ==
    ASSUME IInv, NEW a \in Accounts, NEW e \in Emails, Register(a, e)
    PROVE  IInv' /\ RaisesRevision /\ KeepsLinks
<1>1. PICK id \in Ids \ used : /\ members' = Registered(members, a, e, id)
                               /\ used' = used \union DOMAIN members'
  BY DEF Register
<1>2. IsTable(members) /\ id \notin DOMAIN members
  BY MembersTable, FreeIds DEF IInv
<1>3. /\ IsTable(members') /\ Unique(members')
      /\ Extends(members, members') /\ KeepsAccounts(members, members')
      /\ DOMAIN members' = DOMAIN members \/ DOMAIN members' = DOMAIN members \union {id}
  BY <1>1, <1>2, RegisteredRows DEF IInv
<1>4. WaiverOnRecord' /\ waivers' \in Seq(DOMAIN members' \union {None})
  <2>1. TypeOK /\ WaiverOnRecord /\ waivers' = waivers
    BY DEF IInv, Register
  <2>2. DOMAIN members' \subseteq DOMAIN members \union {id}
    BY <1>3
  <2> QED
    BY <1>3, <2>1, <2>2, UnsignedRecord
<1>5. rev' \in Nat
  <2>1. Cardinality(DOMAIN members' \ DOMAIN members) \in Nat
    BY <1>3, InsertedCount
  <2> QED
    BY <2>1 DEF Register, Revision, IInv, TypeOK
<1>6. TablesOK'
  BY <1>1, <1>3, <1>4, <1>5 DEF TablesOK, IInv, TypeOK, Register, Change, IsTable, BoundAssumption
<1>7. ProcsOK'
  BY TypeParts DEF ProcsOK, IInv, Register
<1>8. TypeOK'
  BY <1>6, <1>7 DEF TypeOK, TablesOK, ProcsOK
<1>9. Authorized' = Authorized
  BY <1>3, SameList
<1>10. ListIsPushed'
  BY <1>9, PushedStays DEF IInv, Register
<1> QED
  BY <1>3, <1>4, <1>8, <1>9, <1>10 DEF IInv, RaisesRevision, KeepsLinks, KeepsAccounts

LEMMA SignWaiverStep ==
    ASSUME IInv, NEW p \in Procs, SignWaiver(p)
    PROVE  IInv' /\ RaisesRevision /\ KeepsLinks
<1>1. /\ members' = members /\ used' = used /\ waivers' = waivers /\ rev' = rev
      /\ changes' = changes /\ sent' = sent /\ lost' = lost
  BY DEF SignWaiver, tableVars
<1>2. PICK e \in Emails, m \in DOMAIN members \union {None} :
        Become(p, [pc |-> "sign", member |-> m, email |-> IF m = None THEN e ELSE None])
  BY DEF SignWaiver
<1>3. [pc |-> "sign", member |-> m, email |-> IF m = None THEN e ELSE None] \in
        [pc : {"idle", "sign", "push"}, member : Ids \union {None}, email : Emails \union {None}]
  BY DEF IInv, TypeOK
<1>4. ProcsOK'
  BY <1>1, <1>2, <1>3 DEF IInv, TypeOK, ProcsOK, Become
<1>5. TypeOK'
  BY <1>1, <1>4 DEF IInv, TypeOK, ProcsOK
<1>6. Authorized' = Authorized /\ WaiverOnRecord' /\ Unique(members')
  BY <1>1 DEF Authorized, WaiverOnRecord, IInv
<1>7. \A q \in Procs : proc'[q].pc # "push" => proc[q].pc # "push"
  BY <1>2 DEF IInv, TypeOK, SignWaiver, Become, Free
<1>8. ListIsPushed'
  BY <1>1, <1>6, <1>7, PushedStays DEF IInv
<1> QED
  BY <1>1, <1>5, <1>6, <1>8 DEF IInv, RaisesRevision, KeepsLinks

(* The end of an invocation that has written nothing.                      *)
LEMMA IdleStep ==
    ASSUME IInv, NEW p \in Procs, Become(p, Idle), proc[p].pc # "push",
           UNCHANGED <<members, used, waivers, rev, changes, sent, lost>>
    PROVE  IInv' /\ RaisesRevision /\ KeepsLinks
<1>1. Idle \in [pc : {"idle", "sign", "push"}, member : Ids \union {None}, email : Emails \union {None}]
  BY DEF Idle
<1>2. TypeOK'
  BY <1>1 DEF IInv, TypeOK, Become
<1>3. Authorized' = Authorized /\ WaiverOnRecord' /\ Unique(members')
  BY DEF Authorized, WaiverOnRecord, IInv
<1>4. \A q \in Procs : proc'[q].pc # "push" => proc[q].pc # "push"
  BY DEF IInv, TypeOK, Become
<1>5. ListIsPushed'
  BY <1>3, <1>4, PushedStays DEF IInv
<1> QED
  BY <1>2, <1>3, <1>5 DEF IInv, RaisesRevision, KeepsLinks

LEMMA SignOwnStep ==
    ASSUME IInv, NEW p \in Procs, SignOwn(p)
    PROVE  IInv' /\ RaisesRevision /\ KeepsLinks
<1> DEFINE m == proc[p].member
<1>1. CASE m \in DOMAIN members
  <2>1. /\ members' = Signed(members, m) /\ waivers' = Append(waivers, m)
        /\ rev' = Revision(0, 1) /\ used' = used /\ changes' = changes + 1
        /\ ThenPush(p) /\ sent' = sent /\ lost' = lost
    BY <1>1 DEF SignOwn, Change
  <2>2. IsTable(members) /\ TypeOK /\ WaiverOnRecord /\ Unique(members)
    BY MembersTable DEF IInv
  <2>3. /\ IsTable(members') /\ Unique(members') /\ DOMAIN members' = DOMAIN members
        /\ members'[m].waiver = TRUE
        /\ \A i \in DOMAIN members : members'[i].account = members[i].account
    BY <1>1, <2>1, <2>2, SignedRows
  <2>4. WaiverOnRecord' /\ waivers' \in Seq(DOMAIN members' \union {None})
    BY <1>1, <2>1, <2>2, SignedOwnRecord
  <2>5. TablesOK'
    BY <2>1, <2>2, <2>3, <2>4 DEF TablesOK, TypeOK, IsTable, Revision
  <2>6. ProcsOK' /\ ListIsPushed'
    BY <2>1, <2>2, TypeParts, PushToDo
  <2>7. TypeOK'
    BY <2>5, <2>6 DEF TypeOK, TablesOK, ProcsOK
  <2>8. rev' > rev
    BY <2>1, <2>2 DEF Revision, TypeOK
  <2> QED
    BY <2>3, <2>4, <2>6, <2>7, <2>8 DEF IInv, RaisesRevision, KeepsLinks
<1>2. CASE m \notin DOMAIN members
  <2>1. /\ Become(p, Idle) /\ proc[p].pc # "push"
        /\ UNCHANGED <<members, used, waivers, rev, changes, sent, lost>>
    BY <1>2 DEF SignOwn, tableVars
  <2> QED
    BY <2>1, IdleStep
<1> QED
  BY <1>1, <1>2

LEMMA SignByEmailStep ==
    ASSUME IInv, NEW p \in Procs, SignByEmail(p)
    PROVE  IInv' /\ RaisesRevision /\ KeepsLinks
<1> DEFINE e == proc[p].email
           Table(id) == IF Matching(members, e) = {}
                        THEN Put(members, id, [NewRow EXCEPT !.email = e]) ELSE members
           Rest(id) ==
             /\ used' = used \union DOMAIN Table(id)
             /\ \/ \E m \in DOMAIN Table(id) :
                     /\ Matching(Table(id), e) = {m}
                     /\ members' = Signed(Table(id), m)
                     /\ waivers' = Append(waivers, m)
                     /\ rev' = Revision(Cardinality(DOMAIN Table(id) \ DOMAIN members), 1)
                     /\ ThenPush(p)
                \/ /\ Cardinality(Matching(Table(id), e)) > 1
                   /\ members' = Table(id)
                   /\ rev' = Revision(Cardinality(DOMAIN Table(id) \ DOMAIN members), 0)
                   /\ Become(p, Idle)
                   /\ UNCHANGED waivers
<1>1. PICK id \in Ids \ used : Rest(id)
  BY DEF SignByEmail
<1>2. TypeOK /\ WaiverOnRecord /\ Unique(members) /\ IsTable(members) /\ id \notin DOMAIN members
  BY MembersTable, FreeIds DEF IInv
<1>3. changes' \in Nat /\ sent' = sent /\ lost' = lost /\ proc[p].pc # "push"
  BY <1>2 DEF SignByEmail, Change, TypeOK
<1> DEFINE t == Table(id)
<1>4. /\ IsTable(t) /\ Unique(t) /\ Extends(members, t) /\ KeepsAccounts(members, t)
      /\ DOMAIN t = DOMAIN members \/ DOMAIN t = DOMAIN members \union {id}
  <2>1. CASE Matching(members, e) # {}
    BY <1>2, <2>1 DEF Extends, KeepsAccounts
  <2>2. CASE Matching(members, e) = {}
    <3>1. e \in Emails \union {None} /\ id \in Ids
      BY <1>2 DEF TypeOK
    <3> QED
      BY <1>2, <2>2, <3>1, EmailOnlyRows
  <2> QED
    BY <2>1, <2>2
<1>5. used' = used \union DOMAIN t
  BY <1>1
<1> DEFINE inserted == Cardinality(DOMAIN t \ DOMAIN members)
<1>6. inserted \in Nat
  <2> HIDE DEF t
  <2> QED
    BY <1>4, InsertedCount
<1>7. CASE \E m \in DOMAIN t :
             /\ members' = Signed(t, m) /\ waivers' = Append(waivers, m)
             /\ rev' = Revision(inserted, 1) /\ ThenPush(p)
  <2> HIDE DEF t
  <2>1. PICK m \in DOMAIN t :
          /\ members' = Signed(t, m) /\ waivers' = Append(waivers, m)
          /\ rev' = Revision(inserted, 1) /\ ThenPush(p)
    BY <1>7
  <2>2. /\ IsTable(members') /\ Unique(members') /\ DOMAIN members' = DOMAIN t
        /\ \A i \in DOMAIN t : members'[i].account = t[i].account
    BY <1>4, <2>1, SignedRows
  <2>3. WaiverOnRecord' /\ waivers' \in Seq(DOMAIN members' \union {None})
    <3>1. DOMAIN t \subseteq DOMAIN members \union {id}
      BY <1>4
    <3> QED
      BY <1>2, <1>4, <2>1, <3>1, SignedRecord
  <2>4. rev' \in Nat /\ rev' > rev
    BY <1>2, <1>6, <2>1 DEF Revision, TypeOK
  <2>5. TablesOK'
    BY <1>2, <1>3, <1>4, <1>5, <2>2, <2>3, <2>4 DEF TablesOK, TypeOK, IsTable
  <2>6. ProcsOK' /\ ListIsPushed'
    BY <1>2, <1>3, <2>1, TypeParts, PushToDo
  <2>7. TypeOK'
    BY <2>5, <2>6 DEF TypeOK, TablesOK, ProcsOK
  <2>8. KeepsLinks
    BY <1>4, <2>2 DEF KeepsLinks, KeepsAccounts, Extends
  <2> QED
    BY <2>2, <2>3, <2>4, <2>6, <2>7, <2>8 DEF IInv, RaisesRevision
<1>8. CASE /\ members' = t /\ waivers' = waivers
           /\ rev' = Revision(inserted, 0) /\ Become(p, Idle)
  <2> HIDE DEF t
  <2>1. WaiverOnRecord' /\ waivers' \in Seq(DOMAIN members' \union {None})
    <3>1. DOMAIN members' \subseteq DOMAIN members \union {id}
      BY <1>4, <1>8
    <3> QED
      BY <1>2, <1>4, <1>8, <3>1, UnsignedRecord
  <2>2. rev' \in Nat
    BY <1>2, <1>6, <1>8 DEF Revision, TypeOK
  <2>3. TablesOK'
    BY <1>2, <1>3, <1>4, <1>5, <1>8, <2>1, <2>2 DEF TablesOK, TypeOK, IsTable
  <2>4. Idle \in [pc : {"idle", "sign", "push"}, member : Ids \union {None}, email : Emails \union {None}]
    BY DEF Idle
  <2>5. ProcsOK'
    BY <1>2, <1>3, <1>8, <2>4 DEF ProcsOK, TypeOK, Become
  <2>6. Authorized' = Authorized
    BY <1>4, <1>8, SameList
  <2>7. \A q \in Procs : proc'[q].pc # "push" => proc[q].pc # "push"
    BY <1>2, <1>3, <1>8 DEF TypeOK, Become
  <2>8. ListIsPushed'
    BY <1>3, <2>6, <2>7, PushedStays DEF IInv
  <2>9. TypeOK'
    BY <2>3, <2>5 DEF TypeOK, TablesOK, ProcsOK
  <2>10. KeepsLinks
    BY <1>4, <1>8 DEF KeepsLinks, KeepsAccounts
  <2> QED
    BY <1>4, <1>8, <2>1, <2>6, <2>8, <2>9, <2>10 DEF IInv, RaisesRevision
<1>9. \/ \E m \in DOMAIN t :
             /\ members' = Signed(t, m) /\ waivers' = Append(waivers, m)
             /\ rev' = Revision(inserted, 1) /\ ThenPush(p)
      \/ /\ members' = t /\ waivers' = waivers
         /\ rev' = Revision(inserted, 0) /\ Become(p, Idle)
  BY <1>1
<1> QED
  BY <1>7, <1>8, <1>9

LEMMA CreateMemberStep ==
    ASSUME IInv, CreateMember
    PROVE  IInv' /\ RaisesRevision /\ KeepsLinks
<1>1. PICK id \in Ids \ used, e \in Emails, a \in Accounts \union {None} :
        /\ members' = Put(members, id, [NewRow EXCEPT !.email = e, !.account = a])
        /\ used' = used \union {id}
  BY DEF CreateMember
<1>2. /\ Unique(members') /\ rev' = rev + 1 /\ changes' = changes + 1
      /\ waivers' = waivers /\ proc' = proc /\ sent' = sent /\ lost' = lost
  BY DEF CreateMember, Change, Revision, IInv, TypeOK
<1>3. TypeOK /\ WaiverOnRecord /\ IsTable(members) /\ id \notin DOMAIN members
  BY MembersTable, FreeIds DEF IInv
<1> DEFINE row == [NewRow EXCEPT !.email = e, !.account = a]
<1>4. row \in Row /\ Standing(row) = NoStanding
  BY DEF NewRow, Row, Standing, NoStanding
<1>5. members' = Put(members, id, row)
  BY <1>1
<1> HIDE DEF row
<1>6. /\ IsTable(members') /\ DOMAIN members' = DOMAIN members \union {id}
      /\ members'[id] = row /\ \A i \in DOMAIN members : members'[i] = members[i]
  BY <1>3, <1>4, <1>5, PutRows
<1>7. Extends(members, members') /\ KeepsLinks
  BY <1>3, <1>4, <1>6 DEF Extends, KeepsLinks
<1>8. WaiverOnRecord' /\ waivers' \in Seq(DOMAIN members' \union {None})
  BY <1>2, <1>3, <1>6, <1>7, UnsignedRecord
<1>9. TypeOK'
  BY <1>1, <1>2, <1>3, <1>6, <1>8 DEF TypeOK, IsTable
<1>10. Authorized' = Authorized
  BY <1>7, SameList
<1>11. ListIsPushed'
  BY <1>2, <1>10, PushedStays DEF IInv
<1> QED
  BY <1>2, <1>7, <1>8, <1>9, <1>10, <1>11 DEF IInv, RaisesRevision

(* Editing one row: whatever changes in the access columns raises the      *)
(* revision, and the waiver columns stay.                                  *)
LEMMA EditStep ==
    ASSUME IInv, NEW p \in Procs, NEW m \in DOMAIN members, NEW row \in Row,
           row.waiver = members[m].waiver, row.legacy = members[m].legacy,
           members' = [members EXCEPT ![m] = row], Unique(members'), Change,
           rev' = rev + Touched(members'), ThenPush(p),
           UNCHANGED <<used, waivers, sent, lost>>
    PROVE  IInv' /\ RaisesRevision
<1>1. IsTable(members) /\ TypeOK /\ WaiverOnRecord
  BY MembersTable DEF IInv
<1>2. /\ DOMAIN members' = DOMAIN members /\ members' \in [DOMAIN members' -> Row]
      /\ \A i \in DOMAIN members : /\ members'[i].waiver = members[i].waiver
                                   /\ members'[i].legacy = members[i].legacy
  BY <1>1 DEF IsTable
<1>3. /\ Touched(members') \in 0..1
      /\ Authorized' # Authorized => Touched(members') = 1
  BY <1>2, TouchedList
<1>4. rev' \in Nat /\ RaisesRevision
  BY <1>1, <1>3 DEF TypeOK, RaisesRevision
<1>5. ProcsOK' /\ ListIsPushed'
  BY <1>1, TypeParts, PushToDo
<1>6. TablesOK'
  BY <1>1, <1>2, <1>4 DEF TablesOK, TypeOK, Change
<1>7. WaiverOnRecord'
  BY <1>1, <1>2 DEF WaiverOnRecord
<1> QED
  BY <1>4, <1>5, <1>6, <1>7 DEF IInv, TypeOK, TablesOK, ProcsOK

LEMMA UpdateMemberStep ==
    ASSUME IInv, NEW p \in Procs, UpdateMember(p)
    PROVE  IInv' /\ RaisesRevision
<1>1. PICK m \in DOMAIN members, a \in Accounts \union {None}, f \in Fobs \union {None},
           x \in BOOLEAN, y \in BOOLEAN :
        members' = [members EXCEPT ![m] = Edited(members[m], a, f, x, y)]
  BY DEF UpdateMember
<1> DEFINE row == Edited(members[m], a, f, x, y)
<1>2. members[m] \in Row
  BY DEF IInv, TypeOK
<1>3. row \in Row /\ row.waiver = members[m].waiver /\ row.legacy = members[m].legacy
  BY <1>2 DEF Row, Edited
<1>4. members' = [members EXCEPT ![m] = row]
  BY <1>1
<1> HIDE DEF row
<1>5. /\ Unique(members') /\ Change /\ rev' = rev + Touched(members') /\ ThenPush(p)
      /\ UNCHANGED <<used, waivers, sent, lost>>
  BY DEF UpdateMember
<1> QED
  BY <1>3, <1>4, <1>5, EditStep

LEMMA SetColumnStep ==
    ASSUME IInv, NEW p \in Procs, SetColumn(p)
    PROVE  IInv' /\ RaisesRevision /\ KeepsLinks
<1>1. PICK m \in DOMAIN members :
         \/ \E f \in Fobs \ {members[m].fob} : members' = [members EXCEPT ![m].fob = f]
         \/ \E y \in BOOLEAN : members' = [members EXCEPT ![m].paying = y]
  BY DEF SetColumn
<1>2. members[m] \in Row
  BY DEF IInv, TypeOK
<1>3. \E row \in Row : /\ row.waiver = members[m].waiver /\ row.legacy = members[m].legacy
                       /\ row.account = members[m].account
                       /\ members' = [members EXCEPT ![m] = row]
  <2>1. CASE \E f \in Fobs : members' = [members EXCEPT ![m].fob = f]
    <3>1. PICK f \in Fobs : members' = [members EXCEPT ![m].fob = f]
      BY <2>1
    <3> DEFINE row == [members[m] EXCEPT !.fob = f]
    <3>2. row \in Row /\ row.waiver = members[m].waiver /\ row.legacy = members[m].legacy
          /\ row.account = members[m].account
      BY <1>2 DEF Row
    <3> QED
      BY <3>1, <3>2
  <2>2. CASE \E y \in BOOLEAN : members' = [members EXCEPT ![m].paying = y]
    <3>1. PICK y \in BOOLEAN : members' = [members EXCEPT ![m].paying = y]
      BY <2>2
    <3> DEFINE row == [members[m] EXCEPT !.paying = y]
    <3>2. row \in Row /\ row.waiver = members[m].waiver /\ row.legacy = members[m].legacy
          /\ row.account = members[m].account
      BY <1>2 DEF Row
    <3> QED
      BY <3>1, <3>2
  <2> QED
    BY <1>1, <2>1, <2>2
<1>4. PICK row \in Row : /\ row.waiver = members[m].waiver /\ row.legacy = members[m].legacy
                         /\ row.account = members[m].account
                         /\ members' = [members EXCEPT ![m] = row]
  BY <1>3
<1>5. /\ Unique(members') /\ Change /\ rev' = rev + Touched(members') /\ ThenPush(p)
      /\ UNCHANGED <<used, waivers, sent, lost>>
  BY DEF SetColumn
<1>6. IInv' /\ RaisesRevision
  BY <1>4, <1>5, EditStep
<1>7. KeepsLinks
  BY <1>4 DEF KeepsLinks, IInv, TypeOK
<1> QED
  BY <1>6, <1>7

LEMMA DeleteStep ==
    ASSUME IInv, NEW p \in Procs, Delete(p)
    PROVE  IInv' /\ RaisesRevision /\ KeepsLinks
<1>1. PICK m \in DOMAIN members :
         /\ members' = [i \in DOMAIN members \ {m} |-> members[i]]
         /\ waivers' = [i \in DOMAIN waivers |-> IF waivers[i] = m THEN None ELSE waivers[i]]
         /\ rev' = rev + 1 + Cardinality({i \in DOMAIN waivers : waivers[i] = m})
  BY DEF Delete
<1>2. TypeOK /\ WaiverOnRecord /\ Unique(members) /\ m # None /\ None \notin DOMAIN members
  BY NoneAssumption DEF IInv, TypeOK
<1>3. /\ DOMAIN members' = DOMAIN members \ {m}
      /\ \A i \in DOMAIN members' : members'[i] = members[i]
      /\ members' \in [DOMAIN members' -> Row]
  BY <1>1, <1>2 DEF TypeOK
<1>4. DOMAIN waivers = 1..Len(waivers) /\ Len(waivers) \in Nat
  BY <1>2 DEF TypeOK
<1>5. \A i \in DOMAIN waivers : waivers[i] \in DOMAIN members \union {None}
  BY <1>2 DEF TypeOK
<1>6. waivers' \in Seq(DOMAIN members' \union {None})
  <2>1. waivers' \in [1..Len(waivers) -> DOMAIN members' \union {None}]
    BY <1>1, <1>3, <1>4, <1>5
  <2> QED
    BY <1>4, <2>1
<1>7. Cardinality({i \in DOMAIN waivers : waivers[i] = m}) \in Nat
  <2>1. IsFiniteSet(1..Len(waivers))
    BY <1>4, FS_Interval
  <2>2. IsFiniteSet({i \in DOMAIN waivers : waivers[i] = m})
    BY <1>4, <2>1, FS_Subset
  <2> QED
    BY <2>2, FS_CardinalityType
<1>8. rev' \in Nat /\ rev' > rev
  BY <1>1, <1>2, <1>7 DEF TypeOK
<1>9. WaiverOnRecord'
  <2>1. \A n \in DOMAIN members' :
          (\E i \in DOMAIN waivers' : waivers'[i] = n) <=> (\E i \in DOMAIN waivers : waivers[i] = n)
    BY <1>1, <1>2, <1>3
  <2> QED
    BY <1>2, <1>3, <2>1 DEF WaiverOnRecord
<1>10. Unique(members') /\ KeepsLinks
  BY <1>2, <1>3 DEF Unique, KeepsLinks
<1>11. /\ used' = used /\ changes' \in Nat /\ ThenPush(p) /\ sent' = sent /\ lost' = lost
  BY <1>2 DEF Delete, Change, TypeOK
<1>12. ProcsOK' /\ ListIsPushed'
  BY <1>2, <1>11, TypeParts, PushToDo
<1>13. TypeOK'
  BY <1>2, <1>3, <1>6, <1>8, <1>11, <1>12 DEF TypeOK, ProcsOK
<1> QED
  BY <1>8, <1>9, <1>10, <1>12, <1>13 DEF IInv, RaisesRevision

LEMMA AuthorizedType ==
    ASSUME TypeOK PROVE Authorized \in SUBSET Fobs
BY DEF TypeOK, Authorized, Row

LEMMA PushStep ==
    ASSUME IInv, NEW p \in Procs, Push(p)
    PROVE  IInv' /\ RaisesRevision /\ KeepsLinks
<1>1. /\ members' = members /\ used' = used /\ waivers' = waivers /\ rev' = rev /\ changes' = changes
      /\ sent' = [rev |-> rev, fobs |-> Authorized] /\ lost' = FALSE /\ Become(p, Idle)
  BY DEF Push, tableVars
<1>2. Idle \in [pc : {"idle", "sign", "push"}, member : Ids \union {None}, email : Emails \union {None}]
  BY DEF Idle
<1>3. TypeOK'
  BY <1>1, <1>2, AuthorizedType DEF IInv, TypeOK, Become
<1>4. Authorized' = Authorized /\ WaiverOnRecord' /\ Unique(members') /\ KeepsLinks
  BY <1>1 DEF Authorized, WaiverOnRecord, IInv, KeepsLinks
<1>5. ListIsPushed'
  BY <1>1, <1>4 DEF ListIsPushed
<1> QED
  BY <1>3, <1>4, <1>5 DEF IInv, RaisesRevision

LEMMA DieStep ==
    ASSUME IInv, NEW p \in Procs, Die(p)
    PROVE  IInv' /\ RaisesRevision /\ KeepsLinks
<1>1. /\ UNCHANGED <<members, used, waivers, rev, changes, sent>>
      /\ lost' = (lost \/ proc[p].pc = "push") /\ Become(p, Idle)
  BY DEF Die, tableVars
<1>2. CASE proc[p].pc = "push"
  <2>1. Idle \in [pc : {"idle", "sign", "push"}, member : Ids \union {None}, email : Emails \union {None}]
    BY DEF Idle
  <2>2. lost' = TRUE
    BY <1>1, <1>2
  <2>3. TypeOK'
    BY <1>1, <2>1, <2>2 DEF IInv, TypeOK, Become
  <2>4. Authorized' = Authorized /\ WaiverOnRecord' /\ Unique(members') /\ KeepsLinks
    BY <1>1 DEF Authorized, WaiverOnRecord, IInv, KeepsLinks
  <2>5. ListIsPushed'
    BY <2>2 DEF ListIsPushed
  <2> QED
    BY <2>3, <2>4, <2>5 DEF IInv, RaisesRevision
<1>3. CASE proc[p].pc # "push"
  <2>1. lost' = lost
    BY <1>1, <1>3 DEF IInv, TypeOK
  <2> QED
    BY <1>1, <1>3, <2>1, IdleStep
<1> QED
  BY <1>2, <1>3

-----------------------------------------------------------------------------
(* The specification *)

LEMMA InitInv == Init => IInv
<1> SUFFICES ASSUME Init PROVE IInv
  OBVIOUS
<1>1. Idle \in [pc : {"idle", "sign", "push"}, member : Ids \union {None}, email : Emails \union {None}]
  BY DEF Idle
<1>2. proc \in [Procs -> [pc : {"idle", "sign", "push"}, member : Ids \union {None}, email : Emails \union {None}]]
  BY <1>1 DEF Init
<1>3. used \subseteq Ids /\ \A m, n \in used : m = n
  BY DEF Init
<1>4. PICK e \in Emails, f \in Fobs : members = [m \in used |->
         [NewRow EXCEPT !.email = e, !.fob = f, !.paying = TRUE, !.legacy = TRUE, !.waiver = TRUE]]
  BY DEF Init
<1> DEFINE row == [NewRow EXCEPT !.email = e, !.fob = f, !.paying = TRUE, !.legacy = TRUE, !.waiver = TRUE]
<1>5. row \in Row /\ row.waiver = TRUE /\ row.legacy = TRUE
  BY DEF NewRow, Row
<1> HIDE DEF row
<1>6. members = [m \in used |-> row]
  BY <1>4 DEF row
<1>7. /\ waivers = <<>> /\ rev = 1 /\ changes = 0 /\ lost = FALSE
      /\ sent = [rev |-> 1, fobs |-> Authorized]
  BY DEF Init
<1>8. members \in [DOMAIN members -> Row] /\ DOMAIN members = used
  BY <1>5, <1>6
<1>9. Authorized \in SUBSET Fobs
  BY <1>8 DEF Authorized, Row
<1>10. TypeOK
  <2>1. waivers \in Seq(DOMAIN members \union {None}) /\ rev \in Nat /\ changes \in Nat /\ lost \in BOOLEAN
    <3>1. \A S : <<>> \in Seq(S)
      OBVIOUS
    <3>2. rev \in Nat /\ changes \in Nat /\ lost \in BOOLEAN
      BY <1>7
    <3> QED
      BY <1>7, <3>1, <3>2
  <2>2. sent \in [rev : Nat, fobs : SUBSET Fobs]
    BY <1>7, <1>9
  <2>3. used \subseteq Ids /\ DOMAIN members \subseteq used
    BY <1>3, <1>8
  <2> QED
    BY <1>2, <1>8, <2>1, <2>2, <2>3 DEF TypeOK
<1>11. Unique(members)
  BY <1>3, <1>8 DEF Unique
<1>12. WaiverOnRecord
  BY <1>5, <1>6 DEF WaiverOnRecord
<1>13. ListIsPushed
  BY <1>7 DEF ListIsPushed
<1> QED
  BY <1>10, <1>11, <1>12, <1>13 DEF IInv

LEMMA StutterStep ==
    ASSUME IInv, UNCHANGED vars
    PROVE  IInv' /\ RaisesRevision /\ KeepsLinks
<1>1. /\ members' = members /\ used' = used /\ waivers' = waivers /\ rev' = rev
      /\ changes' = changes /\ proc' = proc /\ sent' = sent /\ lost' = lost
  BY DEF vars, tableVars
<1>2. TypeOK' /\ Unique(members') /\ WaiverOnRecord' /\ Authorized' = Authorized
  BY <1>1 DEF IInv, TypeOK, WaiverOnRecord, Authorized
<1>3. ListIsPushed'
  BY <1>1, <1>2 DEF IInv, ListIsPushed
<1>4. RaisesRevision
  BY <1>2 DEF RaisesRevision
<1>5. KeepsLinks
  BY <1>1 DEF KeepsLinks
<1> QED
  BY <1>2, <1>3, <1>4, <1>5 DEF IInv

LEMMA Step ==
    ASSUME IInv, [Next]_vars
    PROVE  /\ IInv' /\ RaisesRevision
           /\ (\E p \in Procs : UpdateMember(p)) \/ KeepsLinks
<1>1. CASE CreateMember
  BY <1>1, CreateMemberStep
<1>2. CASE \E a \in Accounts, e \in Emails : Register(a, e)
  BY <1>2, RegisterStep
<1>3. CASE \E p \in Procs : SignWaiver(p)
  BY <1>3, SignWaiverStep
<1>4. CASE \E p \in Procs : SignOwn(p)
  BY <1>4, SignOwnStep
<1>5. CASE \E p \in Procs : SignByEmail(p)
  BY <1>5, SignByEmailStep
<1>6. CASE \E p \in Procs : UpdateMember(p)
  BY <1>6, UpdateMemberStep
<1>7. CASE \E p \in Procs : SetColumn(p)
  BY <1>7, SetColumnStep
<1>8. CASE \E p \in Procs : Delete(p)
  BY <1>8, DeleteStep
<1>9. CASE \E p \in Procs : Push(p)
  BY <1>9, PushStep
<1>10. CASE \E p \in Procs : Die(p)
  BY <1>10, DieStep
<1>11. CASE UNCHANGED vars
  BY <1>11, StutterStep
<1> QED
  BY <1>1, <1>2, <1>3, <1>4, <1>5, <1>6, <1>7, <1>8, <1>9, <1>10, <1>11 DEF Next

LEMMA Invariance == Spec => []IInv
<1>1. Init => IInv
  BY InitInv
<1>2. IInv /\ [Next]_vars => IInv'
  BY Step
<1> QED
  BY <1>1, <1>2, PTL DEF Spec

(* The tables hold what their columns allow, for any number of members,    *)
(* and every signature names a member who is there or nobody.              *)
THEOREM TypeCorrect == Spec => []TypeOK
<1>1. IInv => TypeOK
  BY DEF IInv
<1> QED
  BY <1>1, Invariance, PTL

(* waiver_signed always says what the signatures and the import say.       *)
THEOREM WaiverOnRecordHolds == Spec => []WaiverOnRecord
<1>1. IInv => WaiverOnRecord
  BY DEF IInv
<1> QED
  BY <1>1, Invariance, PTL

(* Nobody with a Discord account and email is ever locked out of sign-in.  *)
THEOREM RegistrationSucceedsHolds == Spec => []RegistrationSucceeds
<1>1. IInv => RegistrationSucceeds
  <2> SUFFICES ASSUME IInv, NEW a \in Accounts, NEW e \in Emails, NEW id \in Ids \ used
               PROVE  LET linked   == LinkedByEmail(members, a, e)
                          inserted == Inserted(linked, a, e, id)
                      IN  Unique(linked) /\ Unique(inserted) /\ HasAccount(inserted, a)
    BY DEF RegistrationSucceeds
  <2>1. IsTable(members) /\ Unique(members) /\ id \notin DOMAIN members
    BY MembersTable, FreeIds DEF IInv
  <2> DEFINE linked   == LinkedByEmail(members, a, e)
             inserted == Inserted(linked, a, e, id)
  <2>2. IsTable(linked) /\ Unique(linked) /\ DOMAIN linked = DOMAIN members
    BY <2>1, LinkedByEmailRows
  <2> HIDE DEF linked
  <2>3. Unique(inserted) /\ HasAccount(inserted, a)
    BY <2>1, <2>2, InsertedRows
  <2> HIDE DEF inserted
  <2> QED
    BY <2>2, <2>3 DEF linked, inserted
<1> QED
  BY <1>1, Invariance, PTL

(* An email never moves a linked account.                                  *)
THEOREM LinkedAccountStaysHolds == Spec => LinkedAccountStays
<1>1. IInv /\ [Next]_vars => [\/ \E p \in Procs : UpdateMember(p)
                              \/ \A m \in DOMAIN members \intersect DOMAIN members' :
                                   members[m].account \in {None, members'[m].account}]_vars
  BY Step DEF KeepsLinks
<1> QED
  BY <1>1, Invariance, PTL DEF Spec, LinkedAccountStays

(* No change of the authorized list goes without a new revision.           *)
THEOREM ChangesRaiseRevisionHolds == Spec => ChangesRaiseRevision
<1>1. IInv /\ [Next]_vars => [Authorized' # Authorized => rev' > rev]_vars
  BY Step DEF RaisesRevision
<1> QED
  BY <1>1, Invariance, PTL DEF Spec, ChangesRaiseRevision

(* No handler forgets to push what it changed.                             *)
THEOREM ListIsPushedHolds == Spec => []ListIsPushed
<1>1. IInv => ListIsPushed
  BY DEF IInv
<1> QED
  BY <1>1, Invariance, PTL

=============================================================================
