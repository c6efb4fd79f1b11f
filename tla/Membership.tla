----------------------------- MODULE Membership -----------------------------
(***************************************************************************)
(* The members and waivers tables in D1 and everybody who writes them:     *)
(* registerMember (site/src/auth.ts), signWaiver (waiver.tsx), createMember*)
(* updateMember and /delete (admin.tsx), bindFob (edge.tsx), the store of  *)
(* syncMember (billing.ts), and the triggers of site/migrations that keep  *)
(* waiver_signed and the access revision.                                  *)
(*                                                                         *)
(* Handlers run at once and interleave between the requests they await.  A *)
(* statement, and a batch of them, is one transaction with its triggers.   *)
(* Several identities meet in one row: the email a member was registered   *)
(* with, the Discord account, and that account's own email, which its owner*)
(* can change.  Form versions and fob history are left to FobBinding,      *)
(* customers and roles to MemberSync.                                      *)
(***************************************************************************)
EXTENDS Integers, Sequences, FiniteSets

CONSTANTS
    Ids,         \* member ids; never used again
    Accounts,    \* Discord accounts
    Emails,
    Fobs,        \* fob numbers
    None,        \* SQL NULL, and the empty discord_email
    Procs,       \* Worker invocations
    MaxChanges   \* bound: transactions that write members or waivers

ASSUME NoneAssumption == 
    /\ None \notin Ids /\ None \notin Accounts
    /\ None \notin Emails /\ None \notin Fobs
ASSUME BoundAssumption == MaxChanges \in Nat

VARIABLES
    members,   \* the table: a row for each id in use
    used,      \* ids that were ever in use
    waivers,   \* the member of every signature
    rev,       \* edge_changes.revision
    proc,      \* invocations of signWaiver, and pushes to come
    sent,      \* the newest list pushed
    lost,      \* ghost: a handler died before its push, and none has pushed since
    changes

tableVars == <<members, used, waivers, rev, changes>>
vars == <<tableVars, proc, sent, lost>>

Row == [email   : Emails \union {None},
        account : Accounts \union {None},   \* discord_user_id
        dmail   : Emails \union {None},     \* discord_email
        fob     : Fobs \union {None},       \* fob_id
        exempt  : BOOLEAN,                  \* non_billable
        paying  : BOOLEAN,                  \* legacy_billing, or the subscription grants membership
        legacy  : BOOLEAN,                  \* legacy_waiver_signed
        waiver  : BOOLEAN]                  \* waiver_signed

NewRow == [email |-> None, account |-> None, dmail |-> None, fob |-> None, exempt |-> FALSE,
           paying |-> FALSE, legacy |-> FALSE, waiver |-> FALSE]

Idle == [pc |-> "idle", member |-> None, email |-> None]

TypeOK ==
    /\ used \subseteq Ids
    /\ DOMAIN members \subseteq used /\ members \in [DOMAIN members -> Row]
    /\ waivers \in Seq(DOMAIN members \union {None})
    /\ rev \in Nat /\ changes \in Nat
    /\ proc \in [Procs -> [pc : {"idle", "sign", "push"}, member : Ids \union {None},
                           email : Emails \union {None}]]
    /\ sent \in [rev : Nat, fobs : SUBSET Fobs]
    /\ lost \in BOOLEAN

\* memberAccessSQL
Access(row) == row.exempt \/ (row.paying /\ row.waiver)

\* fobEnabledSQL, and the list pushFobs selects with it.
Authorized == {members[m].fob : m \in {i \in DOMAIN members : Access(members[i])}} \ {None}

\* A member who was imported with a reference to a waiver signed elsewhere, or nobody.
Init ==
    /\ \/ used = {}
       \/ \E m \in Ids : used = {m}
    /\ \E e \in Emails, f \in Fobs : members = [m \in used |->
         [NewRow EXCEPT !.email = e, !.fob = f, !.paying = TRUE, !.legacy = TRUE, !.waiver = TRUE]]
    /\ waivers = <<>>
    /\ rev = 1 /\ sent = [rev |-> 1, fobs |-> Authorized] /\ lost = FALSE
    /\ proc = [p \in Procs |-> Idle]
    /\ changes = 0

-----------------------------------------------------------------------------
(* Statements on the members table *)

Put(table, m, row) == [i \in DOMAIN table \union {m} |-> IF i = m THEN row ELSE table[i]]

HasAccount(table, a) == \E m \in DOMAIN table : table[m].account = a
HasEmail(table, e) == \E m \in DOMAIN table : table[m].email = e

\* discord_user_id, email and fob_id are UNIQUE.
Unique(table) == \A m, n \in DOMAIN table : m # n =>
    /\ table[m].account # table[n].account \/ table[m].account = None
    /\ table[m].email # table[n].email \/ table[m].email = None
    /\ table[m].fob # table[n].fob \/ table[m].fob = None

\* Mutant: linked accounts are moved too.
LinkedByEmailAlways(table, a, e) ==
    IF HasAccount(table, a) THEN table
    ELSE [m \in DOMAIN table |-> IF table[m].email = e
          THEN [table[m] EXCEPT !.account = a] ELSE table[m]]

\* registerMember's first statement: a member registered by email is linked.
LinkedByEmail(table, a, e) ==
    IF HasAccount(table, a) THEN table
    ELSE [m \in DOMAIN table |-> IF table[m].email = e /\ table[m].account = None
          THEN [table[m] EXCEPT !.account = a] ELSE table[m]]

\* Mutant: the new member gets the email whoever else has it.
InsertedWithEmail(table, a, e, id) ==
    IF HasAccount(table, a) THEN table
    ELSE Put(table, id, [NewRow EXCEPT !.account = a, !.email = e])

\* The second: otherwise a new member, with the email unless somebody has it.
Inserted(table, a, e, id) ==
    IF HasAccount(table, a) THEN table
    ELSE Put(table, id, [NewRow EXCEPT !.account = a,
                                       !.email = IF HasEmail(table, e) THEN None ELSE e])

\* The third: the account's present email.
Refreshed(table, a, e) == [m \in DOMAIN table |->
    IF table[m].account = a THEN [table[m] EXCEPT !.dmail = e] ELSE table[m]]

Registered(table, a, e, id) ==
    Refreshed(Inserted(LinkedByEmail(table, a, e), a, e, id), a, e)

\* The members an email leads to.
Matching(table, e) == {m \in DOMAIN table : table[m].email = e \/ table[m].dmail = e}

\* Mutant: the trigger waiver_signed does not set the flag.
SignedBy(table, m) == table

\* The trigger waiver_signed.
Signed(table, m) == [table EXCEPT ![m].waiver = TRUE]

-----------------------------------------------------------------------------
(* Transactions *)

Change == changes < MaxChanges /\ changes' = changes + 1

\* Mutant: edge_waiver_insert is missing.
RevisionAfter(inserted, signed) == rev + inserted

\* edge_member_insert and edge_waiver_insert
Revision(inserted, signed) == rev + inserted + signed

\* edge_member_change: rows whose access columns differ.
Columns(row) == <<row.fob, row.exempt, row.paying>>
Touched(new) == IF \E m \in DOMAIN members : Columns(new[m]) # Columns(members[m]) THEN 1 ELSE 0

Become(p, state) == proc' = [proc EXCEPT ![p] = state]
Free(p) == proc[p].pc = "idle"
ThenPush(p) == Become(p, [Idle EXCEPT !.pc = "push"])

(* callback registers the member in one batch; access does not change and  *)
(* nothing is pushed.                                                      *)
Register(a, e) ==
    /\ Change
    /\ \E id \in Ids \ used :
         /\ members' = Registered(members, a, e, id)
         /\ used' = used \union DOMAIN members'
    /\ rev' = Revision(Cardinality(DOMAIN members' \ DOMAIN members), 0)
    /\ UNCHANGED <<waivers, proc, sent, lost>>

\* signWaiver looks up the member who is signed in, if somebody is.
SignWaiver(p) ==
    /\ Free(p)
    /\ \E e \in Emails, m \in DOMAIN members \union {None} :
         /\ m # None => members[m].account # None
         /\ Become(p, [pc |-> "sign", member |-> m, email |-> IF m = None THEN e ELSE None])
    /\ UNCHANGED <<tableVars, sent, lost>>

(* A signed-in member's signature; the foreign key fails if the member is  *)
(* gone by then.                                                           *)
SignOwn(p) ==
    LET m == proc[p].member
    IN  /\ proc[p].pc = "sign" /\ m # None
        /\ IF m \in DOMAIN members
           THEN /\ Change
                /\ members' = Signed(members, m)
                /\ waivers' = Append(waivers, m)
                /\ rev' = Revision(0, 1)
                /\ ThenPush(p)
                /\ UNCHANGED used
           ELSE UNCHANGED tableVars /\ Become(p, Idle)
        /\ UNCHANGED <<sent, lost>>

(* Anybody else's: a member is registered unless the email leads to one,   *)
(* and the signature is theirs if it leads to one only; else 409.          *)
SignByEmail(p) ==
    LET e == proc[p].email
    IN  /\ proc[p].pc = "sign" /\ proc[p].member = None
        /\ Change
        /\ \E id \in Ids \ used :
             LET table == IF Matching(members, e) = {}
                          THEN Put(members, id, [NewRow EXCEPT !.email = e]) ELSE members
                 inserted == Cardinality(DOMAIN table \ DOMAIN members)
             IN  /\ used' = used \union DOMAIN table
                 /\ \/ \E m \in DOMAIN table :
                         /\ Matching(table, e) = {m}
                         /\ members' = Signed(table, m)
                         /\ waivers' = Append(waivers, m)
                         /\ rev' = Revision(inserted, 1)
                         /\ ThenPush(p)
                    \/ /\ Cardinality(Matching(table, e)) > 1
                       /\ members' = table
                       /\ rev' = Revision(inserted, 0)
                       /\ Become(p, Idle)
                       /\ UNCHANGED waivers
        /\ UNCHANGED <<sent, lost>>

\* createMember: refused if the email or the account is somebody's.
CreateMember ==
    /\ Change
    /\ \E id \in Ids \ used, e \in Emails, a \in Accounts \union {None} :
         /\ ~\E m \in DOMAIN members : members[m].dmail = e
         /\ members' = Put(members, id, [NewRow EXCEPT !.email = e, !.account = a])
         /\ used' = used \union {id}
    /\ Unique(members')
    /\ rev' = Revision(1, 0)
    /\ UNCHANGED <<waivers, proc, sent, lost>>

Edited(row, a, f, x, y) ==
    [row EXCEPT !.account = a, !.dmail = IF a = row.account THEN row.dmail ELSE None,
                !.fob = f, !.exempt = x, !.paying = y]

(* updateMember: all fields at once, if the row is as it was when the form *)
(* was opened.  A linked account can be replaced but not removed.          *)
UpdateMember(p) ==
    /\ Free(p) /\ Change
    /\ \E m \in DOMAIN members, a \in Accounts \union {None}, f \in Fobs \union {None}, x, y \in BOOLEAN :
         /\ a = None => members[m].account = None
         /\ members' = [members EXCEPT ![m] = Edited(members[m], a, f, x, y)]
    /\ Unique(members')
    /\ rev' = rev + Touched(members')
    /\ ThenPush(p)
    /\ UNCHANGED <<used, waivers, sent, lost>>

(* bindFob with another fob, and syncMember storing what Stripe says.      *)
SetColumn(p) ==
    /\ Free(p) /\ Change
    /\ \E m \in DOMAIN members :
         \/ \E f \in Fobs \ {members[m].fob} : members' = [members EXCEPT ![m].fob = f]
         \/ \E y \in BOOLEAN : members' = [members EXCEPT ![m].paying = y]
    /\ Unique(members')
    /\ rev' = rev + Touched(members')
    /\ ThenPush(p)
    /\ UNCHANGED <<used, waivers, sent, lost>>

\* Mutant: nothing is pushed after a deletion.
DeleteUnpushed(p) ==
    /\ Free(p) /\ Change
    /\ \E m \in DOMAIN members :
         /\ members' = [i \in DOMAIN members \ {m} |-> members[i]]
         /\ waivers' = [i \in DOMAIN waivers |-> IF waivers[i] = m THEN None ELSE waivers[i]]
         /\ rev' = rev + 1 + Cardinality({i \in DOMAIN waivers : waivers[i] = m})
    /\ UNCHANGED <<used, proc, sent, lost>>

(* POST /delete: edge_member_delete, and edge_waiver_link for every        *)
(* signature that the foreign key sets to NULL.                            *)
Delete(p) ==
    /\ Free(p) /\ Change
    /\ \E m \in DOMAIN members :
         /\ members' = [i \in DOMAIN members \ {m} |-> members[i]]
         /\ waivers' = [i \in DOMAIN waivers |-> IF waivers[i] = m THEN None ELSE waivers[i]]
         /\ rev' = rev + 1 + Cardinality({i \in DOMAIN waivers : waivers[i] = m})
    /\ ThenPush(p)
    /\ UNCHANGED <<used, sent, lost>>

(* pushFobs; the edge keeps the newest revision.                           *)
Push(p) ==
    /\ proc[p].pc = "push"
    /\ sent' = [rev |-> rev, fobs |-> Authorized] /\ lost' = FALSE
    /\ Become(p, Idle)
    /\ UNCHANGED tableVars

\* The invocation ends; only a push it owed is missed.
Die(p) ==
    /\ ~Free(p)
    /\ lost' = (lost \/ proc[p].pc = "push")
    /\ Become(p, Idle)
    /\ UNCHANGED <<tableVars, sent>>

Next ==
    \/ CreateMember
    \/ \E a \in Accounts, e \in Emails : Register(a, e)
    \/ \E p \in Procs :
         \/ SignWaiver(p) \/ SignOwn(p) \/ SignByEmail(p)
         \/ UpdateMember(p) \/ SetColumn(p) \/ Delete(p)
         \/ Push(p) \/ Die(p)

Spec == Init /\ [][Next]_vars

-----------------------------------------------------------------------------
(* Properties *)

(* waiver_signed, which access is computed from, is what the evidence says:*)
(* an imported reference or a signature that names the member, whoever     *)
(* signed when and as whom, and whichever members were deleted since.      *)
WaiverOnRecord ==
    \A m \in DOMAIN members :
        members[m].waiver <=> members[m].legacy \/ \E i \in DOMAIN waivers : waivers[i] = m

(* Everybody with a verified Discord email can sign in, whatever admins    *)
(* entered, who signed with which email and which accounts changed theirs: *)
(* no statement of registerMember fails on a UNIQUE column, and the last   *)
(* one finds a row.                                                        *)
RegistrationSucceeds ==
    \A a \in Accounts, e \in Emails, id \in Ids \ used :
        LET linked   == LinkedByEmail(members, a, e)
            inserted == Inserted(linked, a, e, id)
        IN  Unique(linked) /\ Unique(inserted) /\ HasAccount(inserted, a)

(* A linked account is never moved to or from a member by an email: only   *)
(* an admin's edit changes an account once it is set (auth.ts: "A linked   *)
(* account is never moved by email").                                      *)
LinkedAccountStays == [][
    \/ \E p \in Procs : UpdateMember(p)
    \/ \A m \in DOMAIN members \intersect DOMAIN members' :
         members[m].account \in {None, members'[m].account}]_vars

(* Every transaction that changes the authorized list raises the revision, *)
(* so that the edge, which keeps the newest revision, takes the new list.  *)
ChangesRaiseRevision == [][Authorized' # Authorized => rev' > rev]_vars

(* No handler that changes the authorized list forgets to push: once every *)
(* handler has pushed, or unless one died first, the last list pushed is   *)
(* the present one.                                                        *)
ListIsPushed ==
    (\A p \in Procs : proc[p].pc # "push") /\ ~lost => sent.fobs = Authorized

=============================================================================
