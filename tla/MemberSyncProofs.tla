-------------------------- MODULE MemberSyncProofs --------------------------
(***************************************************************************)
(* Theorems about MemberSync, for any handlers, accounts and customers and *)
(* any number of changes, edits and faults.  Both claims are about the     *)
(* moment when all is quiet, so the inductive invariant says who will put  *)
(* right what is wrong before that: an event still to be delivered, a      *)
(* person who was shown an error, or a handler that has yet to look.       *)
(***************************************************************************)
EXTENDS MemberSync, TLAPS

-----------------------------------------------------------------------------
(* What is known of a handler by where it is. *)

InLoop == {"read", "write", "check", "remove"}

\* Only an admin's requests begin with an old account, only a login registers
\* and does not ask Stripe, and a webhook is about its event's customer.
KindFits(p) ==
    /\ proc[p].kind = "none" => proc[p].pc = "idle"
    /\ proc[p].pc \in {"removeOld", "delete"} => proc[p].kind = "admin"
    /\ proc[p].pc = "removeOld" => proc[p].then \in {"bump", "read", "delete"}
    /\ proc[p].pc = "register" => proc[p].kind = "login"
    /\ proc[p].kind = "login" => proc[p].pc \in InLoop \union {"register"}
    /\ proc[p].kind = "webhook" => proc[p].event.customer = proc[p].customer
                                   /\ proc[p].customer # None

\* A handler that asks Stripe has a version nobody else has.
Asking(p) == proc[p].pc \in {"stripe", "store"}

VersionsDiffer ==
    /\ \A p \in Procs : proc[p].version <= row.version
    /\ \A p, q \in Procs : Asking(p) /\ Asking(q) /\ proc[p].version = proc[q].version => p = q

\* A customer that does not exist yet is unknown everywhere.
FreshIsUnknown ==
    /\ row.customer \notin fresh
    /\ \A e \in events : e.customer \notin fresh /\ e.customer # None
    /\ \A p \in Procs : proc[p].customer \notin fresh
    /\ \A c \in fresh : ~sub[c]

-----------------------------------------------------------------------------
(* D1 and Stripe *)

\* A handler whose store, or deletion, will settle what D1 says.
Settles(p) ==
    \/ proc[p].customer = row.customer /\ proc[p].pc = "bump"
    \/ proc[p].customer = row.customer /\ proc[p].pc = "removeOld" /\ proc[p].then = "bump"
    \/ Latest(p) /\ proc[p].pc = "stripe"
    \/ Latest(p) /\ proc[p].pc = "store" /\ proc[p].active = Grants(row.customer)
    \/ proc[p].pc = "removeOld" /\ proc[p].then = "delete"
    \/ proc[p].pc = "delete"

\* Somebody will.
Told == "admin" \in owed \/ \E e \in events : e.customer = row.customer
Settled == Told \/ \E p \in Procs : Settles(p)

(* If D1 is wrong, or is about to be told what is no longer so, it will be *)
(* put right; nothing is claimed of a customer a checkout recovered before *)
(* a sync has looked it up.                                                *)
StaleIsSettled ==
    row.exists /\ ~relinked =>
        /\ row.active # Grants(row.customer) => Settled
        /\ \A p \in Procs :
             proc[p].pc = "store" /\ Latest(p) /\ proc[p].active # Grants(row.customer) => Settled

\* Without a customer there is no membership.
NoCustomer ==
    /\ row.customer = None => ~row.active
    /\ \A p \in Procs : proc[p].pc = "store" /\ proc[p].customer = None => ~proc[p].active

SInv == TypeOK /\ (\A p \in Procs : KindFits(p)) /\ VersionsDiffer /\ FreshIsUnknown
        /\ StaleIsSettled /\ NoCustomer

-----------------------------------------------------------------------------
(* Discord *)

\* The accounts that are counted as orphaned if the handler dies now.
Marked(p) == IF proc[p].pc \in {"removeOld", "write"} THEN Touched(p) ELSE proc[p].touched

\* If the handler dies somebody else will care for account a, or nothing is claimed of it.
Kept(p, a) ==
    \/ proc[p].kind = "admin"
    \/ proc[p].kind = "webhook" /\ proc[p].customer = row.customer
    \/ a \in Marked(p)

Satisfied(p) == proc[p].account = row.account /\ proc[p].granted = row.active

\* A handler that will yet compare the present account's role with D1.
Mends(p) ==
    /\ Kept(p, row.account)
    /\ \/ proc[p].pc \in {"removeOld", "bump", "read", "write", "remove", "delete"}
       \/ proc[p].pc \in {"stripe", "store"} /\ proc[p].version = row.version
       \/ proc[p].pc = "check" /\ ~Satisfied(p)

\* A login that will, if the role is missing.
Asks(p) ==
    /\ proc[p].kind = "login" /\ proc[p].account = row.account
    /\ \/ proc[p].pc = "read"
       \/ proc[p].pc = "register" /\ ~proc[p].granted

Mended == Told \/ \E p \in Procs : Mends(p)
Asked  == row.account \in owed \/ \E p \in Procs : Asks(p)

\* If the present account's role is wrong, it will be put right.
RoleIsMended ==
    row.exists /\ ~dropped /\ row.account \in Accounts \ orphaned =>
        /\ row.account \in roles /\ ~row.active => Mended
        /\ row.account \notin roles /\ row.active => Mended \/ Asked

\* If another account has the role, somebody is about to remove it.
OthersAreRemoved ==
    \A a \in (roles \ orphaned) \ {row.account} :
        \E p \in Procs : proc[p].account = a /\ proc[p].pc \in {"removeOld", "write", "check", "remove"}

LoopKnows ==
    \A p \in Procs :
        /\ proc[p].pc \in {"check", "remove"} => proc[p].account \in proc[p].touched \union {None}
        /\ proc[p].pc = "remove" /\ row.exists => proc[p].current.exists

\* A member without an account never had a role.
NoAccount ==
    row.account = None =>
        /\ roles = {}
        /\ \A p \in Procs :
             /\ proc[p].current.account = None
             /\ IF proc[p].pc = "register" THEN ~proc[p].granted ELSE proc[p].account = None

RInv == RoleIsMended /\ OthersAreRemoved /\ LoopKnows /\ NoAccount

IInv == SInv /\ RInv

-----------------------------------------------------------------------------
(* What the steps do, field by field. *)

\* Only handler p takes a step.
Frame(p) == proc' \in [Procs -> Handler] /\ \A q \in Procs \ {p} : proc'[q] = proc[q]

\* It has ended.
Ends(p) ==
    LET h == proc'[p] IN
    /\ h.kind = "none" /\ h.pc = "idle" /\ h.customer = None /\ h.version = 0
    /\ h.account = None /\ h.touched = {} /\ h.current.account = None

\* It has begun.
Begins(p, kind, pc, customer) ==
    LET h == proc'[p] IN
    /\ proc[p].pc = "idle"
    /\ h.kind = kind /\ h.pc = pc /\ h.customer = customer /\ h.version = 0
    /\ h.touched = {} /\ h.current.account = None

\* It goes on from one step to another with the same request.
GoesOn(p, from, to) ==
    LET h == proc[p] i == proc'[p] IN
    /\ h.pc = from /\ i.pc = to
    /\ i.kind = h.kind /\ i.event = h.event /\ i.customer = h.customer

SameVersion(p) == proc'[p].version = proc[p].version
SameAccount(p) == proc'[p].account = proc[p].account /\ proc'[p].current = proc[p].current
SameTouched(p) == proc'[p].touched = proc[p].touched

\* The row but for its account, its customer or its subscription.
SameIdentity == row'.exists = row.exists /\ row'.account = row.account
SameBilling  == row'.customer = row.customer /\ row'.active = row.active /\ row'.version = row.version

UnchangedStripe == UNCHANGED <<sub, fresh, changes>>
UnchangedRest == UNCHANGED <<sub, fresh, changes, events, owed, edits, faults>>

(* Become moves one handler. *)
LEMMA BecomeFrame ==
    ASSUME TypeOK, NEW p \in Procs, NEW s \in Handler, Become(p, s)
    PROVE  Frame(p) /\ proc'[p] = s
BY DEF TypeOK, Become, Frame

LEMMA IdleType == Idle \in Handler
BY ConstantsAssumption DEF Idle, Handler, NoEvent, Events

LEMMA DoneFacts ==
    ASSUME TypeOK, NEW p \in Procs, Done(p)
    PROVE  Frame(p) /\ Ends(p)
<1>1. Frame(p) /\ proc'[p] = Idle
  BY IdleType, BecomeFrame DEF Done
<1> QED
  BY <1>1 DEF Ends, Idle

LEMMA BeginWebhook ==
    ASSUME TypeOK, NEW p \in Procs, NEW e \in events, Free(p),
           Become(p, [Idle EXCEPT !.kind = "webhook", !.pc = "bump", !.event = e, !.customer = e.customer])
    PROVE  /\ Frame(p) /\ Begins(p, "webhook", "bump", e.customer)
           /\ proc'[p].event = e /\ proc'[p].account = None
<1> DEFINE s == [Idle EXCEPT !.kind = "webhook", !.pc = "bump", !.event = e, !.customer = e.customer]
<1>1. e \in Events /\ e.customer \in Customers \union {None}
  BY DEF TypeOK, Events
<1>2. s \in Handler
  BY <1>1, ConstantsAssumption DEF Idle, Handler, NoEvent, Events
<1>3. /\ s.kind = "webhook" /\ s.pc = "bump" /\ s.customer = e.customer /\ s.version = 0
      /\ s.touched = {} /\ s.current.account = None /\ s.event = e /\ s.account = None
  BY DEF Idle
<1> HIDE DEF s
<1>4. Become(p, s)
  BY DEF s
<1> QED
  BY <1>2, <1>3, <1>4, BecomeFrame DEF Begins, Free

LEMMA BeginBump ==
    ASSUME TypeOK, NEW p \in Procs, NEW c \in Customers \union {None}, Free(p),
           Become(p, [Idle EXCEPT !.kind = "admin", !.pc = "bump", !.customer = c])
    PROVE  Frame(p) /\ Begins(p, "admin", "bump", c) /\ proc'[p].account = None
<1> DEFINE s == [Idle EXCEPT !.kind = "admin", !.pc = "bump", !.customer = c]
<1>2. s \in Handler
  BY ConstantsAssumption DEF Idle, Handler, NoEvent, Events
<1>3. /\ s.kind = "admin" /\ s.pc = "bump" /\ s.customer = c /\ s.version = 0
      /\ s.touched = {} /\ s.current.account = None /\ s.account = None
  BY DEF Idle
<1> HIDE DEF s
<1>4. Become(p, s)
  BY DEF s
<1> QED
  BY <1>2, <1>3, <1>4, BecomeFrame DEF Begins, Free

LEMMA BeginRemoveOld ==
    ASSUME TypeOK, NEW p \in Procs, NEW c \in Customers \union {None}, Free(p),
           NEW then \in {"bump", "read", "delete"}, NEW a \in Accounts \union {None},
           Become(p, [Idle EXCEPT !.kind = "admin", !.pc = "removeOld", !.then = then,
                                  !.account = a, !.customer = c])
    PROVE  /\ Frame(p) /\ Begins(p, "admin", "removeOld", c)
           /\ proc'[p].then = then /\ proc'[p].account = a
<1> DEFINE s == [Idle EXCEPT !.kind = "admin", !.pc = "removeOld", !.then = then, !.account = a, !.customer = c]
<1>1. then \in {"none", "bump", "read", "delete"}
  OBVIOUS
<1>2. s \in Handler
  BY <1>1, ConstantsAssumption DEF Idle, Handler, NoEvent, Events
<1>3. /\ s.kind = "admin" /\ s.pc = "removeOld" /\ s.then = then /\ s.customer = c /\ s.version = 0
      /\ s.touched = {} /\ s.current.account = None /\ s.account = a
  BY DEF Idle
<1> HIDE DEF s
<1>4. Become(p, s)
  BY DEF s
<1> QED
  BY <1>2, <1>3, <1>4, BecomeFrame DEF Begins, Free

LEMMA BeginLogin ==
    ASSUME TypeOK, NEW p \in Procs, NEW a \in Accounts, Free(p),
           Become(p, [Idle EXCEPT !.kind = "login", !.pc = "register", !.account = a,
                                  !.granted = a \in roles])
    PROVE  /\ Frame(p) /\ Begins(p, "login", "register", None)
           /\ proc'[p].account = a /\ (proc'[p].granted <=> a \in roles)
<1> DEFINE s == [Idle EXCEPT !.kind = "login", !.pc = "register", !.account = a, !.granted = a \in roles]
<1>1. (a \in roles) \in BOOLEAN
  OBVIOUS
<1>2. s \in Handler
  BY <1>1, ConstantsAssumption DEF Idle, Handler, NoEvent, Events
<1>3. /\ s.kind = "login" /\ s.pc = "register" /\ s.customer = None /\ s.version = 0
      /\ s.touched = {} /\ s.current.account = None /\ s.account = a /\ s.granted = (a \in roles)
  BY DEF Idle
<1> HIDE DEF s
<1>4. Become(p, s)
  BY DEF s
<1> QED
  BY <1>2, <1>3, <1>4, BecomeFrame DEF Begins, Free

LEMMA GotoRead ==
    ASSUME TypeOK, NEW p \in Procs, Goto(p, "read")
    PROVE  /\ Frame(p) /\ GoesOn(p, proc[p].pc, "read")
           /\ SameVersion(p) /\ SameAccount(p) /\ SameTouched(p)
<1> DEFINE h == proc[p]
           s == [h EXCEPT !.pc = "read"]
<1>1. h \in Handler
  BY DEF TypeOK
<1>2. s \in Handler
  BY <1>1 DEF Handler
<1>3. /\ s.pc = "read" /\ s.kind = h.kind /\ s.event = h.event /\ s.customer = h.customer
      /\ s.version = h.version /\ s.account = h.account /\ s.current = h.current /\ s.touched = h.touched
  BY <1>1 DEF Handler
<1>4. Become(p, s)
  BY DEF Goto
<1> HIDE DEF s
<1> QED
  BY <1>2, <1>3, <1>4, BecomeFrame DEF GoesOn, SameVersion, SameAccount, SameTouched

WebhookEffect(p) ==
    \E e \in events :
       /\ events' = events \ {e} /\ UnchangedStripe /\ row' \in Row
       /\ SameIdentity /\ row'.active = row.active /\ row'.version = row.version
       /\ UNCHANGED <<roles, owed, orphaned, dropped, relinked, edits, faults>>
       /\ \/ /\ row.exists /\ row'.customer = e.customer
             /\ row.customer \in {None, e.customer}
             /\ Frame(p) /\ Begins(p, "webhook", "bump", e.customer)
             /\ proc'[p].event = e /\ proc'[p].account = None
          \/ /\ row'.customer = row.customer /\ (row.exists => e.customer # row.customer)
             /\ proc' = proc

LEMMA WebhookFacts ==
    ASSUME TypeOK, NEW p \in Procs, Webhook(p)
    PROVE  WebhookEffect(p)
<1> USE DEF WebhookEffect
<1>1. PICK e \in events :
         LET linked == IF e.link /\ row.customer = None THEN e.customer ELSE row.customer IN
         /\ events' = events \ {e}
         /\ row' = IF row.exists THEN [row EXCEPT !.customer = linked] ELSE row
         /\ IF row.exists /\ linked = e.customer
            THEN Become(p, [Idle EXCEPT !.kind = "webhook", !.pc = "bump", !.event = e,
                                        !.customer = e.customer])
            ELSE UNCHANGED proc
  BY DEF Webhook
<1> DEFINE linked == IF e.link /\ row.customer = None THEN e.customer ELSE row.customer
<1>2. row \in Row /\ e.customer \in Customers \union {None}
  BY DEF TypeOK, Events
<1>3. /\ row' \in Row /\ SameIdentity /\ row'.active = row.active /\ row'.version = row.version
      /\ row'.customer = IF row.exists THEN linked ELSE row.customer
  BY <1>1, <1>2 DEF Row, SameIdentity
<1>4. UnchangedStripe /\ UNCHANGED <<roles, owed, orphaned, dropped, relinked, edits, faults>> /\ Free(p)
  BY DEF Webhook, stripeVars, ghostVars, countVars, UnchangedStripe
<1>5. CASE row.exists /\ linked = e.customer
  <2>1. Frame(p) /\ Begins(p, "webhook", "bump", e.customer)
        /\ proc'[p].event = e /\ proc'[p].account = None
    BY <1>1, <1>4, <1>5, BeginWebhook
  <2> QED
    BY <1>1, <1>3, <1>4, <1>5, <2>1
<1>6. CASE ~(row.exists /\ linked = e.customer)
  BY <1>1, <1>3, <1>4, <1>6
<1> QED
  BY <1>5, <1>6

AdminSyncEffect(p) ==
    /\ Frame(p) /\ Begins(p, "admin", "bump", row.customer) /\ proc'[p].account = None
    /\ owed' = owed \ {"admin"} /\ edits' = edits + 1 /\ UnchangedStripe
    /\ UNCHANGED <<events, row, roles, orphaned, dropped, relinked, faults>>

LEMMA AdminSyncFacts ==
    ASSUME TypeOK, NEW p \in Procs, AdminSync(p)
    PROVE  AdminSyncEffect(p)
<1> USE DEF AdminSyncEffect
<1>1. row.customer \in Customers \union {None}
  BY DEF TypeOK, Row
<1> QED
  BY <1>1, BeginBump DEF AdminSync, Request, stripeVars, ghostVars, UnchangedStripe

AdminEditEffect(p) ==
    /\ row' \in Row /\ row.exists /\ row'.exists /\ row'.version = row.version
    /\ row'.customer \notin fresh
    /\ row'.active = IF row'.customer = row.customer THEN row.active ELSE FALSE
    /\ row'.account = None => row.account = None
    /\ Frame(p)
    /\ \/ /\ row'.account # row.account /\ proc'[p].account = row.account
          /\ Begins(p, "admin", "removeOld", row'.customer)
          /\ proc'[p].then \in {"bump", "read"}
          /\ row'.customer # row.customer => proc'[p].then = "bump"
       \/ /\ row'.account = row.account /\ row'.customer # row.customer
          /\ Begins(p, "admin", "bump", row'.customer) /\ proc'[p].account = None
    /\ edits' = edits + 1 /\ UnchangedStripe
    /\ relinked' = (relinked /\ row'.customer = row.customer)
    /\ UNCHANGED <<events, roles, owed, orphaned, dropped, faults>>

LEMMA AdminEditFacts ==
    ASSUME TypeOK, NEW p \in Procs, AdminEdit(p)
    PROVE  AdminEditEffect(p)
<1> USE DEF AdminEditEffect
<1>1. PICK a \in Accounts \union {None}, c \in (Customers \ fresh) \union {None} :
         /\ a = None => row.account = None
         /\ row' = [row EXCEPT !.account = a, !.customer = c,
                               !.active = IF c = row.customer THEN @ ELSE FALSE]
         /\ LET follow == IF c # row.customer THEN "bump" ELSE "read" IN
            \/ a # row.account
               /\ Become(p, [Idle EXCEPT !.kind = "admin", !.pc = "removeOld", !.then = follow,
                                         !.account = row.account, !.customer = c])
            \/ a = row.account /\ c # row.customer
               /\ Become(p, [Idle EXCEPT !.kind = "admin", !.pc = "bump", !.customer = c])
         /\ relinked' = (relinked /\ c = row.customer)
  BY DEF AdminEdit
<1>2. row \in Row /\ c \in Customers \union {None} /\ c \notin fresh
  BY ConstantsAssumption DEF TypeOK
<1>3. /\ row' \in Row /\ row'.exists = row.exists /\ row'.version = row.version
      /\ row'.account = a /\ row'.customer = c
      /\ row'.active = IF c = row.customer THEN row.active ELSE FALSE
  BY <1>1, <1>2 DEF Row
<1>4. /\ edits' = edits + 1 /\ UnchangedStripe /\ Free(p) /\ row.exists
      /\ relinked' = (relinked /\ row'.customer = row.customer)
      /\ UNCHANGED <<events, roles, owed, orphaned, dropped, faults>>
  BY <1>1, <1>3 DEF AdminEdit, Request, stripeVars, UnchangedStripe
<1> DEFINE follow == IF c # row.customer THEN "bump" ELSE "read"
<1>5. CASE a # row.account
  <2>1. follow \in {"bump", "read", "delete"} /\ row.account \in Accounts \union {None}
    BY <1>2 DEF Row
  <2>2. Become(p, [Idle EXCEPT !.kind = "admin", !.pc = "removeOld", !.then = follow,
                               !.account = row.account, !.customer = c])
    BY <1>1, <1>5
  <2>3. /\ Frame(p) /\ Begins(p, "admin", "removeOld", c)
        /\ proc'[p].then = follow /\ proc'[p].account = row.account
    <3> HIDE DEF follow
    <3> QED
      BY <1>2, <1>4, <2>1, <2>2, BeginRemoveOld
  <2> QED
    BY <1>1, <1>2, <1>3, <1>4, <1>5, <2>3
<1>6. CASE a = row.account
  <2>1. /\ c # row.customer
        /\ Become(p, [Idle EXCEPT !.kind = "admin", !.pc = "bump", !.customer = c])
    BY <1>1, <1>6
  <2>2. Frame(p) /\ Begins(p, "admin", "bump", c) /\ proc'[p].account = None
    BY <1>2, <1>4, <2>1, BeginBump
  <2> QED
    BY <1>1, <1>2, <1>3, <1>4, <1>6, <2>1, <2>2
<1> QED
  BY <1>5, <1>6

AdminDeleteEffect(p) ==
    /\ Frame(p) /\ Begins(p, "admin", "removeOld", None)
    /\ proc'[p].then = "delete" /\ proc'[p].account = row.account
    /\ owed' = owed \ {"admin"} /\ edits' = edits + 1 /\ UnchangedStripe
    /\ UNCHANGED <<events, row, roles, orphaned, dropped, relinked, faults>>

LEMMA AdminDeleteFacts ==
    ASSUME TypeOK, NEW p \in Procs, AdminDelete(p)
    PROVE  AdminDeleteEffect(p)
<1> USE DEF AdminDeleteEffect
<1>1. row.account \in Accounts \union {None}
  BY DEF TypeOK, Row
<1>2. /\ owed' = owed \ {"admin"} /\ edits' = edits + 1 /\ UnchangedStripe /\ Free(p)
      /\ UNCHANGED <<events, row, roles, orphaned, dropped, relinked, faults>>
  BY DEF AdminDelete, Request, stripeVars, ghostVars, UnchangedStripe
<1> DEFINE s == [Idle EXCEPT !.kind = "admin", !.pc = "removeOld", !.then = "delete",
                             !.account = row.account]
<1>3. s \in Handler
  BY <1>1, ConstantsAssumption DEF Idle, Handler, NoEvent, Events
<1>4. /\ s.kind = "admin" /\ s.pc = "removeOld" /\ s.then = "delete" /\ s.customer = None
      /\ s.version = 0 /\ s.touched = {} /\ s.current.account = None /\ s.account = row.account
  BY DEF Idle
<1>5. Become(p, s)
  BY DEF AdminDelete
<1> HIDE DEF s
<1> QED
  BY <1>2, <1>3, <1>4, <1>5, BecomeFrame DEF Begins, Free

LoginEffect(p) ==
    \E a \in Accounts :
       /\ Frame(p) /\ Begins(p, "login", "register", None)
       /\ proc'[p].account = a /\ (proc'[p].granted <=> a \in roles)
       /\ owed' = owed \ {a} /\ edits' = edits + 1 /\ UnchangedStripe
       /\ UNCHANGED <<events, row, roles, orphaned, dropped, relinked, faults>>

LEMMA LoginFacts ==
    ASSUME TypeOK, NEW p \in Procs, Login(p)
    PROVE  LoginEffect(p)
<1> USE DEF LoginEffect
<1>1. PICK a \in Accounts :
         /\ Become(p, [Idle EXCEPT !.kind = "login", !.pc = "register", !.account = a,
                                   !.granted = a \in roles])
         /\ owed' = owed \ {a}
  BY DEF Login
<1>2. /\ edits' = edits + 1 /\ UnchangedStripe /\ Free(p)
      /\ UNCHANGED <<events, row, roles, orphaned, dropped, relinked, faults>>
  BY DEF Login, Request, stripeVars, ghostVars, UnchangedStripe
<1> QED
  BY <1>1, <1>2, BeginLogin

RegisterEffect(p) ==
    /\ proc[p].pc = "register" /\ Frame(p) /\ UnchangedRest
    /\ row' \in Row /\ row'.exists = row.exists /\ SameBilling
    /\ UNCHANGED <<roles, orphaned, dropped, relinked>>
    /\ LET mine == row.exists /\ row.account \in {None, proc[p].account} IN
       /\ row'.account = IF mine THEN proc[p].account ELSE row.account
       /\ IF mine /\ row.active /\ ~proc[p].granted
          THEN GoesOn(p, "register", "read") /\ SameVersion(p) /\ SameAccount(p) /\ SameTouched(p)
          ELSE Ends(p)

LEMMA RegisterFacts ==
    ASSUME TypeOK, NEW p \in Procs, Register(p)
    PROVE  RegisterEffect(p)
<1> USE DEF RegisterEffect
<1> DEFINE mine == row.exists /\ row.account \in {None, proc[p].account}
<1>1. /\ proc[p].pc = "register" /\ UnchangedRest /\ UNCHANGED <<roles, orphaned, dropped, relinked>>
      /\ row' = IF mine THEN [row EXCEPT !.account = proc[p].account] ELSE row
      /\ IF mine /\ row.active /\ ~proc[p].granted THEN Goto(p, "read") ELSE Done(p)
  BY DEF Register, At, Else, ghostVars, stripeVars, countVars, UnchangedRest
<1>2. row \in Row /\ proc[p].account \in Accounts \union {None}
  BY DEF TypeOK, Handler
<1>3. /\ row' \in Row /\ row'.exists = row.exists /\ SameBilling
      /\ row'.account = IF mine THEN proc[p].account ELSE row.account
  BY <1>1, <1>2 DEF Row, SameBilling
<1>4. CASE mine /\ row.active /\ ~proc[p].granted
  BY <1>1, <1>3, <1>4, GotoRead
<1>5. CASE ~(mine /\ row.active /\ ~proc[p].granted)
  BY <1>1, <1>3, <1>5, DoneFacts
<1> QED
  BY <1>4, <1>5

RemoveOldEffect(p) ==
    /\ Frame(p) /\ GoesOn(p, "removeOld", proc[p].then) /\ SameVersion(p) /\ SameAccount(p)
    /\ proc'[p].touched = Touched(p) /\ UnchangedRest
    /\ roles' = roles \ {proc[p].account} /\ orphaned' = orphaned \ {proc[p].account}
    /\ UNCHANGED <<row, dropped, relinked>>

LEMMA RemoveOldFacts ==
    ASSUME TypeOK, NEW p \in Procs, RemoveOld(p), proc[p].then # "none"
    PROVE  RemoveOldEffect(p)
<1> USE DEF RemoveOldEffect
<1> DEFINE h == proc[p]
           s == [h EXCEPT !.pc = h.then, !.touched = Touched(p)]
<1>1. h \in Handler /\ Touched(p) \in SUBSET Accounts /\ h.then \in {"bump", "read", "delete"}
  BY DEF TypeOK, Touched, Handler
<1>2. s \in Handler
  BY <1>1 DEF Handler
<1>3. /\ s.pc = h.then /\ s.kind = h.kind /\ s.event = h.event /\ s.customer = h.customer
      /\ s.version = h.version /\ s.account = h.account /\ s.current = h.current /\ s.touched = Touched(p)
  BY <1>1 DEF Handler
<1>4. /\ Become(p, s) /\ h.pc = "removeOld" /\ UnchangedRest
      /\ roles' = roles \ {h.account} /\ orphaned' = orphaned \ {h.account} /\ UNCHANGED <<row, dropped, relinked>>
  BY DEF RemoveOld, At, Else, stripeVars, countVars, UnchangedRest
<1> HIDE DEF s
<1> QED
  BY <1>2, <1>3, <1>4, BecomeFrame DEF GoesOn, SameVersion, SameAccount

DeleteEffect(p) ==
    /\ proc[p].pc = "delete" /\ Frame(p) /\ Ends(p) /\ UnchangedRest
    /\ row' \in Row /\ ~row'.exists /\ row'.account = row.account /\ SameBilling
    /\ UNCHANGED <<roles, orphaned, dropped, relinked>>

LEMMA DeleteFacts ==
    ASSUME TypeOK, NEW p \in Procs, Delete(p)
    PROVE  DeleteEffect(p)
<1> USE DEF DeleteEffect
<1>1. row \in Row
  BY DEF TypeOK
<1>2. row' = [row EXCEPT !.exists = FALSE]
  BY DEF Delete
<1>3. row' \in Row /\ ~row'.exists /\ row'.account = row.account /\ SameBilling
  BY <1>1, <1>2 DEF Row, SameBilling
<1> QED
  BY <1>3, DoneFacts DEF Delete, At, Else, ghostVars, stripeVars, countVars, UnchangedRest

BumpEffect(p) ==
    /\ proc[p].pc = "bump" /\ Frame(p) /\ UnchangedRest /\ UNCHANGED <<roles, orphaned, relinked>>
    /\ row' \in Row /\ SameIdentity /\ row'.customer = row.customer /\ row'.active = row.active
    /\ dropped' = (dropped \/ CustomerGone(p))
    /\ IF row.exists /\ row.customer = proc[p].customer
       THEN /\ GoesOn(p, "bump", "stripe") /\ SameAccount(p) /\ SameTouched(p)
            /\ row'.version = row.version + 1 /\ proc'[p].version = row.version + 1
       ELSE Ends(p) /\ row'.version = row.version

LEMMA BumpFacts ==
    ASSUME TypeOK, NEW p \in Procs, Bump(p)
    PROVE  BumpEffect(p)
<1> USE DEF BumpEffect
<1> DEFINE h == proc[p]
           s == [h EXCEPT !.pc = "stripe", !.version = row.version + 1]
<1>1. h \in Handler /\ row \in Row /\ row.version + 1 \in Nat
  BY DEF TypeOK, Row
<1>2. /\ h.pc = "bump" /\ UnchangedRest /\ UNCHANGED <<roles, orphaned, relinked>>
      /\ dropped' = (dropped \/ CustomerGone(p))
      /\ IF row.exists /\ row.customer = h.customer
         THEN row' = [row EXCEPT !.version = @ + 1] /\ Become(p, s)
         ELSE UNCHANGED row /\ Done(p)
  BY DEF Bump, At, Else, stripeVars, countVars, UnchangedRest
<1>3. CASE row.exists /\ row.customer = h.customer
  <2>1. s \in Handler
    BY <1>1 DEF Handler
  <2>2. /\ s.pc = "stripe" /\ s.kind = h.kind /\ s.event = h.event /\ s.customer = h.customer
        /\ s.account = h.account /\ s.current = h.current /\ s.touched = h.touched
        /\ s.version = row.version + 1
    BY <1>1 DEF Handler
  <2>3. row' \in Row /\ SameIdentity /\ row'.customer = row.customer /\ row'.active = row.active
        /\ row'.version = row.version + 1
    BY <1>1, <1>2, <1>3 DEF Row, SameIdentity
  <2>4. Frame(p) /\ proc'[p] = s
    <3>1. Become(p, s)
      BY <1>2, <1>3
    <3> HIDE DEF s
    <3> QED
      BY <2>1, <3>1, BecomeFrame
  <2> HIDE DEF s
  <2> QED
    BY <1>2, <1>3, <2>2, <2>3, <2>4 DEF GoesOn, SameAccount, SameTouched
<1>4. CASE ~(row.exists /\ row.customer = h.customer)
  BY <1>1, <1>2, <1>4, DoneFacts DEF SameIdentity
<1> QED
  BY <1>3, <1>4

AskStripeEffect(p) ==
    /\ Frame(p) /\ GoesOn(p, "stripe", "store")
    /\ SameVersion(p) /\ SameAccount(p) /\ SameTouched(p)
    /\ proc'[p].active = Grants(proc[p].customer)
    /\ relinked' = (relinked /\ ~Latest(p))
    /\ UnchangedRest /\ UNCHANGED <<row, roles, orphaned, dropped>>

LEMMA AskStripeFacts ==
    ASSUME TypeOK, NEW p \in Procs, AskStripe(p)
    PROVE  AskStripeEffect(p)
<1> USE DEF AskStripeEffect
<1> DEFINE h == proc[p]
           s == [h EXCEPT !.pc = "store", !.active = Grants(h.customer)]
<1>1. h \in Handler /\ Grants(h.customer) \in BOOLEAN
  BY DEF TypeOK, Grants, Handler
<1>2. s \in Handler
  BY <1>1 DEF Handler
<1>3. /\ s.pc = "store" /\ s.kind = h.kind /\ s.event = h.event /\ s.customer = h.customer
      /\ s.version = h.version /\ s.account = h.account /\ s.current = h.current
      /\ s.touched = h.touched /\ s.active = Grants(h.customer)
  BY <1>1 DEF Handler
<1>4. /\ Become(p, s) /\ h.pc = "stripe" /\ UnchangedRest
      /\ relinked' = (relinked /\ ~Latest(p)) /\ UNCHANGED <<row, roles, orphaned, dropped>>
  BY DEF AskStripe, At, Else, stripeVars, countVars, UnchangedRest
<1> HIDE DEF s
<1> QED
  BY <1>2, <1>3, <1>4, BecomeFrame DEF GoesOn, SameVersion, SameAccount, SameTouched

StoreEffect(p) ==
    /\ proc[p].pc = "store" /\ Frame(p) /\ UnchangedRest /\ UNCHANGED <<roles, orphaned, relinked>>
    /\ row' \in Row /\ SameIdentity /\ row'.customer = row.customer /\ row'.version = row.version
    /\ dropped' = (dropped \/ CustomerGone(p))
    /\ IF NotSuperseded(p)
       THEN /\ GoesOn(p, "store", "read")
            /\ SameVersion(p) /\ SameAccount(p) /\ SameTouched(p)
            /\ row'.active = proc[p].active
       ELSE Ends(p) /\ row'.active = row.active

LEMMA StoreFacts ==
    ASSUME TypeOK, NEW p \in Procs, Store(p)
    PROVE  StoreEffect(p)
<1> USE DEF StoreEffect
<1>1. proc[p] \in Handler /\ row \in Row /\ proc[p].active \in BOOLEAN
  BY DEF TypeOK, Handler
<1>2. /\ proc[p].pc = "store" /\ UnchangedRest /\ UNCHANGED <<roles, orphaned, relinked>>
      /\ dropped' = (dropped \/ CustomerGone(p))
      /\ IF NotSuperseded(p)
         THEN row' = [row EXCEPT !.active = proc[p].active] /\ Goto(p, "read")
         ELSE UNCHANGED row /\ Done(p)
  BY DEF Store, At, Else, stripeVars, countVars, UnchangedRest
<1>3. CASE NotSuperseded(p)
  <2>1. row' \in Row /\ SameIdentity /\ row'.customer = row.customer /\ row'.version = row.version
        /\ row'.active = proc[p].active
    BY <1>1, <1>2, <1>3 DEF Row, SameIdentity
  <2> QED
    BY <1>2, <1>3, <2>1, GotoRead
<1>4. CASE ~NotSuperseded(p)
  BY <1>1, <1>2, <1>4, DoneFacts DEF SameIdentity
<1> QED
  BY <1>3, <1>4

ReadEffect(p) ==
    /\ proc[p].pc = "read" /\ Frame(p)
    /\ UnchangedRest /\ UNCHANGED <<row, roles, orphaned, dropped, relinked>>
    /\ IF row.exists
       THEN /\ GoesOn(p, "read", "write") /\ SameVersion(p) /\ SameTouched(p)
            /\ proc'[p].account = row.account /\ proc'[p].granted = row.active
            /\ proc'[p].current = proc[p].current
       ELSE Ends(p)

LEMMA ReadFacts ==
    ASSUME TypeOK, NEW p \in Procs, Read(p)
    PROVE  ReadEffect(p)
<1> USE DEF ReadEffect
<1> DEFINE h == proc[p]
           s == [h EXCEPT !.pc = "write", !.account = row.account, !.granted = row.active]
<1>1. h \in Handler /\ row.account \in Accounts \union {None} /\ row.active \in BOOLEAN
  BY DEF TypeOK, Row
<1>2. /\ h.pc = "read" /\ UnchangedRest /\ UNCHANGED <<row, roles, orphaned, dropped, relinked>>
      /\ IF row.exists THEN Become(p, s) ELSE Done(p)
  BY DEF Read, At, Else, ghostVars, stripeVars, countVars, UnchangedRest
<1>3. CASE row.exists
  <2>1. s \in Handler
    BY <1>1 DEF Handler
  <2>2. /\ s.pc = "write" /\ s.kind = h.kind /\ s.event = h.event /\ s.customer = h.customer
        /\ s.account = row.account /\ s.granted = row.active /\ s.current = h.current
        /\ s.touched = h.touched /\ s.version = h.version
    BY <1>1 DEF Handler
  <2>3. Become(p, s)
    BY <1>2, <1>3
  <2> HIDE DEF s
  <2> QED
    BY <1>2, <1>3, <2>1, <2>2, <2>3, BecomeFrame DEF GoesOn, SameVersion, SameTouched
<1>4. CASE ~row.exists
  BY <1>2, <1>4, DoneFacts
<1> QED
  BY <1>3, <1>4

WriteEffect(p) ==
    /\ Frame(p) /\ GoesOn(p, "write", "check") /\ SameVersion(p) /\ SameAccount(p)
    /\ proc'[p].granted = proc[p].granted /\ proc'[p].touched = Touched(p)
    /\ UnchangedRest /\ UNCHANGED <<row, dropped, relinked>>
    /\ roles' = SetRole(proc[p].account, proc[p].granted)
    /\ orphaned' = orphaned \ {proc[p].account}

LEMMA WriteFacts ==
    ASSUME TypeOK, NEW p \in Procs, Write(p)
    PROVE  WriteEffect(p)
<1> USE DEF WriteEffect
<1> DEFINE h == proc[p]
           s == [h EXCEPT !.pc = "check", !.touched = Touched(p)]
<1>1. h \in Handler /\ Touched(p) \in SUBSET Accounts
  BY DEF TypeOK, Touched, Handler
<1>2. s \in Handler
  BY <1>1 DEF Handler
<1>3. /\ s.pc = "check" /\ s.kind = h.kind /\ s.event = h.event /\ s.customer = h.customer
      /\ s.version = h.version /\ s.account = h.account /\ s.current = h.current
      /\ s.granted = h.granted /\ s.touched = Touched(p)
  BY <1>1 DEF Handler
<1>4. /\ Become(p, s) /\ h.pc = "write" /\ UnchangedRest /\ UNCHANGED <<row, dropped, relinked>>
      /\ roles' = SetRole(h.account, h.granted) /\ orphaned' = orphaned \ {h.account}
  BY DEF Write, At, Else, stripeVars, countVars, UnchangedRest
<1> HIDE DEF s
<1> QED
  BY <1>2, <1>3, <1>4, BecomeFrame DEF GoesOn, SameVersion, SameAccount

CheckEffect(p) ==
    /\ proc[p].pc = "check" /\ Frame(p)
    /\ UnchangedRest /\ UNCHANGED <<row, roles, orphaned, dropped, relinked>>
    /\ LET moved == ~row.exists \/ row.account # proc[p].account IN
       \/ /\ moved /\ GoesOn(p, "check", "remove") /\ SameVersion(p) /\ SameTouched(p)
          /\ proc'[p].account = proc[p].account
          /\ proc'[p].current.account = row.account /\ proc'[p].current.exists = row.exists
       \/ ~moved /\ row.active = proc[p].granted /\ Ends(p)
       \/ /\ ~moved /\ row.active # proc[p].granted
          /\ GoesOn(p, "check", "write") /\ SameVersion(p) /\ SameAccount(p) /\ SameTouched(p)

LEMMA CheckFacts ==
    ASSUME TypeOK, NEW p \in Procs, Check(p)
    PROVE  CheckEffect(p)
<1> USE DEF CheckEffect
<1> DEFINE h == proc[p]
           moved == ~row.exists \/ row.account # proc[p].account
           s == [h EXCEPT !.pc = "remove", !.current = Snapshot]
           t == [h EXCEPT !.pc = "write", !.granted = row.active]
<1>1. h \in Handler /\ row \in Row /\ row.active \in BOOLEAN
  BY DEF TypeOK, Row
<1>2. /\ h.pc = "check" /\ UnchangedRest /\ UNCHANGED <<row, roles, orphaned, dropped, relinked>>
      /\ \/ moved /\ Become(p, s)
         \/ ~moved /\ row.active = h.granted /\ Done(p)
         \/ ~moved /\ row.active # h.granted /\ Become(p, t)
  BY DEF Check, At, Else, ghostVars, stripeVars, countVars, UnchangedRest
<1>3. CASE moved /\ Become(p, s)
  <2>1. /\ Snapshot \in [account : Accounts \union {None}, granted : BOOLEAN, exists : BOOLEAN]
        /\ Snapshot.account = row.account /\ Snapshot.exists = row.exists
    BY <1>1 DEF Snapshot, Row
  <2>2. s \in Handler
    BY <1>1, <2>1 DEF Handler
  <2>3. /\ s.pc = "remove" /\ s.kind = h.kind /\ s.event = h.event /\ s.customer = h.customer
        /\ s.account = h.account /\ s.touched = h.touched /\ s.version = h.version
        /\ s.current = Snapshot
    BY <1>1 DEF Handler
  <2> HIDE DEF s
  <2> QED
    BY <1>2, <1>3, <2>1, <2>2, <2>3, BecomeFrame DEF GoesOn, SameVersion, SameTouched
<1>4. CASE ~moved /\ row.active = h.granted /\ Done(p)
  BY <1>2, <1>4, DoneFacts
<1>5. CASE ~moved /\ row.active # h.granted /\ Become(p, t)
  <2>1. t \in Handler
    BY <1>1 DEF Handler
  <2>2. /\ t.pc = "write" /\ t.kind = h.kind /\ t.event = h.event /\ t.customer = h.customer
        /\ t.account = h.account /\ t.current = h.current /\ t.touched = h.touched /\ t.version = h.version
    BY <1>1 DEF Handler
  <2> HIDE DEF t
  <2> QED
    BY <1>2, <1>5, <2>1, <2>2, BecomeFrame DEF GoesOn, SameVersion, SameAccount, SameTouched
<1> QED
  BY <1>2, <1>3, <1>4, <1>5

RemoveEffect(p) ==
    /\ proc[p].pc = "remove" /\ Frame(p) /\ UnchangedRest /\ UNCHANGED <<row, dropped, relinked>>
    /\ roles' = roles \ {proc[p].account} /\ orphaned' = orphaned \ {proc[p].account}
    /\ IF proc[p].current.exists
       THEN /\ GoesOn(p, "remove", "write") /\ SameVersion(p)
            /\ proc'[p].touched = Touched(p)
            /\ proc'[p].account = proc[p].current.account /\ proc'[p].current.account = None
       ELSE Ends(p)

LEMMA RemoveFacts ==
    ASSUME TypeOK, NEW p \in Procs, Remove(p)
    PROVE  RemoveEffect(p)
<1> USE DEF RemoveEffect
<1> DEFINE h == proc[p]
           c == h.current
           s == [h EXCEPT !.pc = "write", !.account = c.account, !.granted = c.granted,
                          !.current = Idle.current, !.touched = Touched(p)]
<1>1. h \in Handler /\ Touched(p) \in SUBSET Accounts
  BY DEF TypeOK, Touched, Handler
<1>2. /\ h.pc = "remove" /\ UnchangedRest /\ UNCHANGED <<row, dropped, relinked>>
      /\ roles' = roles \ {h.account} /\ orphaned' = orphaned \ {h.account}
      /\ IF c.exists THEN Become(p, s) ELSE Done(p)
  BY DEF Remove, At, Else, stripeVars, countVars, UnchangedRest
<1>3. CASE c.exists
  <2>1. /\ c.account \in Accounts \union {None} /\ c.granted \in BOOLEAN
        /\ Idle.current \in [account : Accounts \union {None}, granted : BOOLEAN, exists : BOOLEAN]
        /\ Idle.current.account = None
    BY <1>1 DEF Handler, Idle
  <2>2. s \in Handler
    BY <1>1, <2>1 DEF Handler
  <2>3. /\ s.pc = "write" /\ s.kind = h.kind /\ s.event = h.event /\ s.customer = h.customer
        /\ s.account = c.account /\ s.current = Idle.current /\ s.touched = Touched(p)
        /\ s.version = h.version
    BY <1>1 DEF Handler
  <2>4. Become(p, s)
    BY <1>2, <1>3
  <2> HIDE DEF s
  <2> QED
    BY <1>2, <1>3, <2>1, <2>2, <2>3, <2>4, BecomeFrame DEF GoesOn, SameVersion
<1>4. CASE ~c.exists
  BY <1>2, <1>4, DoneFacts
<1> QED
  BY <1>3, <1>4

FailEffect(p) ==
    /\ proc[p].pc # "idle" /\ Frame(p) /\ Ends(p) /\ UnchangedStripe
    /\ UNCHANGED <<row, roles, dropped, relinked, edits>> /\ faults' = faults + 1
    /\ events' = IF proc[p].kind = "webhook" THEN events \union {proc[p].event} ELSE events
    /\ owed \subseteq owed' /\ owed' \subseteq {"admin"} \union Accounts
    /\ proc[p].kind = "admin" => "admin" \in owed'
    /\ proc[p].kind = "login" => {proc[p].account} \ {None} \subseteq owed'
    /\ orphaned' = orphaned \union
          IF proc[p].pc \in {"removeOld", "write"} THEN Touched(p) ELSE proc[p].touched

LEMMA FailFacts ==
    ASSUME TypeOK, NEW p \in Procs, Fail(p), proc[p].kind # "none"
    PROVE  FailEffect(p)
<1> USE DEF FailEffect
<1>1. proc[p] \in Handler /\ owed \subseteq {"admin"} \union Accounts
  BY DEF TypeOK
<1>2. proc[p].kind \in {"none", "webhook", "admin", "login"} /\ proc[p].account \in Accounts \union {None}
  BY <1>1 DEF Handler
<1>3. \E new \in SUBSET ({"admin"} \union Accounts) :
         /\ owed' = owed \union new
         /\ proc[p].kind = "admin" => new = {"admin"}
         /\ proc[p].kind = "login" => new = {proc[p].account} \ {None}
  <2>1. CASE proc[p].kind = "webhook"
    BY <1>2, <2>1 DEF Fail
  <2>2. CASE proc[p].kind = "admin"
    BY <1>2, <2>2 DEF Fail
  <2>3. CASE proc[p].kind = "login"
    BY <1>2, <2>3 DEF Fail
  <2> QED
    BY <1>2, <2>1, <2>2, <2>3
<1> QED
  BY <1>1, <1>3, DoneFacts DEF Fail, Free, stripeVars, UnchangedStripe

-----------------------------------------------------------------------------
(* D1 follows Stripe: every step preserves SInv. *)

LEMMA WebhookSettles ==
    ASSUME SInv, NEW p \in Procs, Webhook(p)
    PROVE  SInv'
<1> USE DEF SInv, Frame, GoesOn, Begins, Ends, UnchangedStripe, UnchangedRest, SameIdentity, SameBilling,
            SameVersion
<1>1. WebhookEffect(p)
  BY WebhookFacts
<1> USE DEF WebhookEffect
<1>2. TypeOK'
  BY <1>1 DEF TypeOK
<1>3. \A q \in Procs : KindFits(q)'
  BY <1>1 DEF KindFits, InLoop, FreshIsUnknown
<1>4. VersionsDiffer'
  <2>1. row.version \in Nat /\ \A q \in Procs : proc[q].version \in Nat
    BY DEF TypeOK, Row, Handler
  <2> QED
    BY <1>1, <2>1 DEF VersionsDiffer, Asking
<1>5. FreshIsUnknown'
  BY <1>1, ConstantsAssumption DEF FreshIsUnknown, TypeOK
<1>6. StaleIsSettled'
  BY <1>1 DEF StaleIsSettled, Settled, Settles, Told, Latest, Grants
<1>7. NoCustomer'
  BY <1>1 DEF NoCustomer, Grants
<1> QED
  BY <1>2, <1>3, <1>4, <1>5, <1>6, <1>7

LEMMA AdminSyncSettles ==
    ASSUME SInv, NEW p \in Procs, AdminSync(p)
    PROVE  SInv'
<1> USE DEF SInv, Frame, GoesOn, Begins, Ends, UnchangedStripe, UnchangedRest, SameIdentity, SameBilling,
            SameVersion
<1>1. AdminSyncEffect(p)
  BY AdminSyncFacts
<1> USE DEF AdminSyncEffect
<1>2. TypeOK'
  BY <1>1 DEF TypeOK
<1>3. \A q \in Procs : KindFits(q)'
  BY <1>1 DEF KindFits, InLoop
<1>4. VersionsDiffer'
  <2>1. row.version \in Nat /\ \A q \in Procs : proc[q].version \in Nat
    BY DEF TypeOK, Row, Handler
  <2> QED
    BY <1>1, <2>1 DEF VersionsDiffer, Asking
<1>5. FreshIsUnknown'
  BY <1>1, ConstantsAssumption DEF FreshIsUnknown, TypeOK
<1>6. StaleIsSettled'
  BY <1>1 DEF StaleIsSettled, Settled, Settles, Told, Latest, Grants
<1>7. NoCustomer'
  BY <1>1 DEF NoCustomer, Grants
<1> QED
  BY <1>2, <1>3, <1>4, <1>5, <1>6, <1>7

LEMMA AdminEditSettles ==
    ASSUME SInv, NEW p \in Procs, AdminEdit(p)
    PROVE  SInv'
<1> USE DEF SInv, Frame, GoesOn, Begins, Ends, UnchangedStripe, UnchangedRest, SameIdentity, SameBilling,
            SameVersion
<1>1. AdminEditEffect(p)
  BY AdminEditFacts
<1> USE DEF AdminEditEffect
<1>2. TypeOK'
  <2>1. (relinked /\ row'.customer = row.customer) \in BOOLEAN
    OBVIOUS
  <2>2. relinked' \in BOOLEAN
    BY <1>1, <2>1
  <2> QED
    BY <1>1, <2>2 DEF TypeOK
<1>3. \A q \in Procs : KindFits(q)'
  BY <1>1 DEF KindFits, InLoop
<1>4. VersionsDiffer'
  <2>1. row.version \in Nat /\ \A q \in Procs : proc[q].version \in Nat
    BY DEF TypeOK, Row, Handler
  <2> QED
    BY <1>1, <2>1 DEF VersionsDiffer, Asking
<1>5. FreshIsUnknown'
  BY <1>1, ConstantsAssumption DEF FreshIsUnknown, TypeOK
<1>6. StaleIsSettled'
  <2>1. CASE row'.customer # row.customer
    <3>1. Settles(p)'
      BY <1>1, <2>1 DEF Settles
    <3> QED
      BY <3>1 DEF StaleIsSettled, Settled
  <2>2. CASE row'.customer = row.customer
    <3>1. \A q \in Procs : Settles(q) => q # p /\ Settles(q)'
      BY <1>1, <2>2 DEF Settles, Latest, Grants
    <3>2. Settled => Settled'
      BY <1>1, <2>2, <3>1 DEF Settled, Told
    <3>3. ~relinked' => ~relinked
      BY <1>1, <2>2
    <3> QED
      BY <1>1, <2>2, <3>2, <3>3 DEF StaleIsSettled, Latest, Grants
  <2> QED
    BY <2>1, <2>2
<1>7. NoCustomer'
  BY <1>1 DEF NoCustomer, Grants
<1> QED
  BY <1>2, <1>3, <1>4, <1>5, <1>6, <1>7

LEMMA AdminDeleteSettles ==
    ASSUME SInv, NEW p \in Procs, AdminDelete(p)
    PROVE  SInv'
<1> USE DEF SInv, Frame, GoesOn, Begins, Ends, UnchangedStripe, UnchangedRest, SameIdentity, SameBilling,
            SameVersion
<1>1. AdminDeleteEffect(p)
  BY AdminDeleteFacts
<1> USE DEF AdminDeleteEffect
<1>2. TypeOK'
  BY <1>1 DEF TypeOK
<1>3. \A q \in Procs : KindFits(q)'
  BY <1>1 DEF KindFits, InLoop
<1>4. VersionsDiffer'
  <2>1. row.version \in Nat /\ \A q \in Procs : proc[q].version \in Nat
    BY DEF TypeOK, Row, Handler
  <2> QED
    BY <1>1, <2>1 DEF VersionsDiffer, Asking
<1>5. FreshIsUnknown'
  BY <1>1, ConstantsAssumption DEF FreshIsUnknown, TypeOK
<1>6. StaleIsSettled'
  BY <1>1 DEF StaleIsSettled, Settled, Settles, Told, Latest, Grants
<1>7. NoCustomer'
  BY <1>1 DEF NoCustomer, Grants
<1> QED
  BY <1>2, <1>3, <1>4, <1>5, <1>6, <1>7

LEMMA LoginSettles ==
    ASSUME SInv, NEW p \in Procs, Login(p)
    PROVE  SInv'
<1> USE DEF SInv, Frame, GoesOn, Begins, Ends, UnchangedStripe, UnchangedRest, SameIdentity, SameBilling,
            SameVersion
<1>1. LoginEffect(p)
  BY LoginFacts
<1> USE DEF LoginEffect
<1>2. TypeOK'
  <2>1. /\ owed' \subseteq owed /\ proc' \in [Procs -> Handler] /\ edits' = edits + 1
        /\ UNCHANGED <<sub, fresh, changes, events, row, roles, orphaned, dropped, relinked, faults>>
    BY <1>1
  <2> QED
    BY <2>1 DEF TypeOK
<1>3. \A q \in Procs : KindFits(q)'
  BY <1>1 DEF KindFits, InLoop
<1>4. VersionsDiffer'
  <2>1. row.version \in Nat /\ \A q \in Procs : proc[q].version \in Nat
    BY DEF TypeOK, Row, Handler
  <2> QED
    BY <1>1, <2>1 DEF VersionsDiffer, Asking
<1>5. FreshIsUnknown'
  BY <1>1, ConstantsAssumption DEF FreshIsUnknown, TypeOK
<1>6. StaleIsSettled'
  <2>1. "admin" \in owed => "admin" \in owed'
    BY <1>1, ConstantsAssumption
  <2>2. \A q \in Procs : Settles(q) => q # p /\ Settles(q)'
    BY <1>1 DEF Settles, Latest, Grants
  <2>3. Settled => Settled'
    BY <1>1, <2>1, <2>2 DEF Settled, Told
  <2> QED
    BY <1>1, <2>3 DEF StaleIsSettled, Latest, Grants
<1>7. NoCustomer'
  BY <1>1 DEF NoCustomer, Grants
<1> QED
  BY <1>2, <1>3, <1>4, <1>5, <1>6, <1>7

LEMMA RegisterSettles ==
    ASSUME SInv, NEW p \in Procs, Register(p)
    PROVE  SInv'
<1> USE DEF SInv, Frame, GoesOn, Begins, Ends, UnchangedStripe, UnchangedRest, SameIdentity, SameBilling,
            SameVersion
<1>1. RegisterEffect(p)
  BY RegisterFacts
<1> USE DEF RegisterEffect
<1>2. TypeOK'
  BY <1>1 DEF TypeOK
<1>3. \A q \in Procs : KindFits(q)'
  BY <1>1 DEF KindFits, InLoop
<1>4. VersionsDiffer'
  <2>1. row.version \in Nat /\ \A q \in Procs : proc[q].version \in Nat
    BY DEF TypeOK, Row, Handler
  <2> QED
    BY <1>1, <2>1 DEF VersionsDiffer, Asking
<1>5. FreshIsUnknown'
  BY <1>1, ConstantsAssumption DEF FreshIsUnknown, TypeOK
<1>6. StaleIsSettled'
  BY <1>1 DEF StaleIsSettled, Settled, Settles, Told, Latest, Grants
<1>7. NoCustomer'
  BY <1>1 DEF NoCustomer, Grants
<1> QED
  BY <1>2, <1>3, <1>4, <1>5, <1>6, <1>7

LEMMA RemoveOldSettles ==
    ASSUME SInv, NEW p \in Procs, RemoveOld(p)
    PROVE  SInv'
<1> USE DEF SInv, Frame, GoesOn, Begins, Ends, UnchangedStripe, UnchangedRest, SameIdentity, SameBilling,
            SameVersion
<1>0. proc[p].pc = "removeOld" /\ proc[p].kind = "admin" /\ proc[p].then \in {"bump", "read", "delete"}
  BY DEF KindFits, RemoveOld, At
<1>1. RemoveOldEffect(p)
  BY <1>0, RemoveOldFacts
<1> USE DEF RemoveOldEffect
<1>2. TypeOK'
  BY <1>0, <1>1 DEF TypeOK
<1>3. \A q \in Procs : KindFits(q)'
  BY <1>0, <1>1 DEF KindFits, InLoop
<1>4. VersionsDiffer'
  <2>1. row.version \in Nat /\ \A q \in Procs : proc[q].version \in Nat
    BY DEF TypeOK, Row, Handler
  <2> QED
    BY <1>0, <1>1, <2>1 DEF VersionsDiffer, Asking
<1>5. FreshIsUnknown'
  BY <1>0, <1>1, ConstantsAssumption DEF FreshIsUnknown, TypeOK
<1>6. StaleIsSettled'
  BY <1>0, <1>1 DEF StaleIsSettled, Settled, Settles, Told, Latest, Grants
<1>7. NoCustomer'
  BY <1>0, <1>1 DEF NoCustomer, Grants
<1> QED
  BY <1>2, <1>3, <1>4, <1>5, <1>6, <1>7

LEMMA DeleteSettles ==
    ASSUME SInv, NEW p \in Procs, Delete(p)
    PROVE  SInv'
<1> USE DEF SInv, Frame, GoesOn, Begins, Ends, UnchangedStripe, UnchangedRest, SameIdentity, SameBilling,
            SameVersion
<1>1. DeleteEffect(p)
  BY DeleteFacts
<1> USE DEF DeleteEffect
<1>2. TypeOK'
  BY <1>1 DEF TypeOK
<1>3. \A q \in Procs : KindFits(q)'
  BY <1>1 DEF KindFits, InLoop
<1>4. VersionsDiffer'
  <2>1. row.version \in Nat /\ \A q \in Procs : proc[q].version \in Nat
    BY DEF TypeOK, Row, Handler
  <2> QED
    BY <1>1, <2>1 DEF VersionsDiffer, Asking
<1>5. FreshIsUnknown'
  BY <1>1, ConstantsAssumption DEF FreshIsUnknown, TypeOK
<1>6. StaleIsSettled'
  BY <1>1 DEF StaleIsSettled, Settled, Settles, Told, Latest, Grants
<1>7. NoCustomer'
  BY <1>1 DEF NoCustomer, Grants
<1> QED
  BY <1>2, <1>3, <1>4, <1>5, <1>6, <1>7

LEMMA BumpSettles ==
    ASSUME SInv, NEW p \in Procs, Bump(p)
    PROVE  SInv'
<1> USE DEF SInv, Frame, GoesOn, Begins, Ends, UnchangedStripe, UnchangedRest, SameIdentity, SameBilling,
            SameVersion
<1>1. BumpEffect(p)
  BY BumpFacts
<1> USE DEF BumpEffect
<1>2. TypeOK'
  <2>1. (dropped \/ CustomerGone(p)) \in BOOLEAN
    OBVIOUS
  <2>2. dropped' \in BOOLEAN
    BY <1>1, <2>1
  <2> QED
    BY <1>1, <2>2 DEF TypeOK
<1>3. \A q \in Procs : KindFits(q)'
  BY <1>1 DEF KindFits, InLoop
<1>4. VersionsDiffer'
  <2>1. row.version \in Nat /\ \A q \in Procs : proc[q].version \in Nat
    BY DEF TypeOK, Row, Handler
  <2> QED
    BY <1>1, <2>1 DEF VersionsDiffer, Asking
<1>5. FreshIsUnknown'
  BY <1>1, ConstantsAssumption DEF FreshIsUnknown, TypeOK
<1>6. StaleIsSettled'
  BY <1>1 DEF StaleIsSettled, Settled, Settles, Told, Latest, Grants
<1>7. NoCustomer'
  BY <1>1 DEF NoCustomer, Grants
<1> QED
  BY <1>2, <1>3, <1>4, <1>5, <1>6, <1>7

LEMMA AskStripeSettles ==
    ASSUME SInv, NEW p \in Procs, AskStripe(p)
    PROVE  SInv'
<1> USE DEF SInv, Frame, GoesOn, Begins, Ends, UnchangedStripe, UnchangedRest, SameIdentity, SameBilling,
            SameVersion
<1>1. AskStripeEffect(p)
  BY AskStripeFacts
<1> USE DEF AskStripeEffect
<1>2. TypeOK'
  <2>1. (relinked /\ ~Latest(p)) \in BOOLEAN
    OBVIOUS
  <2>2. relinked' \in BOOLEAN
    BY <1>1, <2>1
  <2> QED
    BY <1>1, <2>2 DEF TypeOK
<1>3. \A q \in Procs : KindFits(q)'
  BY <1>1 DEF KindFits, InLoop
<1>4. VersionsDiffer'
  <2>1. row.version \in Nat /\ \A q \in Procs : proc[q].version \in Nat
    BY DEF TypeOK, Row, Handler
  <2> QED
    BY <1>1, <2>1 DEF VersionsDiffer, Asking
<1>5. FreshIsUnknown'
  BY <1>1, ConstantsAssumption DEF FreshIsUnknown, TypeOK
<1>6. StaleIsSettled'
  <2>1. CASE Latest(p)
    <3>1. Settles(p)'
      BY <1>1, <2>1 DEF Settles, Latest, Grants
    <3> QED
      BY <3>1 DEF StaleIsSettled, Settled
  <2>2. CASE ~Latest(p)
    <3>1. ~relinked' => ~relinked
      BY <1>1, <2>2
    <3> QED
      BY <1>1, <2>2, <3>1 DEF StaleIsSettled, Settled, Settles, Told, Latest, Grants
  <2> QED
    BY <2>1, <2>2
<1>7. NoCustomer'
  BY <1>1 DEF NoCustomer, Grants
<1> QED
  BY <1>2, <1>3, <1>4, <1>5, <1>6, <1>7

LEMMA StoreSettles ==
    ASSUME SInv, NEW p \in Procs, Store(p)
    PROVE  SInv'
<1> USE DEF SInv, Frame, GoesOn, Begins, Ends, UnchangedStripe, UnchangedRest, SameIdentity, SameBilling,
            SameVersion
<1>1. StoreEffect(p)
  BY StoreFacts
<1> USE DEF StoreEffect
<1>2. TypeOK'
  <2>1. (dropped \/ CustomerGone(p)) \in BOOLEAN
    OBVIOUS
  <2>2. dropped' \in BOOLEAN
    BY <1>1, <2>1
  <2> QED
    BY <1>1, <2>2 DEF TypeOK
<1>3. \A q \in Procs : KindFits(q)'
  BY <1>1 DEF KindFits, InLoop
<1>4. VersionsDiffer'
  <2>1. row.version \in Nat /\ \A q \in Procs : proc[q].version \in Nat
    BY DEF TypeOK, Row, Handler
  <2> QED
    BY <1>1, <2>1 DEF VersionsDiffer, Asking
<1>5. FreshIsUnknown'
  BY <1>1, ConstantsAssumption DEF FreshIsUnknown, TypeOK
<1>6. StaleIsSettled'
  <2>1. \A q \in Procs \ {p} : Settles(q) => Settles(q)'
    BY <1>1 DEF Settles, Latest, Grants
  <2>2. Told => Told'
    BY <1>1 DEF Told
  <2>3. CASE NotSuperseded(p)
    <3>1. \A q \in Procs \ {p} : proc[q].pc = "store" => ~Latest(q)
      BY <1>1, <2>3 DEF VersionsDiffer, Asking, Latest, NotSuperseded
    <3>2. CASE proc[p].active = Grants(row.customer)
      BY <1>1, <2>3, <3>1, <3>2 DEF StaleIsSettled, Latest, Grants
    <3>3. CASE proc[p].active # Grants(row.customer)
      <4>1. ~Settles(p)
        BY <1>1, <2>3, <3>3 DEF Settles, Latest, NotSuperseded
      <4>2. ~relinked => Settled
        BY <1>1, <2>3, <3>3 DEF StaleIsSettled, Latest, NotSuperseded
      <4> QED
        BY <1>1, <2>1, <2>2, <4>1, <4>2 DEF StaleIsSettled, Settled
    <3> QED
      BY <3>2, <3>3
  <2>4. CASE ~NotSuperseded(p)
    <3>1. row.exists => ~Settles(p)
      BY <1>1, <2>4 DEF Settles, Latest, NotSuperseded
    <3>2. row.exists /\ Settled => Settled'
      BY <2>1, <2>2, <3>1 DEF Settled
    <3> QED
      BY <1>1, <2>4, <3>2 DEF StaleIsSettled, Latest, Grants
  <2> QED
    BY <2>3, <2>4
<1>7. NoCustomer'
  BY <1>1 DEF NoCustomer, Grants, NotSuperseded
<1> QED
  BY <1>2, <1>3, <1>4, <1>5, <1>6, <1>7

LEMMA ReadSettles ==
    ASSUME SInv, NEW p \in Procs, Read(p)
    PROVE  SInv'
<1> USE DEF SInv, Frame, GoesOn, Begins, Ends, UnchangedStripe, UnchangedRest, SameIdentity, SameBilling,
            SameVersion
<1>1. ReadEffect(p)
  BY ReadFacts
<1> USE DEF ReadEffect
<1>2. TypeOK'
  BY <1>1 DEF TypeOK
<1>3. \A q \in Procs : KindFits(q)'
  BY <1>1 DEF KindFits, InLoop
<1>4. VersionsDiffer'
  <2>1. row.version \in Nat /\ \A q \in Procs : proc[q].version \in Nat
    BY DEF TypeOK, Row, Handler
  <2> QED
    BY <1>1, <2>1 DEF VersionsDiffer, Asking
<1>5. FreshIsUnknown'
  BY <1>1, ConstantsAssumption DEF FreshIsUnknown, TypeOK
<1>6. StaleIsSettled'
  BY <1>1 DEF StaleIsSettled, Settled, Settles, Told, Latest, Grants
<1>7. NoCustomer'
  BY <1>1 DEF NoCustomer, Grants
<1> QED
  BY <1>2, <1>3, <1>4, <1>5, <1>6, <1>7

LEMMA WriteSettles ==
    ASSUME SInv, NEW p \in Procs, Write(p)
    PROVE  SInv'
<1> USE DEF SInv, Frame, GoesOn, Begins, Ends, UnchangedStripe, UnchangedRest, SameIdentity, SameBilling,
            SameVersion
<1>1. WriteEffect(p)
  BY WriteFacts
<1> USE DEF WriteEffect
<1>2. TypeOK'
  BY <1>1 DEF TypeOK, SetRole, Handler
<1>3. \A q \in Procs : KindFits(q)'
  BY <1>1 DEF KindFits, InLoop
<1>4. VersionsDiffer'
  <2>1. row.version \in Nat /\ \A q \in Procs : proc[q].version \in Nat
    BY DEF TypeOK, Row, Handler
  <2> QED
    BY <1>1, <2>1 DEF VersionsDiffer, Asking
<1>5. FreshIsUnknown'
  BY <1>1, ConstantsAssumption DEF FreshIsUnknown, TypeOK
<1>6. StaleIsSettled'
  BY <1>1 DEF StaleIsSettled, Settled, Settles, Told, Latest, Grants
<1>7. NoCustomer'
  BY <1>1 DEF NoCustomer, Grants
<1> QED
  BY <1>2, <1>3, <1>4, <1>5, <1>6, <1>7

LEMMA CheckSettles ==
    ASSUME SInv, NEW p \in Procs, Check(p)
    PROVE  SInv'
<1> USE DEF SInv, Frame, GoesOn, Begins, Ends, UnchangedStripe, UnchangedRest, SameIdentity, SameBilling,
            SameVersion
<1>1. CheckEffect(p)
  BY CheckFacts
<1> USE DEF CheckEffect
<1>2. TypeOK'
  BY <1>1 DEF TypeOK
<1>3. \A q \in Procs : KindFits(q)'
  BY <1>1 DEF KindFits, InLoop
<1>4. VersionsDiffer'
  <2>1. row.version \in Nat /\ \A q \in Procs : proc[q].version \in Nat
    BY DEF TypeOK, Row, Handler
  <2> QED
    BY <1>1, <2>1 DEF VersionsDiffer, Asking
<1>5. FreshIsUnknown'
  BY <1>1, ConstantsAssumption DEF FreshIsUnknown, TypeOK
<1>6. StaleIsSettled'
  <2>1. \A q \in Procs : Settles(q) => q # p /\ Settles(q)'
    BY <1>1 DEF Settles, Latest, Grants
  <2>2. Settled => Settled'
    BY <1>1, <2>1 DEF Settled, Told
  <2> QED
    BY <1>1, <2>2 DEF StaleIsSettled, Latest, Grants
<1>7. NoCustomer'
  BY <1>1 DEF NoCustomer, Grants
<1> QED
  BY <1>2, <1>3, <1>4, <1>5, <1>6, <1>7

LEMMA RemoveSettles ==
    ASSUME SInv, NEW p \in Procs, Remove(p)
    PROVE  SInv'
<1> USE DEF SInv, Frame, GoesOn, Begins, Ends, UnchangedStripe, UnchangedRest, SameIdentity, SameBilling,
            SameVersion
<1>1. RemoveEffect(p)
  BY RemoveFacts
<1> USE DEF RemoveEffect
<1>2. TypeOK'
  BY <1>1 DEF TypeOK
<1>3. \A q \in Procs : KindFits(q)'
  BY <1>1 DEF KindFits, InLoop
<1>4. VersionsDiffer'
  <2>1. row.version \in Nat /\ \A q \in Procs : proc[q].version \in Nat
    BY DEF TypeOK, Row, Handler
  <2> QED
    BY <1>1, <2>1 DEF VersionsDiffer, Asking
<1>5. FreshIsUnknown'
  BY <1>1, ConstantsAssumption DEF FreshIsUnknown, TypeOK
<1>6. StaleIsSettled'
  BY <1>1 DEF StaleIsSettled, Settled, Settles, Told, Latest, Grants
<1>7. NoCustomer'
  BY <1>1 DEF NoCustomer, Grants
<1> QED
  BY <1>2, <1>3, <1>4, <1>5, <1>6, <1>7

LEMMA FailSettles ==
    ASSUME SInv, NEW p \in Procs, Fail(p)
    PROVE  SInv'
<1> USE DEF SInv, Frame, GoesOn, Begins, Ends, UnchangedStripe, UnchangedRest, SameIdentity, SameBilling,
            SameVersion
<1>0. proc[p].kind # "none"
  BY DEF KindFits, Fail, Free
<1>1. FailEffect(p)
  BY <1>0, FailFacts
<1> USE DEF FailEffect
<1>2. TypeOK'
  <2>1. orphaned' \subseteq Accounts
    BY <1>1 DEF TypeOK, Touched, Handler
  <2>2. events' \subseteq Events
    BY <1>1 DEF TypeOK, Handler
  <2> QED
    BY <1>1, <2>1, <2>2 DEF TypeOK
<1>3. \A q \in Procs : KindFits(q)'
  BY <1>1 DEF KindFits, InLoop
<1>4. VersionsDiffer'
  <2>1. row.version \in Nat /\ \A q \in Procs : proc[q].version \in Nat
    BY DEF TypeOK, Row, Handler
  <2> QED
    BY <1>1, <2>1 DEF VersionsDiffer, Asking
<1>5. FreshIsUnknown'
  <2>1. None \notin fresh
    BY ConstantsAssumption DEF TypeOK
  <2>2. \A e \in events' : e.customer \notin fresh /\ e.customer # None
    BY <1>1 DEF FreshIsUnknown, KindFits
  <2> QED
    BY <1>1, <2>1, <2>2 DEF FreshIsUnknown
<1>6. StaleIsSettled'
  <2>1. \A q \in Procs \ {p} : Settles(q) => Settles(q)'
    BY <1>1 DEF Settles, Latest, Grants
  <2>2. Told => Told'
    BY <1>1 DEF Told
  <2>3. Settles(p) => Told'
    <3>1. Settles(p) => \/ proc[p].kind = "admin"
                        \/ proc[p].kind = "webhook" /\ proc[p].customer = row.customer
      <4>1. proc[p].kind \in {"none", "webhook", "admin", "login"}
        BY DEF TypeOK, Handler
      <4>2. proc[p].kind = "login" => ~Settles(p)
        BY DEF KindFits, InLoop, Settles
      <4>3. proc[p].pc \in {"removeOld", "delete"} => proc[p].kind = "admin"
        BY DEF KindFits
      <4>4. CASE proc[p].kind = "webhook"
        BY <4>3, <4>4 DEF Settles, Latest, KindFits
      <4> QED
        BY <1>0, <4>1, <4>2, <4>4
    <3>2. proc[p].kind = "webhook" => proc[p].event.customer = proc[p].customer
      BY DEF KindFits
    <3> QED
      BY <1>1, <3>1, <3>2 DEF Told
  <2>4. Settled => Settled'
    BY <2>1, <2>2, <2>3 DEF Settled
  <2> QED
    BY <1>1, <2>4 DEF StaleIsSettled, Latest, Grants
<1>7. NoCustomer'
  BY <1>1 DEF NoCustomer, Grants
<1> QED
  BY <1>2, <1>3, <1>4, <1>5, <1>6, <1>7

LEMMA SubscriptionChangesSettles ==
    ASSUME SInv, SubscriptionChanges
    PROVE  SInv'
<1> USE DEF SInv
<1>1. PICK c \in Customers \ fresh, link \in BOOLEAN :
         /\ sub' = [sub EXCEPT ![c] = ~@]
         /\ events' = events \union {[id |-> changes + 1, customer |-> c, link |-> link]}
         /\ changes' = changes + 1
  BY DEF SubscriptionChanges
<1>2. UNCHANGED <<fresh, row, roles, proc, owed, orphaned, dropped, relinked, edits, faults>>
  BY DEF SubscriptionChanges, ghostVars, countVars
<1> DEFINE e == [id |-> changes + 1, customer |-> c, link |-> link]
<1>3. e \in Events /\ e.customer = c /\ e \in events' /\ events \subseteq events'
  BY <1>1 DEF TypeOK, Events
<1> HIDE DEF e
<1>4. \A d \in Customers : d # c => sub'[d] = sub[d]
  BY <1>1 DEF TypeOK
<1>5. TypeOK'
  <2>1. events' \subseteq Events
    BY <1>1, <1>3 DEF TypeOK, e
  <2> QED
    BY <1>1, <1>2, <2>1 DEF TypeOK
<1>6. (\A q \in Procs : KindFits(q)') /\ VersionsDiffer'
  BY <1>2 DEF KindFits, InLoop, VersionsDiffer, Asking
<1>7. FreshIsUnknown'
  <2>1. \A f \in events' : f \in events \/ f.customer = c
    BY <1>1
  <2>2. c # None /\ c \notin fresh /\ fresh \subseteq Customers
    BY ConstantsAssumption DEF TypeOK
  <2> QED
    BY <1>2, <1>4, <2>1, <2>2 DEF FreshIsUnknown
<1>8. StaleIsSettled'
  <2>1. CASE row.customer = c
    BY <1>2, <1>3, <2>1 DEF StaleIsSettled, Settled, Told
  <2>2. CASE row.customer # c
    <3>1. Grants(row.customer)' = Grants(row.customer)
      BY <1>2, <1>4, <2>2 DEF Grants, TypeOK, Row
    <3>2. Settled => Settled'
      BY <1>2, <1>3, <3>1 DEF Settled, Told, Settles, Latest
    <3> QED
      BY <1>2, <3>1, <3>2 DEF StaleIsSettled, Latest
  <2> QED
    BY <2>1, <2>2
<1>9. NoCustomer'
  BY <1>2 DEF NoCustomer
<1> QED
  BY <1>5, <1>6, <1>7, <1>8, <1>9

LEMMA LinkCustomerFacts ==
    ASSUME TypeOK, LinkCustomer
    PROVE  \E c \in Customers :
              /\ row.customer = None /\ fresh' = fresh \ {c} /\ row' \in Row
              /\ row'.customer = c /\ SameIdentity /\ row'.active = row.active /\ row'.version = row.version
              /\ relinked' = (c \notin fresh)
              /\ UNCHANGED <<sub, changes, events, roles, proc, owed, orphaned, dropped, edits, faults>>
<1>1. PICK c \in Customers : /\ fresh' = fresh \ {c} /\ row' = [row EXCEPT !.customer = c]
                             /\ relinked' = (c \notin fresh)
  BY DEF LinkCustomer
<1>2. row \in Row
  BY DEF TypeOK
<1>3. row' \in Row /\ row'.customer = c /\ SameIdentity /\ row'.active = row.active
      /\ row'.version = row.version
  BY <1>1, <1>2 DEF Row, SameIdentity
<1> QED
  BY <1>1, <1>3 DEF LinkCustomer, ghostVars, countVars

(* A new customer has no subscription and no handler knows it; of one that *)
(* is recovered nothing is claimed.                                        *)
LEMMA LinkCustomerSettles ==
    ASSUME SInv, LinkCustomer
    PROVE  SInv'
<1> USE DEF SInv, SameIdentity
<1>1. PICK c \in Customers :
         /\ row.customer = None /\ fresh' = fresh \ {c} /\ row' \in Row
         /\ row'.customer = c /\ SameIdentity /\ row'.active = row.active /\ row'.version = row.version
         /\ relinked' = (c \notin fresh)
         /\ UNCHANGED <<sub, changes, events, roles, proc, owed, orphaned, dropped, edits, faults>>
  BY LinkCustomerFacts
<1>2. c # None
  BY ConstantsAssumption
<1>3. TypeOK'
  <2>1. relinked' \in BOOLEAN
    BY <1>1
  <2> QED
    BY <1>1, <2>1 DEF TypeOK
<1>4. (\A q \in Procs : KindFits(q)') /\ VersionsDiffer'
  BY <1>1 DEF KindFits, InLoop, VersionsDiffer, Asking
<1>5. FreshIsUnknown'
  BY <1>1 DEF FreshIsUnknown
<1>6. StaleIsSettled'
  <2>1. CASE c \notin fresh
    BY <1>1, <2>1 DEF StaleIsSettled
  <2>2. CASE c \in fresh
    <3>1. row.active = FALSE /\ Grants(c) = FALSE
      BY <1>1, <2>2 DEF NoCustomer, FreshIsUnknown, Grants, TypeOK, Row
    <3>2. row'.active = FALSE /\ Grants(row.customer)' = FALSE
      BY <1>1, <3>1 DEF Grants
    <3>3. \A q \in Procs : ~Latest(q)'
      BY <1>1, <2>2 DEF FreshIsUnknown, Latest
    <3> QED
      BY <3>2, <3>3 DEF StaleIsSettled
  <2> QED
    BY <2>1, <2>2
<1>7. NoCustomer'
  BY <1>1, <1>2 DEF NoCustomer
<1> QED
  BY <1>3, <1>4, <1>5, <1>6, <1>7

LEMMA InitSettled == Init => SInv
<1> SUFFICES ASSUME Init PROVE SInv
  OBVIOUS
<1>1. PICK a \in Accounts \union {None}, c \in Customers \union {None} :
         row = [exists |-> TRUE, account |-> a, customer |-> c, active |-> Grants(c), version |-> 0]
  BY DEF Init
<1>2. /\ row \in Row /\ row.exists /\ row.account = a /\ row.customer = c
      /\ row.active = Grants(c) /\ row.version = 0
  BY <1>1 DEF Init, Grants, Row
<1>3. \A p \in Procs : proc[p] = Idle
  BY DEF Init
<1>4. /\ Idle.kind = "none" /\ Idle.pc = "idle" /\ Idle.customer = None /\ Idle.version = 0
  BY DEF Idle
<1>5. TypeOK
  <2>1. roles \subseteq Accounts
    BY <1>2 DEF Init
  <2>2. fresh \subseteq Customers
    BY DEF Init
  <2> QED
    BY <1>2, <2>1, <2>2, IdleType DEF Init, TypeOK
<1>6. FreshIsUnknown
  BY <1>2, <1>3, <1>4, ConstantsAssumption DEF Init, FreshIsUnknown
<1>7. (\A p \in Procs : KindFits(p)) /\ VersionsDiffer
  BY <1>2, <1>3, <1>4 DEF KindFits, InLoop, VersionsDiffer, Asking
<1>8. StaleIsSettled
  BY <1>2, <1>3, <1>4 DEF StaleIsSettled
<1>9. NoCustomer
  BY <1>2, <1>3, <1>4 DEF NoCustomer, Grants
<1> QED
  BY <1>5, <1>6, <1>7, <1>8, <1>9 DEF SInv

LEMMA NextSettles == SInv /\ [Next]_vars => SInv'
<1> SUFFICES ASSUME SInv, [Next]_vars PROVE SInv'
  OBVIOUS
<1>1. ASSUME NEW p \in Procs,
             \/ Webhook(p) \/ AdminSync(p) \/ AdminEdit(p) \/ AdminDelete(p) \/ Login(p)
             \/ Register(p) \/ RemoveOld(p) \/ Delete(p)
             \/ Bump(p) \/ AskStripe(p) \/ Store(p)
             \/ Read(p) \/ Write(p) \/ Check(p) \/ Remove(p)
             \/ Fail(p)
      PROVE  SInv'
  BY <1>1, WebhookSettles, AdminSyncSettles, AdminEditSettles, AdminDeleteSettles, LoginSettles,
     RegisterSettles, RemoveOldSettles, DeleteSettles, BumpSettles, AskStripeSettles, StoreSettles,
     ReadSettles, WriteSettles, CheckSettles, RemoveSettles, FailSettles
<1>2. CASE UNCHANGED vars
  BY <1>2 DEF vars, stripeVars, ghostVars, countVars, SInv, TypeOK, KindFits, InLoop, VersionsDiffer,
     Asking, FreshIsUnknown, StaleIsSettled, Settled, Settles, Told, Latest, Grants, NoCustomer
<1> QED
  BY <1>1, <1>2, SubscriptionChangesSettles, LinkCustomerSettles DEF Next

-----------------------------------------------------------------------------
(* The roles follow D1: every step preserves RInv. *)

LEMMA WebhookMends ==
    ASSUME IInv, NEW p \in Procs, Webhook(p)
    PROVE  RInv'
<1> USE DEF IInv, SInv, RInv, Frame, GoesOn, Begins, Ends, UnchangedStripe, UnchangedRest, SameIdentity,
            SameBilling, SameVersion, SameAccount, SameTouched
<1>1. WebhookEffect(p)
  BY WebhookFacts
<1> USE DEF WebhookEffect
<1>2. RoleIsMended'
  <2>1. \A q \in Procs : Mends(q) => Mends(q)'
    BY <1>1 DEF KindFits, Mends, Kept, Marked, Touched, Satisfied
  <2>2. row.exists /\ Told => Told' \/ Mends(p)'
    BY <1>1 DEF Told, Mends, Kept
  <2>3. Asked => Asked'
    BY <1>1 DEF Asked, Asks
  <2>4. row.exists /\ Mended => Mended'
    BY <2>1, <2>2 DEF Mended
  <2> QED
    BY <1>1, <2>3, <2>4 DEF RoleIsMended
<1>3. OthersAreRemoved'
  BY <1>1 DEF OthersAreRemoved
<1>4. LoopKnows'
  BY <1>1 DEF LoopKnows, Touched
<1>5. NoAccount'
  BY <1>1 DEF NoAccount
<1> QED
  BY <1>2, <1>3, <1>4, <1>5

LEMMA AdminSyncMends ==
    ASSUME IInv, NEW p \in Procs, AdminSync(p)
    PROVE  RInv'
<1> USE DEF IInv, SInv, RInv, Frame, GoesOn, Begins, Ends, UnchangedStripe, UnchangedRest, SameIdentity,
            SameBilling, SameVersion, SameAccount, SameTouched
<1>1. AdminSyncEffect(p)
  BY AdminSyncFacts
<1> USE DEF AdminSyncEffect
<1>2. RoleIsMended'
  BY <1>1 DEF RoleIsMended, Mended, Asked, Mends, Asks, Told, Kept, Marked, Touched, Satisfied
<1>3. OthersAreRemoved'
  BY <1>1 DEF OthersAreRemoved
<1>4. LoopKnows'
  BY <1>1 DEF LoopKnows, Touched
<1>5. NoAccount'
  BY <1>1 DEF NoAccount
<1> QED
  BY <1>2, <1>3, <1>4, <1>5

LEMMA AdminEditMends ==
    ASSUME IInv, NEW p \in Procs, AdminEdit(p)
    PROVE  RInv'
<1> USE DEF IInv, SInv, RInv, Frame, GoesOn, Begins, Ends, UnchangedStripe, UnchangedRest, SameIdentity,
            SameBilling, SameVersion, SameAccount, SameTouched
<1>1. AdminEditEffect(p)
  BY AdminEditFacts
<1> USE DEF AdminEditEffect
<1>2. RoleIsMended'
  BY <1>1 DEF RoleIsMended, Mended, Asked, Mends, Asks, Told, Kept, Marked, Touched, Satisfied
<1>3. OthersAreRemoved'
  BY <1>1 DEF OthersAreRemoved
<1>4. LoopKnows'
  BY <1>1 DEF LoopKnows, Touched
<1>5. NoAccount'
  BY <1>1 DEF NoAccount
<1> QED
  BY <1>2, <1>3, <1>4, <1>5

LEMMA AdminDeleteMends ==
    ASSUME IInv, NEW p \in Procs, AdminDelete(p)
    PROVE  RInv'
<1> USE DEF IInv, SInv, RInv, Frame, GoesOn, Begins, Ends, UnchangedStripe, UnchangedRest, SameIdentity,
            SameBilling, SameVersion, SameAccount, SameTouched
<1>1. AdminDeleteEffect(p)
  BY AdminDeleteFacts
<1> USE DEF AdminDeleteEffect
<1>2. RoleIsMended'
  BY <1>1 DEF RoleIsMended, Mended, Asked, Mends, Asks, Told, Kept, Marked, Touched, Satisfied
<1>3. OthersAreRemoved'
  BY <1>1 DEF OthersAreRemoved
<1>4. LoopKnows'
  BY <1>1 DEF LoopKnows, Touched
<1>5. NoAccount'
  BY <1>1 DEF NoAccount
<1> QED
  BY <1>2, <1>3, <1>4, <1>5

LEMMA LoginMends ==
    ASSUME IInv, NEW p \in Procs, Login(p)
    PROVE  RInv'
<1> USE DEF IInv, SInv, RInv, Frame, GoesOn, Begins, Ends, UnchangedStripe, UnchangedRest, SameIdentity,
            SameBilling, SameVersion, SameAccount, SameTouched
<1>1. LoginEffect(p)
  BY LoginFacts
<1> USE DEF LoginEffect
<1>2. RoleIsMended'
  <2>1. \A q \in Procs : q # p => proc'[q] = proc[q]
    BY <1>1
  <2>2. \A q \in Procs : (Mends(q) => Mends(q)') /\ (Asks(q) => Asks(q)')
    BY <1>1, <2>1 DEF Asks, Mends, Kept, Marked, Touched, Satisfied
  <2>3. Mended => Mended'
    BY <1>1, <2>2, ConstantsAssumption DEF Mended, Told
  <2>4. row.account \in Accounts \ roles /\ Asked => Asked'
    BY <1>1, <2>2 DEF Asked, Asks
  <2> QED
    BY <1>1, <2>3, <2>4 DEF RoleIsMended
<1>3. OthersAreRemoved'
  BY <1>1 DEF OthersAreRemoved
<1>4. LoopKnows'
  BY <1>1 DEF LoopKnows, Touched
<1>5. NoAccount'
  BY <1>1 DEF NoAccount
<1> QED
  BY <1>2, <1>3, <1>4, <1>5

LEMMA RegisterMends ==
    ASSUME IInv, NEW p \in Procs, Register(p)
    PROVE  RInv'
<1> USE DEF IInv, SInv, RInv, Frame, GoesOn, Begins, Ends, UnchangedStripe, UnchangedRest, SameIdentity,
            SameBilling, SameVersion, SameAccount, SameTouched
<1>1. RegisterEffect(p)
  BY RegisterFacts
<1> USE DEF RegisterEffect
<1>2. RoleIsMended'
  <2>1. KindFits(p) /\ proc[p].kind = "login"
    BY <1>1 DEF KindFits
  <2>2. CASE row.account = None
    <3>1. roles = {} /\ ~proc[p].granted
      BY <1>1, <2>2 DEF NoAccount
    <3>2. row.exists /\ row.active => Asks(p)'
      BY <1>1, <2>1, <2>2, <3>1 DEF Asks
    <3> QED
      BY <1>1, <3>1, <3>2 DEF RoleIsMended, Asked
  <2>3. CASE row.account # None
    <3>1. row'.account = row.account
      BY <1>1, <2>3
    <3>2. \A q \in Procs : Mends(q) => Mends(q)'
      BY <1>1, <3>1 DEF Mends, Kept, Marked, Touched, Satisfied
    <3>3. Mended => Mended'
      BY <1>1, <3>2 DEF Mended, Told
    <3>4. \A q \in Procs : row.exists /\ row.active /\ Asks(q) => Asks(q)'
      BY <1>1, <3>1 DEF Asks
    <3>5. row.exists /\ row.active /\ Asked => Asked'
      BY <1>1, <3>1, <3>4 DEF Asked
    <3> QED
      BY <1>1, <3>1, <3>3, <3>5 DEF RoleIsMended
  <2> QED
    BY <2>2, <2>3
<1>3. OthersAreRemoved'
  <2>1. CASE row.account = None
    BY <1>1, <2>1 DEF OthersAreRemoved, NoAccount
  <2>2. CASE row.account # None
    <3>1. row'.account = row.account
      BY <1>1, <2>2
    <3> QED
      BY <1>1, <3>1 DEF OthersAreRemoved
  <2> QED
    BY <2>1, <2>2
<1>4. LoopKnows'
  BY <1>1 DEF LoopKnows, Touched
<1>5. NoAccount'
  BY <1>1 DEF NoAccount
<1> QED
  BY <1>2, <1>3, <1>4, <1>5

LEMMA RemoveOldMends ==
    ASSUME IInv, NEW p \in Procs, RemoveOld(p)
    PROVE  RInv'
<1> USE DEF IInv, SInv, RInv, Frame, GoesOn, Begins, Ends, UnchangedStripe, UnchangedRest, SameIdentity,
            SameBilling, SameVersion, SameAccount, SameTouched
<1>0. proc[p].pc = "removeOld" /\ proc[p].kind = "admin" /\ proc[p].then \in {"bump", "read", "delete"}
  BY DEF KindFits, RemoveOld, At, IInv, SInv
<1>1. RemoveOldEffect(p)
  BY <1>0, RemoveOldFacts
<1> USE DEF RemoveOldEffect
<1>2. RoleIsMended'
  BY <1>0, <1>1 DEF RoleIsMended, Mended, Asked, Mends, Asks, Told, Kept, Marked, Touched, Satisfied
<1>3. OthersAreRemoved'
  BY <1>0, <1>1 DEF OthersAreRemoved
<1>4. LoopKnows'
  BY <1>0, <1>1 DEF LoopKnows, Touched
<1>5. NoAccount'
  BY <1>0, <1>1 DEF NoAccount
<1> QED
  BY <1>2, <1>3, <1>4, <1>5

LEMMA DeleteMends ==
    ASSUME IInv, NEW p \in Procs, Delete(p)
    PROVE  RInv'
<1> USE DEF IInv, SInv, RInv, Frame, GoesOn, Begins, Ends, UnchangedStripe, UnchangedRest, SameIdentity,
            SameBilling, SameVersion, SameAccount, SameTouched
<1>1. DeleteEffect(p)
  BY DeleteFacts
<1> USE DEF DeleteEffect
<1>2. RoleIsMended'
  BY <1>1 DEF RoleIsMended, Mended, Asked, Mends, Asks, Told, Kept, Marked, Touched, Satisfied
<1>3. OthersAreRemoved'
  BY <1>1 DEF OthersAreRemoved
<1>4. LoopKnows'
  BY <1>1 DEF LoopKnows, Touched
<1>5. NoAccount'
  BY <1>1 DEF NoAccount
<1> QED
  BY <1>2, <1>3, <1>4, <1>5

LEMMA BumpMends ==
    ASSUME IInv, NEW p \in Procs, Bump(p)
    PROVE  RInv'
<1> USE DEF IInv, SInv, RInv, Frame, GoesOn, Begins, Ends, UnchangedStripe, UnchangedRest, SameIdentity,
            SameBilling, SameVersion, SameAccount, SameTouched
<1>1. BumpEffect(p)
  BY BumpFacts
<1> USE DEF BumpEffect
<1>2. RoleIsMended'
  <2>1. proc[p].kind \in {"admin", "webhook"}
    BY <1>1 DEF KindFits, InLoop, TypeOK, Handler
  <2>2. CASE row.exists /\ row.customer = proc[p].customer
    <3>1. Mends(p)'
      BY <1>1, <2>1, <2>2 DEF Mends, Kept
    <3> QED
      BY <3>1 DEF RoleIsMended, Mended
  <2>3. CASE ~(row.exists /\ row.customer = proc[p].customer)
    BY <1>1, <2>3 DEF RoleIsMended, CustomerGone
  <2> QED
    BY <2>2, <2>3
<1>3. OthersAreRemoved'
  BY <1>1 DEF OthersAreRemoved
<1>4. LoopKnows'
  BY <1>1 DEF LoopKnows, Touched
<1>5. NoAccount'
  BY <1>1 DEF NoAccount
<1> QED
  BY <1>2, <1>3, <1>4, <1>5

LEMMA AskStripeMends ==
    ASSUME IInv, NEW p \in Procs, AskStripe(p)
    PROVE  RInv'
<1> USE DEF IInv, SInv, RInv, Frame, GoesOn, Begins, Ends, UnchangedStripe, UnchangedRest, SameIdentity,
            SameBilling, SameVersion, SameAccount, SameTouched
<1>1. AskStripeEffect(p)
  BY AskStripeFacts
<1> USE DEF AskStripeEffect
<1>2. RoleIsMended'
  <2>1. \A q \in Procs : q # p => (Mends(q) => Mends(q)') /\ (Asks(q) => Asks(q)')
    BY <1>1 DEF Asks, Mends, Kept, Marked, Touched, Satisfied
  <2>2. (Mends(p) => Mends(p)') /\ ~Asks(p)
    BY <1>1 DEF Asks, Mends, Kept, Marked, Touched, Satisfied
  <2>3. (Mended => Mended') /\ (Asked => Asked')
    BY <1>1, <2>1, <2>2 DEF Mended, Asked, Told
  <2> QED
    BY <1>1, <2>3 DEF RoleIsMended
<1>3. OthersAreRemoved'
  BY <1>1 DEF OthersAreRemoved
<1>4. LoopKnows'
  BY <1>1 DEF LoopKnows, Touched
<1>5. NoAccount'
  BY <1>1 DEF NoAccount
<1> QED
  BY <1>2, <1>3, <1>4, <1>5

LEMMA StoreMends ==
    ASSUME IInv, NEW p \in Procs, Store(p)
    PROVE  RInv'
<1> USE DEF IInv, SInv, RInv, Frame, GoesOn, Begins, Ends, UnchangedStripe, UnchangedRest, SameIdentity,
            SameBilling, SameVersion, SameAccount, SameTouched
<1>1. StoreEffect(p)
  BY StoreFacts
<1> USE DEF StoreEffect
<1>2. RoleIsMended'
  <2>1. proc[p].kind \in {"admin", "webhook"}
    BY <1>1 DEF KindFits, InLoop, TypeOK, Handler
  <2>2. CASE NotSuperseded(p)
    <3>1. Mends(p)'
      BY <1>1, <2>1, <2>2 DEF Mends, Kept, NotSuperseded
    <3> QED
      BY <3>1 DEF RoleIsMended, Mended
  <2>3. CASE CustomerGone(p)
    BY <1>1, <2>3 DEF RoleIsMended
  <2>4. CASE ~NotSuperseded(p) /\ ~CustomerGone(p) /\ row.exists
    <3>1. \A q \in Procs : q # p => (Mends(q) => Mends(q)') /\ (Asks(q) => Asks(q)')
      BY <1>1, <2>4 DEF Asks, Mends, Kept, Marked, Touched, Satisfied
    <3>2. ~Mends(p) /\ ~Asks(p)
      BY <1>1, <2>4 DEF Mends, Asks, NotSuperseded, CustomerGone
    <3>3. (Mended => Mended') /\ (Asked => Asked')
      BY <1>1, <2>4, <3>1, <3>2 DEF Mended, Asked, Told
    <3> QED
      BY <1>1, <2>4, <3>3 DEF RoleIsMended
  <2>5. CASE ~row.exists
    BY <1>1, <2>5 DEF RoleIsMended
  <2> QED
    BY <2>2, <2>3, <2>4, <2>5
<1>3. OthersAreRemoved'
  BY <1>1 DEF OthersAreRemoved
<1>4. LoopKnows'
  BY <1>1 DEF LoopKnows, Touched
<1>5. NoAccount'
  BY <1>1 DEF NoAccount
<1> QED
  BY <1>2, <1>3, <1>4, <1>5

LEMMA ReadMends ==
    ASSUME IInv, NEW p \in Procs, Read(p)
    PROVE  RInv'
<1> USE DEF IInv, SInv, RInv, Frame, GoesOn, Begins, Ends, UnchangedStripe, UnchangedRest, SameIdentity,
            SameBilling, SameVersion, SameAccount, SameTouched
<1>1. ReadEffect(p)
  BY ReadFacts
<1> USE DEF ReadEffect
<1>2. RoleIsMended'
  <2>1. row.account \in Accounts /\ row.exists => Mends(p)'
    BY <1>1, ConstantsAssumption DEF Mends, Kept, Marked, Touched, Satisfied
  <2> QED
    BY <1>1, <2>1 DEF RoleIsMended, Mended
<1>3. OthersAreRemoved'
  BY <1>1 DEF OthersAreRemoved
<1>4. LoopKnows'
  BY <1>1 DEF LoopKnows, Touched
<1>5. NoAccount'
  BY <1>1 DEF NoAccount
<1> QED
  BY <1>2, <1>3, <1>4, <1>5

LEMMA WriteMends ==
    ASSUME IInv, NEW p \in Procs, Write(p)
    PROVE  RInv'
<1> USE DEF IInv, SInv, RInv, Frame, GoesOn, Begins, Ends, UnchangedStripe, UnchangedRest, SameIdentity,
            SameBilling, SameVersion, SameAccount, SameTouched
<1>1. WriteEffect(p)
  BY WriteFacts
<1> USE DEF WriteEffect
<1>2. RoleIsMended'
  <2>1. \A q \in Procs : q # p => (Mends(q) => Mends(q)') /\ (Asks(q) => Asks(q)')
    BY <1>1 DEF Asks, Mends, Kept, Marked, Touched, Satisfied
  <2>2. proc[p].granted \in BOOLEAN /\ row.active \in BOOLEAN
    BY DEF TypeOK, Handler, Row
  <2>3. CASE proc[p].account = row.account
    <3>1. CASE proc[p].granted = row.active
      BY <1>1, <2>3, <3>1, ConstantsAssumption DEF RoleIsMended, SetRole
    <3>2. CASE proc[p].granted # row.active
      <4>1. row.account \in Accounts => Mends(p)'
        BY <1>1, <2>3, <3>2, ConstantsAssumption DEF Mends, Kept, Marked, Touched, Satisfied
      <4> QED
        BY <1>1, <4>1 DEF RoleIsMended, Mended
    <3> QED
      BY <3>1, <3>2
  <2>4. CASE proc[p].account # row.account
    <3>1. (Mends(p) => Mends(p)') /\ ~Asks(p)
      BY <1>1, <2>4 DEF Asks, Mends, Kept, Marked, Touched, Satisfied
    <3>2. (Mended => Mended') /\ (Asked => Asked')
      BY <1>1, <2>1, <3>1 DEF Mended, Asked, Told
    <3>3. row.account \in roles' <=> row.account \in roles
      BY <1>1, <2>4 DEF SetRole
    <3>4. row.account \in orphaned <=> row.account \in orphaned'
      BY <1>1, <2>4
    <3> QED
      BY <1>1, <3>2, <3>3, <3>4 DEF RoleIsMended
  <2> QED
    BY <2>3, <2>4
<1>3. OthersAreRemoved'
  <2> SUFFICES ASSUME NEW a \in (roles' \ orphaned') \ {row'.account}
               PROVE  \E q \in Procs : /\ proc'[q].account = a
                                       /\ proc'[q].pc \in {"removeOld", "write", "check", "remove"}
    BY DEF OthersAreRemoved
  <2>1. CASE a = proc[p].account
    BY <1>1, <2>1
  <2>2. CASE a # proc[p].account
    <3>1. a \in (roles \ orphaned) \ {row.account}
      BY <1>1, <2>2 DEF SetRole
    <3>2. PICK q \in Procs : proc[q].account = a /\ proc[q].pc \in {"removeOld", "write", "check", "remove"}
      BY <3>1 DEF OthersAreRemoved
    <3>3. proc'[q] = proc[q]
      BY <1>1, <2>2, <3>2
    <3> QED
      BY <3>2, <3>3
  <2> QED
    BY <2>1, <2>2
<1>4. LoopKnows'
  BY <1>1 DEF LoopKnows, Touched
<1>5. NoAccount'
  <2>1. row.account = None => roles' = {}
    BY <1>1 DEF NoAccount, SetRole
  <2> QED
    BY <1>1, <2>1 DEF NoAccount
<1> QED
  BY <1>2, <1>3, <1>4, <1>5

LEMMA CheckMends ==
    ASSUME IInv, NEW p \in Procs, Check(p)
    PROVE  RInv'
<1> USE DEF IInv, SInv, RInv, Frame, GoesOn, Begins, Ends, UnchangedStripe, UnchangedRest, SameIdentity,
            SameBilling, SameVersion, SameAccount, SameTouched
<1>1. CheckEffect(p)
  BY CheckFacts
<1> USE DEF CheckEffect
<1>2. RoleIsMended'
  <2>1. \A q \in Procs : q # p => (Mends(q) => Mends(q)') /\ (Asks(q) => Asks(q)')
    BY <1>1 DEF Asks, Mends, Kept, Marked, Touched, Satisfied
  <2>2. Asks(p) = FALSE
    BY <1>1 DEF Asks
  <2>3. row.exists /\ Mends(p) => Mends(p)'
    BY <1>1 DEF Mends, Kept, Marked, Touched, Satisfied
  <2>4. (row.exists /\ Mended => Mended') /\ (Asked => Asked')
    BY <1>1, <2>1, <2>2, <2>3 DEF Mended, Asked, Told
  <2> QED
    BY <1>1, <2>4 DEF RoleIsMended
<1>3. OthersAreRemoved'
  BY <1>1 DEF OthersAreRemoved
<1>4. LoopKnows'
  BY <1>1 DEF LoopKnows, Touched
<1>5. NoAccount'
  BY <1>1 DEF NoAccount
<1> QED
  BY <1>2, <1>3, <1>4, <1>5

LEMMA RemoveMends ==
    ASSUME IInv, NEW p \in Procs, Remove(p)
    PROVE  RInv'
<1> USE DEF IInv, SInv, RInv, Frame, GoesOn, Begins, Ends, UnchangedStripe, UnchangedRest, SameIdentity,
            SameBilling, SameVersion, SameAccount, SameTouched
<1>1. RemoveEffect(p)
  BY RemoveFacts
<1> USE DEF RemoveEffect
<1>2. RoleIsMended'
  <2>1. \A q \in Procs : q # p => (Mends(q) => Mends(q)') /\ (Asks(q) => Asks(q)')
    BY <1>1 DEF Asks, Mends, Kept, Marked, Touched, Satisfied
  <2>2. Asks(p) = FALSE
    BY <1>1 DEF Asks
  <2>3. row.exists => proc[p].current.exists
    BY <1>1 DEF LoopKnows
  <2>4. row.exists /\ Mends(p) => Mends(p)'
    BY <1>1, <2>3 DEF Mends, Kept, Marked, Touched, Satisfied
  <2>5. row.exists /\ row.account = proc[p].account /\ row.account \in Accounts => Mends(p)'
    BY <1>1, <2>3, ConstantsAssumption DEF Mends, Kept, Marked, Touched, Satisfied
  <2>6. (row.exists /\ Mended => Mended') /\ (Asked => Asked')
    BY <1>1, <2>1, <2>2, <2>4 DEF Mended, Asked, Told
  <2>7. CASE row.account = proc[p].account
    BY <1>1, <2>5, <2>7 DEF RoleIsMended, Mended
  <2>8. CASE row.account # proc[p].account
    BY <1>1, <2>6, <2>8 DEF RoleIsMended
  <2> QED
    BY <2>7, <2>8
<1>3. OthersAreRemoved'
  BY <1>1 DEF OthersAreRemoved
<1>4. LoopKnows'
  BY <1>1 DEF LoopKnows, Touched
<1>5. NoAccount'
  BY <1>1 DEF NoAccount
<1> QED
  BY <1>2, <1>3, <1>4, <1>5

LEMMA FailMends ==
    ASSUME IInv, NEW p \in Procs, Fail(p)
    PROVE  RInv'
<1> USE DEF IInv, SInv, RInv, Frame, GoesOn, Begins, Ends, UnchangedStripe, UnchangedRest, SameIdentity,
            SameBilling, SameVersion, SameAccount, SameTouched
<1>0. proc[p].kind # "none"
  BY DEF KindFits, Fail, Free, IInv, SInv
<1>1. FailEffect(p)
  BY <1>0, FailFacts
<1> USE DEF FailEffect
<1>2. RoleIsMended'
  <2>1. \A q \in Procs : q # p => (Mends(q) => Mends(q)') /\ (Asks(q) => Asks(q)')
    BY <1>1 DEF Asks, Mends, Kept, Marked, Touched, Satisfied
  <2>2. Asks(p) => row.account \in owed' \/ row.account = None
    BY <1>1 DEF Asks
  <2>3. Kept(p, row.account) => Told' \/ row.account \in orphaned'
    BY <1>1 DEF Kept, Marked, Told, KindFits
  <2>4. (Told => Told') /\ owed \subseteq owed' /\ orphaned \subseteq orphaned'
    BY <1>1 DEF Told
  <2>5. Mended => Mended' \/ row.account \in orphaned'
    BY <2>1, <2>3, <2>4 DEF Mended, Mends
  <2>6. row.account \in Accounts /\ Asked => Asked'
    BY <1>1, <2>1, <2>2, <2>4, ConstantsAssumption DEF Asked
  <2> QED
    BY <1>1, <2>4, <2>5, <2>6 DEF RoleIsMended
<1>3. OthersAreRemoved'
  <2> SUFFICES ASSUME NEW a \in (roles' \ orphaned') \ {row'.account}
               PROVE  \E q \in Procs : /\ proc'[q].account = a
                                       /\ proc'[q].pc \in {"removeOld", "write", "check", "remove"}
    BY DEF OthersAreRemoved
  <2>1. a \in (roles \ orphaned) \ {row.account} /\ a # None
    BY <1>1, ConstantsAssumption DEF TypeOK
  <2>2. PICK q \in Procs : proc[q].account = a /\ proc[q].pc \in {"removeOld", "write", "check", "remove"}
    BY <2>1 DEF OthersAreRemoved
  <2>3. q # p
    BY <1>1, <2>1, <2>2 DEF LoopKnows, Touched
  <2> QED
    BY <1>1, <2>2, <2>3
<1>4. LoopKnows'
  BY <1>0, <1>1 DEF LoopKnows, Touched
<1>5. NoAccount'
  BY <1>0, <1>1 DEF NoAccount
<1> QED
  BY <1>2, <1>3, <1>4, <1>5

LEMMA SubscriptionChangesMends ==
    ASSUME IInv, SubscriptionChanges
    PROVE  RInv'
<1> USE DEF IInv, SInv, RInv
<1>1. /\ UNCHANGED <<row, roles, proc, owed, orphaned, dropped, relinked>>
      /\ \A e \in events : e \in events'
  BY DEF SubscriptionChanges, ghostVars
<1>2. RoleIsMended'
  <2>1. (Mended => Mended') /\ (Asked => Asked')
    BY <1>1 DEF Mended, Asked, Told, Asks, Mends, Kept, Marked, Touched, Satisfied
  <2> QED
    BY <1>1, <2>1 DEF RoleIsMended
<1>3. OthersAreRemoved' /\ LoopKnows' /\ NoAccount'
  BY <1>1 DEF OthersAreRemoved, LoopKnows, NoAccount
<1> QED
  BY <1>2, <1>3

LEMMA LinkCustomerMends ==
    ASSUME IInv, LinkCustomer
    PROVE  RInv'
<1> USE DEF IInv, SInv, RInv, SameIdentity
<1>1. PICK c \in Customers :
         /\ row.customer = None /\ fresh' = fresh \ {c} /\ row' \in Row
         /\ row'.customer = c /\ SameIdentity /\ row'.active = row.active /\ row'.version = row.version
         /\ relinked' = (c \notin fresh)
         /\ UNCHANGED <<sub, changes, events, roles, proc, owed, orphaned, dropped, edits, faults>>
  BY LinkCustomerFacts
<1>2. RoleIsMended'
  <2>1. \A q \in Procs : (Mends(q) => Mends(q)') /\ (Asks(q) => Asks(q)')
    BY <1>1 DEF KindFits, Asks, Mends, Kept, Marked, Touched, Satisfied
  <2>2. Told => Told'
    BY <1>1 DEF Told, FreshIsUnknown
  <2>3. (Mended => Mended') /\ (Asked => Asked')
    BY <1>1, <2>1, <2>2 DEF Mended, Asked
  <2> QED
    BY <1>1, <2>3 DEF RoleIsMended
<1>3. OthersAreRemoved' /\ LoopKnows' /\ NoAccount'
  BY <1>1 DEF OthersAreRemoved, LoopKnows, NoAccount
<1> QED
  BY <1>2, <1>3

LEMMA InitMended == Init => RInv
<1> SUFFICES ASSUME Init PROVE RInv
  OBVIOUS
<1>1. roles = IF row.active THEN {row.account} \ {None} ELSE {}
  BY DEF Init
<1>2. \A p \in Procs : proc[p] = Idle
  BY DEF Init
<1>3. Idle.pc = "idle" /\ Idle.account = None /\ Idle.current.account = None
  BY DEF Idle
<1>4. RoleIsMended
  BY <1>1, ConstantsAssumption DEF RoleIsMended
<1>5. OthersAreRemoved
  BY <1>1 DEF OthersAreRemoved
<1>6. LoopKnows /\ NoAccount
  BY <1>1, <1>2, <1>3 DEF LoopKnows, NoAccount
<1> QED
  BY <1>4, <1>5, <1>6 DEF RInv

LEMMA NextMends == IInv /\ [Next]_vars => RInv'
<1> SUFFICES ASSUME IInv, [Next]_vars PROVE RInv'
  OBVIOUS
<1>1. ASSUME NEW p \in Procs,
             \/ Webhook(p) \/ AdminSync(p) \/ AdminEdit(p) \/ AdminDelete(p) \/ Login(p)
             \/ Register(p) \/ RemoveOld(p) \/ Delete(p)
             \/ Bump(p) \/ AskStripe(p) \/ Store(p)
             \/ Read(p) \/ Write(p) \/ Check(p) \/ Remove(p)
             \/ Fail(p)
      PROVE  RInv'
  BY <1>1, WebhookMends, AdminSyncMends, AdminEditMends, AdminDeleteMends, LoginMends,
     RegisterMends, RemoveOldMends, DeleteMends, BumpMends, AskStripeMends, StoreMends,
     ReadMends, WriteMends, CheckMends, RemoveMends, FailMends
<1>2. CASE UNCHANGED vars
  <2>1. UNCHANGED <<events, row, roles, proc, owed, orphaned, dropped, relinked>>
    BY <1>2 DEF vars, ghostVars
  <2> QED
    BY <2>1 DEF IInv, RInv, RoleIsMended, OthersAreRemoved, LoopKnows, NoAccount, Mended, Asked, Told,
       Asks, Mends, Kept, Marked, Touched, Satisfied
<1> QED
  BY <1>1, <1>2, SubscriptionChangesMends, LinkCustomerMends DEF Next

LEMMA Inductive == Spec => []IInv
<1>1. Init => IInv
  BY InitSettled, InitMended DEF IInv
<1>2. IInv /\ [Next]_vars => IInv'
  BY NextSettles, NextMends DEF IInv
<1> QED
  BY <1>1, <1>2, PTL DEF Spec

(* Every variable has its type: a row, a handler and a webhook event are   *)
(* never missing a field, and only accounts have roles.                    *)
THEOREM TypeCorrect == Spec => []TypeOK
<1>1. IInv => TypeOK
  BY DEF IInv, SInv
<1> QED
  BY <1>1, Inductive, PTL

(* When all is quiet nobody is left who would put D1 right, so it is.      *)
THEOREM StateFollowsStripeHolds == Spec => []StateFollowsStripe
<1>1. IInv => StateFollowsStripe
  <2> SUFFICES ASSUME IInv, Quiet, row.exists, ~relinked PROVE row.active = Grants(row.customer)
    BY DEF StateFollowsStripe
  <2>1. \A p \in Procs : ~Settles(p)
    BY DEF Quiet, Free, Settles
  <2>2. ~Settled
    BY <2>1 DEF Quiet, Settled, Told
  <2> QED
    BY <2>2 DEF IInv, SInv, StaleIsSettled
<1> QED
  BY <1>1, Inductive, PTL

(* When all is quiet nobody is left who would put a role right, so the     *)
(* roles are right, but for the accounts of which nothing is claimed.      *)
THEOREM RolesFollowStateHolds == Spec => []RolesFollowState
<1>1. IInv => RolesFollowState
  <2> SUFFICES ASSUME IInv, Quiet, NEW a \in Accounts \ orphaned,
                      ~(a = row.account /\ (dropped \/ ~row.exists))
               PROVE  a \in roles <=> Entitled(a)
    BY DEF RolesFollowState
  <2>1. \A p \in Procs : proc[p].pc = "idle"
    BY DEF Quiet, Free
  <2>2. CASE a = row.account
    <3>1. ~Mended /\ ~Asked
      BY <2>1 DEF Quiet, Mended, Asked, Told, Mends, Asks
    <3>2. row.active \in BOOLEAN
      BY DEF IInv, SInv, TypeOK, Row
    <3> QED
      BY <2>2, <3>1, <3>2 DEF IInv, RInv, RoleIsMended, Entitled
  <2>3. CASE a # row.account
    BY <2>1, <2>3 DEF IInv, RInv, OthersAreRemoved, Entitled
  <2> QED
    BY <2>2, <2>3
<1> QED
  BY <1>1, Inductive, PTL

=============================================================================
