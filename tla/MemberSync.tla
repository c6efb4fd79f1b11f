----------------------------- MODULE MemberSync -----------------------------
(***************************************************************************)
(* One member between Stripe, D1 and Discord: syncMember, syncDiscordRole, *)
(* webhookCustomer and stripeWebhook (site/src/billing.ts), updateMember,  *)
(* /sync and /delete (admin.tsx), registerMember and callback (auth.ts)    *)
(* and the customer link of checkoutLink.                                  *)
(*                                                                         *)
(* Handlers run concurrently in Worker invocations and interleave between  *)
(* any two requests they await; D1 statements are atomic.  A webhook that  *)
(* fails is delivered again, in any order.  An admin or a user who is      *)
(* shown an error tries again.  A failure before a request has no effect   *)
(* of that request, a failure after it is one before the next.             *)
(***************************************************************************)
EXTENDS Integers

CONSTANTS
    Procs,      \* Worker invocations
    Accounts,   \* Discord accounts the member uses
    Customers,  \* Stripe customers
    None,       \* SQL NULL
    MaxChanges, \* bound: subscription changes at Stripe
    MaxEdits,   \* bound: admin and login requests
    MaxFaults   \* bound: failed invocations

ASSUME ConstantsAssumption ==
    /\ None \notin Accounts /\ "admin" \notin Accounts /\ None \notin Customers
    /\ MaxChanges \in Nat /\ MaxEdits \in Nat /\ MaxFaults \in Nat

VARIABLES
    sub,       \* Stripe: does the customer's subscription grant membership
    fresh,     \* customers not created yet
    events,    \* webhook events not acknowledged and not being handled
    row,       \* the member's row in D1
    roles,     \* the accounts with the member role
    proc,      \* the handlers
    owed,      \* an admin, or an account's owner, was shown an error and has not retried
    orphaned,  \* accounts whose role a dead handler was busy with, and that were not written since
    dropped,   \* a sync gave up because the customer had been changed
    relinked,  \* a checkout recovered the row's customer, and no sync has looked it up since
    changes, edits, faults

stripeVars == <<sub, fresh, changes>>
countVars  == <<edits, faults>>
ghostVars  == <<orphaned, dropped, relinked>>
vars == <<stripeVars, events, row, roles, proc, owed, ghostVars, countVars>>

NoEvent == [id |-> 0, customer |-> None, link |-> FALSE]
Idle == [kind |-> "none", pc |-> "idle", then |-> "none", event |-> NoEvent, customer |-> None,
         version |-> 0, active |-> FALSE, account |-> None, granted |-> FALSE,
         current |-> [account |-> None, granted |-> FALSE, exists |-> FALSE],
         touched |-> {}]

Events == [id : Nat, customer : Customers \union {None}, link : BOOLEAN]

Row == [exists : BOOLEAN, account : Accounts \union {None}, customer : Customers \union {None},
        active : BOOLEAN, version : Nat]

\* What an invocation knows and where it is.
Handler ==
    [kind : {"none", "webhook", "admin", "login"},
     pc : {"idle", "removeOld", "bump", "stripe", "store", "read", "write", "check",
           "remove", "delete", "register"},
     then : {"none", "bump", "read", "delete"}, event : Events,
     customer : Customers \union {None}, version : Nat, active : BOOLEAN,
     account : Accounts \union {None}, granted : BOOLEAN,
     current : [account : Accounts \union {None}, granted : BOOLEAN, exists : BOOLEAN],
     touched : SUBSET Accounts]

TypeOK ==
    /\ sub \in [Customers -> BOOLEAN] /\ fresh \subseteq Customers
    /\ events \subseteq Events
    /\ row \in Row
    /\ roles \subseteq Accounts /\ orphaned \subseteq Accounts /\ dropped \in BOOLEAN
    /\ relinked \in BOOLEAN
    /\ owed \subseteq {"admin"} \union Accounts
    /\ proc \in [Procs -> Handler]
    /\ changes \in Nat /\ edits \in Nat /\ faults \in Nat

Grants(c) == c # None /\ sub[c]

Init ==
    /\ sub \in [Customers -> BOOLEAN]
    /\ \E a \in Accounts \union {None}, c \in Customers \union {None} :
         row = [exists |-> TRUE, account |-> a, customer |-> c,
                active |-> Grants(c), version |-> 0]
    /\ fresh = {c \in Customers : ~sub[c]} \ {row.customer}
    /\ roles = IF row.active THEN {row.account} \ {None} ELSE {}
    /\ events = {} /\ proc = [p \in Procs |-> Idle]
    /\ owed = {} /\ orphaned = {} /\ dropped = FALSE /\ relinked = FALSE
    /\ changes = 0 /\ edits = 0 /\ faults = 0

-----------------------------------------------------------------------------
(* Stripe *)

\* A checkout that started before its customer was linked names the member.
SubscriptionChanges ==
    /\ changes < MaxChanges /\ changes' = changes + 1
    /\ \E c \in Customers \ fresh, link \in BOOLEAN :
         /\ sub' = [sub EXCEPT ![c] = ~@]
         /\ events' = events \union {[id |-> changes', customer |-> c, link |-> link]}
    /\ UNCHANGED <<fresh, row, roles, proc, owed, ghostVars, countVars>>

-----------------------------------------------------------------------------
(* Where the handlers start *)

Become(p, state) == proc' = [proc EXCEPT ![p] = state]
Free(p) == proc[p].pc = "idle"
Request(p) == Free(p) /\ edits < MaxEdits /\ edits' = edits + 1

(* stripeWebhook: link the customer and look up its member in one batch;   *)
(* an event without a member is acknowledged.                              *)
Webhook(p) ==
    /\ Free(p)
    /\ \E e \in events :
         LET linked == IF e.link /\ row.customer = None THEN e.customer ELSE row.customer IN
         /\ events' = events \ {e}
         /\ row' = IF row.exists THEN [row EXCEPT !.customer = linked] ELSE row
         /\ IF row.exists /\ linked = e.customer
            THEN Become(p, [Idle EXCEPT !.kind = "webhook", !.pc = "bump", !.event = e,
                                        !.customer = e.customer])
            ELSE UNCHANGED proc
    /\ UNCHANGED <<stripeVars, roles, owed, ghostVars, countVars>>

(* POST /sync, which is also what an admin does about an error.            *)
AdminSync(p) ==
    /\ Request(p) /\ row.exists
    /\ Become(p, [Idle EXCEPT !.kind = "admin", !.pc = "bump", !.customer = row.customer])
    /\ owed' = owed \ {"admin"}
    /\ UNCHANGED <<stripeVars, events, row, roles, ghostVars, faults>>

(* updateMember: the row is replaced at once; the old account's role, and  *)
(* Stripe and Discord, follow.                                             *)
AdminEdit(p) ==
    /\ Request(p) /\ row.exists
    /\ \E a \in Accounts \union {None}, c \in (Customers \ fresh) \union {None} :
         /\ a = None => row.account = None
         /\ row' = [row EXCEPT !.account = a, !.customer = c,
                               !.active = IF c = row.customer THEN @ ELSE FALSE]
         /\ LET follow == IF c # row.customer THEN "bump" ELSE "read" IN
            \/ a # row.account
               /\ Become(p, [Idle EXCEPT !.kind = "admin", !.pc = "removeOld", !.then = follow,
                                         !.account = row.account, !.customer = c])
            \/ a = row.account /\ c # row.customer
               /\ Become(p, [Idle EXCEPT !.kind = "admin", !.pc = "bump", !.customer = c])
         /\ relinked' = (relinked /\ c = row.customer)
    /\ UNCHANGED <<stripeVars, events, roles, owed, orphaned, dropped, faults>>

(* POST /delete: first the role, then the row.                             *)
AdminDelete(p) ==
    /\ Request(p) /\ row.exists
    /\ Become(p, [Idle EXCEPT !.kind = "admin", !.pc = "removeOld", !.then = "delete",
                              !.account = row.account])
    /\ owed' = owed \ {"admin"}
    /\ UNCHANGED <<stripeVars, events, row, roles, ghostVars, faults>>

\* callback reads the account's guild roles before it registers the member.
Login(p) ==
    /\ Request(p)
    /\ \E a \in Accounts :
         /\ Become(p, [Idle EXCEPT !.kind = "login", !.pc = "register", !.account = a,
                                   !.granted = a \in roles])
         /\ owed' = owed \ {a}
    /\ UNCHANGED <<stripeVars, events, row, roles, ghostVars, faults>>

(* checkoutLink links a customer in one conditional update: a new one, or  *)
(* one that it recovers from the sessions of the last 24 hours, here any.  *)
(* It syncs neither, and a recovered one's webhooks may be long over.      *)
LinkCustomer ==
    /\ row.exists /\ row.customer = None
    /\ \E c \in Customers :
         /\ row' = [row EXCEPT !.customer = c]
         /\ fresh' = fresh \ {c}
         /\ relinked' = (c \notin fresh)
    /\ UNCHANGED <<sub, changes, events, roles, proc, owed, orphaned, dropped, countVars>>

-----------------------------------------------------------------------------
(* How they go on; each step is one awaited request *)

At(p, pc) == proc[p].pc = pc
Goto(p, pc) == Become(p, [proc[p] EXCEPT !.pc = pc])
Done(p) == Become(p, Idle)
Else == UNCHANGED <<stripeVars, events, owed, countVars>>

\* registerMember; somebody else's account makes another row.
Register(p) ==
    /\ At(p, "register")
    /\ LET mine == row.exists /\ row.account \in {None, proc[p].account} IN
       /\ row' = IF mine THEN [row EXCEPT !.account = proc[p].account] ELSE row
       /\ IF mine /\ row.active /\ ~proc[p].granted THEN Goto(p, "read") ELSE Done(p)
    /\ UNCHANGED <<roles, ghostVars>> /\ Else

\* Ghost: the accounts whose role this handler has set or removed.
Touched(p) == proc[p].touched \union ({proc[p].account} \ {None})

RemoveOld(p) ==
    /\ At(p, "removeOld")
    /\ roles' = roles \ {proc[p].account}
    /\ Become(p, [proc[p] EXCEPT !.pc = proc[p].then, !.touched = Touched(p)])
    /\ orphaned' = orphaned \ {proc[p].account}
    /\ UNCHANGED <<row, dropped, relinked>> /\ Else

Delete(p) ==
    /\ At(p, "delete")
    /\ row' = [row EXCEPT !.exists = FALSE]
    /\ Done(p)
    /\ UNCHANGED <<roles, ghostVars>> /\ Else

CustomerGone(p) == row.exists /\ row.customer # proc[p].customer

Bump(p) ==
    /\ At(p, "bump")
    /\ IF row.exists /\ row.customer = proc[p].customer
       THEN /\ row' = [row EXCEPT !.version = @ + 1]
            /\ Become(p, [proc[p] EXCEPT !.pc = "stripe", !.version = row.version + 1])
       ELSE UNCHANGED row /\ Done(p)
    /\ dropped' = (dropped \/ CustomerGone(p))
    /\ UNCHANGED <<roles, orphaned, relinked>> /\ Else

Latest(p) == proc[p].customer = row.customer /\ proc[p].version = row.version

AskStripe(p) ==
    /\ At(p, "stripe")
    /\ Become(p, [proc[p] EXCEPT !.pc = "store", !.active = Grants(proc[p].customer)])
    /\ relinked' = (relinked /\ ~Latest(p))
    /\ UNCHANGED <<row, roles, orphaned, dropped>> /\ Else

\* Mutant: any lookup may publish its result.
UnchangedCustomer(p) == row.exists /\ row.customer = proc[p].customer

NotSuperseded(p) == row.exists /\ row.customer = proc[p].customer /\ row.version = proc[p].version

\* The store, and pushFobs, which reports no failure.
Store(p) ==
    /\ At(p, "store")
    /\ IF NotSuperseded(p)
       THEN row' = [row EXCEPT !.active = proc[p].active] /\ Goto(p, "read")
       ELSE UNCHANGED row /\ Done(p)
    /\ dropped' = (dropped \/ CustomerGone(p))
    /\ UNCHANGED <<roles, orphaned, relinked>> /\ Else

Snapshot == [account |-> row.account, granted |-> row.active, exists |-> row.exists]

Read(p) ==
    /\ At(p, "read")
    /\ IF row.exists
       THEN Become(p, [proc[p] EXCEPT !.pc = "write", !.account = row.account, !.granted = row.active])
       ELSE Done(p)
    /\ UNCHANGED <<row, roles, ghostVars>> /\ Else

\* setDiscordRole; without an account there is nothing to do.
SetRole(a, granted) == IF granted THEN roles \union ({a} \ {None}) ELSE roles \ {a}

Write(p) ==
    /\ At(p, "write")
    /\ roles' = SetRole(proc[p].account, proc[p].granted)
    /\ Become(p, [proc[p] EXCEPT !.pc = "check", !.touched = Touched(p)])
    /\ orphaned' = orphaned \ {proc[p].account}
    /\ UNCHANGED <<row, dropped, relinked>> /\ Else

\* Mutant: the role is set once and not compared with D1 again.
CheckNothing(p) == At(p, "check") /\ Done(p) /\ UNCHANGED <<row, roles, ghostVars>> /\ Else

\* Mutant: only the subscription is compared, not the account.
CheckSubscription(p) ==
    /\ At(p, "check")
    /\ IF row.exists /\ row.active # proc[p].granted
       THEN Become(p, [proc[p] EXCEPT !.pc = "write", !.account = row.account, !.granted = row.active])
       ELSE Done(p)
    /\ UNCHANGED <<row, roles, ghostVars>> /\ Else

(* syncDiscordRole reads D1 again: another account, or none, loses the     *)
(* role; then the write is repeated unless D1 says what was written.       *)
Check(p) ==
    /\ At(p, "check")
    /\ LET moved == ~row.exists \/ row.account # proc[p].account IN
       \/ moved /\ Become(p, [proc[p] EXCEPT !.pc = "remove", !.current = Snapshot])
       \/ ~moved /\ row.active = proc[p].granted /\ Done(p)
       \/ ~moved /\ row.active # proc[p].granted
          /\ Become(p, [proc[p] EXCEPT !.pc = "write", !.granted = row.active])
    /\ UNCHANGED <<row, roles, ghostVars>> /\ Else

Remove(p) ==
    /\ At(p, "remove")
    /\ roles' = roles \ {proc[p].account}
    /\ LET current == proc[p].current IN
       IF current.exists
       THEN Become(p, [proc[p] EXCEPT !.pc = "write", !.account = current.account,
                                      !.granted = current.granted, !.current = Idle.current,
                                      !.touched = Touched(p)])
       ELSE Done(p)
    /\ orphaned' = orphaned \ {proc[p].account}
    /\ UNCHANGED <<row, dropped, relinked>> /\ Else

(* Stripe, Discord or D1 fails, or the invocation ends.  Stripe delivers   *)
(* the event again; a person is shown an error.                            *)
Fail(p) ==
    /\ ~Free(p) /\ faults < MaxFaults /\ faults' = faults + 1
    /\ events' = IF proc[p].kind = "webhook" THEN events \union {proc[p].event} ELSE events
    /\ owed' = owed \union CASE proc[p].kind = "webhook" -> {}
                            [] proc[p].kind = "admin"   -> {"admin"}
                            [] proc[p].kind = "login"   -> {proc[p].account} \ {None}
    /\ orphaned' = orphaned \union
                   IF proc[p].pc \in {"removeOld", "write"} THEN Touched(p) ELSE proc[p].touched
    /\ Done(p)
    /\ UNCHANGED <<stripeVars, row, roles, dropped, relinked, edits>>

Next ==
    \/ SubscriptionChanges \/ LinkCustomer
    \/ \E p \in Procs :
         \/ Webhook(p) \/ AdminSync(p) \/ AdminEdit(p) \/ AdminDelete(p) \/ Login(p)
         \/ Register(p) \/ RemoveOld(p) \/ Delete(p)
         \/ Bump(p) \/ AskStripe(p) \/ Store(p)
         \/ Read(p) \/ Write(p) \/ Check(p) \/ Remove(p)
         \/ Fail(p)

Spec == Init /\ [][Next]_vars

-----------------------------------------------------------------------------
(* Properties *)

\* Nothing is running, waiting for delivery, or waiting for a person to retry.
Quiet == (\A p \in Procs : Free(p)) /\ events = {} /\ owed = {}

(* Once all is quiet D1 has the subscription that Stripe has, whatever     *)
(* order lookups and stores finished in and whichever of them failed       *)
(* (stripe_sync_version: "only the latest started Stripe lookup may        *)
(* publish its result", migrations/0009).  No claim is made of a customer  *)
(* that a checkout recovered until a sync looks it up: nobody is bound to. *)
StateFollowsStripe ==
    Quiet /\ row.exists /\ ~relinked => row.active = Grants(row.customer)

Entitled(a) == row.exists /\ row.active /\ a = row.account

(* Once all is quiet exactly the member's present account has the role,    *)
(* and only if D1 says so, whatever order the role requests of concurrent  *)
(* handlers took effect in (billing.ts: "a late write repairs itself").    *)
(* No claim is made of an account with whose role a handler was busy when  *)
(* it died and that no handler has written since, nor of the present one   *)
(* if the member was deleted or a sync gave up on a changed customer.      *)
RolesFollowState ==
    Quiet => \A a \in Accounts \ orphaned :
        \/ a \in roles <=> Entitled(a)
        \/ a = row.account /\ (dropped \/ ~row.exists)

(* billing.ts:30-31: "A late write repairs itself against current D1       *)
(* state, including account transfers and member deletion."  Once all is   *)
(* quiet a deleted member's account does not have the role.                *)
DeletionRemovesRole == Quiet /\ ~row.exists => row.account \notin roles

=============================================================================
