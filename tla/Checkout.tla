------------------------------ MODULE Checkout ------------------------------
(***************************************************************************)
(* Checkout links (site/src/billing.ts, checkoutLink) for one member: the  *)
(* member's own /checkout, the admin's button (admin.tsx, POST /checkout), *)
(* and what they leave at Stripe: customers, checkout sessions and the     *)
(* subscriptions that paid sessions start.                                 *)
(*                                                                         *)
(* Any number of requests run at once and interleave at every request to   *)
(* Stripe and every D1 statement.  Stripe keeps the answer to every        *)
(* idempotency key.  So what a key makes is named by the key: the customer *)
(* made under the key of metadata_version v is v, and the session made     *)
(* under the key of customer c and count n is <<c, n>>.  A session that is *)
(* complete is "paid" while its subscription is ongoing and "ended" after. *)
(***************************************************************************)
EXTENDS Integers, FiniteSets

CONSTANTS
    Reqs,            \* Worker invocations
    Plans,           \* values of bill_annually and discount_type
    AdminCustomers,  \* Stripe customers an admin may enter
    LegacyCustomer,  \* the customer Stripe makes when the customerless session is paid
    Legacy,          \* a session made before customers were linked up front
    None,
    MaxVersion,      \* bound: metadata_version
    MaxPrices,       \* bound: times the price at Stripe is replaced
    MaxSessions      \* bound: sessions made

ASSUME NoneAssumption ==
    /\ None \notin Plans /\ None \notin AdminCustomers /\ None # LegacyCustomer
    /\ None \notin Nat /\ LegacyCustomer \notin Nat /\ AdminCustomers \cap Nat = {}
    /\ LegacyCustomer \notin AdminCustomers /\ Legacy \notin ({LegacyCustomer} \union AdminCustomers \union Nat) \X Nat
    /\ Legacy # None /\ None \notin Nat \X Plans
    /\ None \notin ({LegacyCustomer} \union AdminCustomers \union Nat) \X Nat
ASSUME BoundAssumption == MaxVersion \in Nat /\ MaxPrices \in Nat /\ MaxSessions \in Nat

VARIABLES
    member,    \* the row: stripe_customer_id, metadata_version, and what pricing depends on
    sessions,  \* checkout sessions of this member at Stripe
    owed,      \* completed sessions whose webhook Stripe may still deliver
    price,     \* the price with the lookup key: how often it was replaced
    cached,    \* less than five minutes ago: isolates may hold the price before
    req,       \* requests in progress
    edited     \* ghost: an admin has changed the customer

vars == <<member, sessions, owed, price, cached, req, edited>>

Customers == {LegacyCustomer} \union AdminCustomers \union Nat
Keys == Customers \X Nat
Pricings == Nat \X Plans                   \* price id, and interval and coupon
Statuses == {"open", "paid", "ended", "retired", "lapsed"}
Complete == {"paid", "ended"}

Idle == [pc |-> "idle", customer |-> None, version |-> 0, plan |-> None, pricing |-> None,
         seen |-> {}, expire |-> {}, keep |-> None, link |-> None]

PCs == {"idle", "recent", "price", "retire", "customer", "link", "sessions", "subscriptions",
        "expire", "create"}
Sessions == Keys \union {Legacy}
Session == [customer : Customers \union {None}, pricing : Pricings, status : Statuses]
Request == [pc : PCs, customer : Customers \union {None}, version : Nat,
            plan : Plans \union {None}, pricing : Pricings \union {None},
            seen : SUBSET Sessions, expire : SUBSET Sessions,
            keep : Sessions \union {None}, link : Sessions \union {None}]

TypeOK ==
    /\ member \in [customer : Customers \union {None}, version : Nat, plan : Plans]
    /\ DOMAIN sessions \subseteq Sessions /\ IsFiniteSet(DOMAIN sessions)
    /\ sessions \in [DOMAIN sessions -> Session]
    /\ owed \subseteq {s \in DOMAIN sessions : sessions[s].status \in Complete}
    /\ price \in Nat /\ cached \in BOOLEAN
    /\ req \in [Reqs -> Request]
    /\ \A r \in Reqs : req[r].seen \union req[r].expire \subseteq DOMAIN sessions
    /\ edited \in BOOLEAN

Init ==
    /\ \E plan \in Plans :
           /\ member = [customer |-> None, version |-> 1, plan |-> plan]
           /\ \/ sessions = [s \in {} |-> None]
              \/ sessions = [s \in {Legacy} |-> [customer |-> None, pricing |-> <<0, plan>>, status |-> "open"]]
    /\ owed = {}
    /\ price = 0 /\ cached = FALSE
    /\ req = [r \in Reqs |-> Idle]
    /\ edited = FALSE

Of(c) == {s \in DOMAIN sessions : sessions[s].customer = c}
Open(S) == {s \in S : sessions[s].status = "open"}

\* A handler ends with a link to pay, or without one (None).
End(r, link) == req' = [req EXCEPT ![r] = [Idle EXCEPT !.link = link]]

\* A handler goes on; what it no longer needs is forgotten.
Go(r, next) == req' = [req EXCEPT ![r] = next]

\* checkoutLink begins with the row its caller read or wrote.  The waiver test only
\* ends the request.
Begin(r, row) ==
    Go(r, [Idle EXCEPT !.pc = IF row.customer = None THEN "recent" ELSE "sessions",
                       !.customer = row.customer, !.plan = row.plan,
                       !.version = IF row.customer = None THEN row.version ELSE 0])

\* The member's /checkout, or an admin's who leaves the plan as it is.
Start(r) ==
    /\ req[r].pc = "idle"
    /\ Begin(r, member)
    /\ UNCHANGED <<member, sessions, owed, price, cached, edited>>

\* The admin's button, with another plan in the form.  A stale form is refused.
StartWithPlan(r, plan) ==
    /\ req[r].pc = "idle"
    /\ plan # member.plan
    /\ member.version < MaxVersion
    /\ member' = [member EXCEPT !.plan = plan, !.version = @ + 1]
    /\ Begin(r, member')
    /\ UNCHANGED <<sessions, owed, price, cached, edited>>

(***************************************************************************)
(* No customer yet: recover one, or make one.                              *)
(***************************************************************************)
\* Where the handler stands once the customerless sessions are expired.
AfterRetire(t) ==
    IF t.expire # {} THEN [t EXCEPT !.pc = "retire"]
    ELSE IF t.customer = None THEN [t EXCEPT !.pc = "customer"]
    ELSE [t EXCEPT !.pc = "link"]

Recent(r) ==
    LET found == {sessions[s].customer : s \in {t \in DOMAIN sessions :
                      sessions[t].status \in Complete \union {"open"}}} \ {None}
        loose == Open(Of(None))
    IN  /\ req[r].pc = "recent"
        /\ \/ /\ Cardinality(found) > 1
              /\ End(r, None)
           \/ /\ Cardinality(found) = 1
              /\ \E c \in found : Go(r, AfterRetire([req[r] EXCEPT !.customer = c, !.expire = loose]))
           \/ /\ found = {}
              /\ Go(r, [req[r] EXCEPT !.pc = "price", !.expire = loose])
        /\ UNCHANGED <<member, sessions, owed, price, cached, edited>>

CreateCustomer(r) ==
    /\ req[r].pc = "customer"
    /\ Go(r, [req[r] EXCEPT !.pc = "link", !.customer = req[r].version])
    /\ UNCHANGED <<member, sessions, owed, price, cached, edited>>

\* Mutant: any customer the member has by now will do.
SavedSomehow(t) == member.customer # None

\* The update, and the lookup of what a simultaneous request may have saved.
Linkable(t) == member.customer = None /\ member.version = t.version

SavedAlready(t) == member.customer = t.customer /\ member.version = t.version + 1

Link(r) ==
    /\ req[r].pc = "link"
    /\ \/ /\ Linkable(req[r])
          /\ member' = [member EXCEPT !.customer = req[r].customer, !.version = @ + 1]
          /\ Go(r, [req[r] EXCEPT !.pc = "sessions", !.version = 0])
       \/ /\ SavedAlready(req[r])
          /\ Go(r, [req[r] EXCEPT !.pc = "sessions", !.version = 0])
          /\ UNCHANGED member
       \/ /\ ~Linkable(req[r]) /\ ~SavedAlready(req[r])
          /\ End(r, None)
          /\ UNCHANGED member
    /\ UNCHANGED <<sessions, owed, price, cached, edited>>

(***************************************************************************)
(* existingCheckout, then reuse, expire and create.                        *)
(***************************************************************************)
\* Mutant: any pending session is handed out.
ReusableAnyway(pending, pricing) == pending

\* The pending session with the wanted pricing.
Reusable(pending, pricing) == {s \in pending : sessions[s].pricing = pricing}

\* Nothing left to expire: hand out the session that was kept, or make one.
AfterExpire(t) ==
    IF t.expire # {} THEN [t EXCEPT !.pc = "expire"]
    ELSE IF t.keep # None THEN [Idle EXCEPT !.link = t.keep]
    ELSE [t EXCEPT !.pc = "create"]

\* `t.expire` are the sessions that were open when they were listed.
Decide(r, t) ==
    IF t.pricing = None THEN Go(r, [t EXCEPT !.pc = "price"])
    ELSE \E keep \in IF Reusable(t.expire, t.pricing) = {} THEN {None} ELSE Reusable(t.expire, t.pricing) :
             Go(r, AfterExpire([t EXCEPT !.keep = keep, !.expire = @ \ {keep}]))

Ongoing(c) == \E s \in Of(c) : sessions[s].status = "paid"

\* Mutant: subscriptions are read before sessions.
ExistingCheckoutReversed(r) ==
    /\ \/ /\ req[r].pc = "sessions"
          /\ IF Ongoing(req[r].customer) THEN End(r, None)
             ELSE Go(r, [req[r] EXCEPT !.pc = "subscriptions"])
       \/ /\ req[r].pc = "subscriptions"
          /\ Decide(r, [req[r] EXCEPT !.seen = Of(req[r].customer), !.expire = Open(Of(req[r].customer))])
    /\ UNCHANGED <<member, sessions, owed, price, cached, edited>>

\* With an ongoing subscription the request ends: it gives the portal's link, or refuses
\* a link for an admin to share.
ExistingCheckout(r) ==
    /\ \/ /\ req[r].pc = "sessions"
          /\ Go(r, [req[r] EXCEPT !.pc = "subscriptions", !.seen = Of(req[r].customer),
                                  !.expire = Open(Of(req[r].customer))])
       \/ /\ req[r].pc = "subscriptions"
          /\ IF Ongoing(req[r].customer) THEN End(r, None)
             ELSE Decide(r, req[r])
    /\ UNCHANGED <<member, sessions, owed, price, cached, edited>>

\* resolvePricing: the price an isolate has cached, or Stripe's.
ResolvePricing(r) ==
    /\ req[r].pc = "price"
    /\ \E p \in {price} \union {q \in 0 .. price : cached /\ q = price - 1} :
           LET t == [req[r] EXCEPT !.plan = None, !.pricing = <<p, req[r].plan>>]
           IN  IF t.customer = None THEN Go(r, AfterRetire(t)) ELSE Decide(r, t)
    /\ UNCHANGED <<member, sessions, owed, price, cached, edited>>

\* Stripe expires a session that is open, and repeats the answer to the same key;
\* of any other session it says that it cannot be expired.
Expire(r) ==
    /\ req[r].pc \in {"retire", "expire"}
    /\ \E s \in req[r].expire :
           \/ /\ sessions[s].status \in {"open", "retired"}
              /\ sessions' = [sessions EXCEPT ![s].status = "retired"]
              /\ LET t == [req[r] EXCEPT !.expire = @ \ {s}]
                 IN  Go(r, IF req[r].pc = "retire" THEN AfterRetire(t) ELSE AfterExpire(t))
           \/ /\ sessions[s].status \notin {"open", "retired"}
              /\ End(r, None)
              /\ UNCHANGED sessions
    /\ UNCHANGED <<member, owed, price, cached, edited>>

\* Mutant: the key counts the sessions that are still open.
KeyOfOpen(t) == <<t.customer, Cardinality(Open(t.seen))>>

\* The idempotency key of a new session.
Key(t) == <<t.customer, Cardinality(t.seen)>>

\* Stripe repeats its answer to a key it knows, and refuses it for other parameters.
Create(r) ==
    LET k == Key(req[r])
    IN  /\ req[r].pc = "create"
        /\ \/ /\ k \notin DOMAIN sessions
              /\ Cardinality(DOMAIN sessions) < MaxSessions
              /\ sessions' = [s \in DOMAIN sessions \union {k} |->
                                 IF s = k THEN [customer |-> req[r].customer, pricing |-> req[r].pricing,
                                                status |-> "open"]
                                 ELSE sessions[s]]
              /\ End(r, k)
           \/ /\ k \in DOMAIN sessions
              /\ End(r, IF sessions[k].pricing = req[r].pricing THEN k ELSE None)
              /\ UNCHANGED sessions
        /\ UNCHANGED <<member, owed, price, cached, edited>>

\* A provider fails or times out, pricing cannot be resolved, or the invocation ends.
Fail(r) ==
    /\ req[r].pc # "idle"
    /\ End(r, None)
    /\ UNCHANGED <<member, sessions, owed, price, cached, edited>>

(***************************************************************************)
(* Stripe, the member and the admin.                                       *)
(***************************************************************************)
\* A payment starts a subscription; a session without a customer gets one.
Pay(s) ==
    /\ sessions[s].status = "open"
    /\ LET customer == IF sessions[s].customer = None THEN LegacyCustomer ELSE sessions[s].customer
       IN  sessions' = [sessions EXCEPT ![s] = [@ EXCEPT !.status = "paid", !.customer = customer]]
    /\ owed' = owed \union {s}
    /\ UNCHANGED <<member, price, cached, req, edited>>

\* checkout.session.completed: the webhook links the customer if there is none.
\* Stripe may deliver the event again.
Deliver(s) ==
    /\ member.customer = None => member.version < MaxVersion
    /\ member' = IF member.customer = None
                 THEN [member EXCEPT !.customer = sessions[s].customer, !.version = @ + 1]
                 ELSE member
    /\ owed' \in {owed, owed \ {s}}
    /\ UNCHANGED <<sessions, price, cached, req, edited>>

\* The subscription is canceled, or an unpaid session reaches its 24 hours.
Ends(s) ==
    /\ Cardinality(DOMAIN sessions) < MaxSessions
    /\ \/ sessions[s].status = "paid" /\ sessions' = [sessions EXCEPT ![s].status = "ended"]
       \/ sessions[s].status = "open" /\ sessions' = [sessions EXCEPT ![s].status = "lapsed"]
    /\ UNCHANGED <<member, owed, price, cached, req, edited>>

\* Another price takes the lookup key; isolates may use the one before for a while.
PriceReplaced ==
    /\ price < MaxPrices /\ ~cached
    /\ price' = price + 1 /\ cached' = TRUE
    /\ UNCHANGED <<member, sessions, owed, req, edited>>

CacheExpires ==
    /\ cached
    /\ cached' = FALSE
    /\ UNCHANGED <<member, sessions, owed, price, req, edited>>

\* updateMember with another customer, or none.
EditCustomer(c) ==
    /\ member.version < MaxVersion
    /\ c # member.customer
    /\ member' = [member EXCEPT !.customer = c, !.version = @ + 1]
    /\ edited' = TRUE
    /\ UNCHANGED <<sessions, owed, price, cached, req>>

Step(r) == Recent(r) \/ CreateCustomer(r) \/ Link(r) \/ ExistingCheckout(r) \/ ResolvePricing(r)
           \/ Expire(r) \/ Create(r)

Next ==
    \/ \E r \in Reqs : Start(r) \/ Step(r) \/ Fail(r)
    \/ \E r \in Reqs, plan \in Plans : StartWithPlan(r, plan)
    \/ \E s \in DOMAIN sessions : Pay(s) \/ Ends(s)
    \/ \E s \in owed : Deliver(s)
    \/ PriceReplaced \/ CacheExpires
    \/ \E c \in AdminCustomers \union {None} : EditCustomer(c)

Spec == Init /\ [][Next]_vars

(***************************************************************************)
(* Properties                                                              *)
(***************************************************************************)
Payable == {s \in DOMAIN sessions : sessions[s].status \in {"open", "paid"}}

\* A customer never has two sessions of which each is paid or still could be: whatever
\* requests interleave, time out, use another pricing or another isolate's price.
OnePerCustomer ==
    \A s, t \in Payable : sessions[s].customer = sessions[t].customer => s = t

\* Until an admin changes the customer, all sessions that a member could pay or has paid
\* belong to one customer ("all checkouts for a member share one Stripe customer",
\* billing.ts:128), with the legacy session, its webhook and creations that raced.
OneCustomer ==
    ~edited => \A s, t \in Payable : sessions[s].customer = sessions[t].customer

AsAsked(r) ==
    req[r].pc # "idle" /\ req'[r].link \in DOMAIN sessions' =>
        /\ req[r].pricing \in {sessions'[req'[r].link].pricing, None}
        /\ req[r].plan \in {sessions'[req'[r].link].pricing[2], None}
        /\ req'[r].link \in req[r].seen => req'[r].link \in req[r].expire \union {req[r].keep}

\* A link that is handed out has the pricing the request resolved, whichever request made
\* the session, and never leads to a session that the request itself has found to be over:
\* the idempotency key does not bring back the session of an earlier attempt.
LinkAsAsked == [][\A r \in Reqs : AsAsked(r)]_vars
=============================================================================
