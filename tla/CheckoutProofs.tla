--------------------------- MODULE CheckoutProofs ---------------------------
(* Proofs about Checkout, for any number of requests, plans and customers. *)
EXTENDS Checkout, FiniteSetTheorems, TLAPS

\* The customerless session, if there is one, has not been paid.
Unpaid == Legacy \in DOMAIN sessions => sessions[Legacy].status \notin Complete

\* A request that has listed its customer's sessions.
Listing(t) == t.pc \in {"subscriptions", "expire", "create"} \/ (t.pc = "price" /\ t.customer # None)

\* No session was made since, or the one whose key the request would use was.
CaughtUp(t) ==
    /\ t.seen \subseteq Of(t.customer)
    /\ t.seen = Of(t.customer) \/ Key(t) \in DOMAIN sessions

\* What was listed is over, or still to be expired, or kept.
Settled(t) ==
    \A s \in t.seen :
        /\ sessions[s].status = "open" => s \in t.expire \union {t.keep}
        /\ sessions[s].status = "paid" /\ t.pc # "subscriptions" => s \in t.expire \union {t.keep}

ReqOK(t) ==
    /\ t \in Request
    /\ t.seen \union t.expire \subseteq DOMAIN sessions
    /\ Unpaid => t.customer # LegacyCustomer
    /\ t.pc \in {"link", "sessions"} => t.customer # None
    /\ t.pc # "expire" => t.keep = None
    /\ t.pc \in {"expire", "create"} => t.pricing # None
    /\ t.pc = "create" => t.expire = {}
    /\ t.pc \in {"recent", "customer"} => t.customer = None
    /\ t.pc \in {"recent", "price"} \/ (t.pc # "idle" /\ t.pricing = None) => t.plan \in Plans
    /\ Listing(t) => t.customer # None /\ CaughtUp(t) /\ Settled(t)

\* A session's customer is its key's; the customerless session gets one when it is paid.
OwnCustomer ==
    \A s \in DOMAIN sessions :
        sessions[s].customer = IF s # Legacy THEN s[1]
                               ELSE IF sessions[s].status \in Complete THEN LegacyCustomer ELSE None

\* Before that nobody knows the customer.
Unknown == Unpaid => member.customer # LegacyCustomer /\ Of(LegacyCustomer) = {}

IInv == TypeOK /\ OwnCustomer /\ Unknown /\ OnePerCustomer /\ (\A r \in Reqs : ReqOK(req[r]))

-----------------------------------------------------------------------------
(* Facts of one state. *)

LEMMA KeyFacts ==
    /\ None \notin Customers /\ Legacy \notin Keys /\ None \notin Sessions
    /\ None \notin Pricings /\ Idle \in Request
  BY NoneAssumption DEF Customers, Keys, Sessions, Pricings, Idle, Request, PCs

\* A request that has ended is in order.
LEMMA EndedOK ==
  ASSUME NEW link \in Sessions \union {None}
  PROVE  ReqOK([Idle EXCEPT !.link = link]) /\ ReqOK([Idle EXCEPT !.link = link])'
  <1>1. [Idle EXCEPT !.link = link] \in Request
    BY KeyFacts DEF Request
  <1>2. [Idle EXCEPT !.link = link] = [pc |-> "idle", customer |-> None, version |-> 0, plan |-> None,
             pricing |-> None, seen |-> {}, expire |-> {}, keep |-> None, link |-> link]
    BY DEF Idle
  <1> QED BY <1>1, <1>2, NoneAssumption DEF ReqOK, Listing

\* Listed sessions have keys, and the next key is one.
LEMMA NextKey ==
  ASSUME NEW t \in Request, t.seen \subseteq DOMAIN sessions, TypeOK, t.customer # None
  PROVE  Key(t) \in Keys
  <1>1. IsFiniteSet(t.seen)
    BY FS_Subset DEF TypeOK
  <1>2. Cardinality(t.seen) \in Nat
    BY <1>1, FS_CardinalityType
  <1> QED BY <1>2 DEF Key, Keys, Request

\* Where AfterRetire leads.
LEMMA AfterRetireOK ==
  ASSUME NEW t \in Request, t.seen \union t.expire \subseteq DOMAIN sessions, t.keep = None,
         Unpaid => t.customer # LegacyCustomer, t.pricing # None \/ t.plan \in Plans
  PROVE  ReqOK(AfterRetire(t))
  <1>1. AfterRetire(t) \in Request
    BY DEF AfterRetire, Request, PCs
  <1>2. CASE t.expire # {}
    BY <1>1, <1>2 DEF AfterRetire, ReqOK, Listing, Request
  <1>3. CASE t.expire = {} /\ t.customer = None
    BY <1>1, <1>3 DEF AfterRetire, ReqOK, Listing, Request
  <1>4. CASE t.expire = {} /\ t.customer # None
    BY <1>1, <1>4 DEF AfterRetire, ReqOK, Listing, Request
  <1> QED BY <1>2, <1>3, <1>4

LEMMA AfterRetireShape ==
  ASSUME NEW t \in Request
  PROVE  \E n \in Request :
            /\ n = AfterRetire(t) /\ n.seen = t.seen /\ n.expire = t.expire /\ n.keep = t.keep
            /\ n.customer = t.customer /\ n.pricing = t.pricing /\ n.plan = t.plan /\ n.link = t.link
            /\ n.pc \in {"retire", "customer", "link"} /\ (n.pc # "retire" => t.expire = {})
            /\ n.pc = "link" => t.customer # None
            /\ n.pc = "customer" => t.customer = None
  <1> DEFINE m == AfterRetire(t)
  <1>1. /\ m \in Request /\ m.seen = t.seen /\ m.expire = t.expire /\ m.keep = t.keep
        /\ m.customer = t.customer /\ m.pricing = t.pricing /\ m.plan = t.plan /\ m.link = t.link
        /\ m.pc \in {"retire", "customer", "link"} /\ (m.pc # "retire" => t.expire = {})
        /\ m.pc = "link" => t.customer # None
        /\ m.pc = "customer" => t.customer = None
    BY DEF AfterRetire, Request, PCs
  <1> HIDE DEF m
  <1> QED BY <1>1 DEF m

\* Where AfterRetire leads, in the next state.
LEMMA AfterRetireOKNext ==
  ASSUME NEW t \in Request, t.seen \union t.expire \subseteq DOMAIN sessions', t.keep = None,
         Unpaid' => t.customer # LegacyCustomer, t.pricing # None \/ t.plan \in Plans
  PROVE  ReqOK(AfterRetire(t))'
  <1>1. PICK n \in Request :
            /\ n = AfterRetire(t) /\ n.seen = t.seen /\ n.expire = t.expire /\ n.keep = None
            /\ n.customer = t.customer /\ n.pricing = t.pricing /\ n.plan = t.plan
            /\ n.pc \in {"retire", "customer", "link"} /\ (n.pc = "link" => t.customer # None)
            /\ n.pc = "customer" => t.customer = None
    BY AfterRetireShape
  <1>2. ReqOK(n)'
    BY <1>1 DEF ReqOK, Listing
  <1> QED BY <1>1, <1>2

LEMMA AfterExpireShape ==
  ASSUME NEW t \in Request
  PROVE  \/ AfterExpire(t) = [Idle EXCEPT !.link = t.keep]
         \/ \E n \in Request :
                /\ n = AfterExpire(t) /\ n.seen = t.seen /\ n.expire = t.expire /\ n.keep = t.keep
                /\ n.customer = t.customer /\ n.pricing = t.pricing /\ n.plan = t.plan /\ n.link = t.link
                /\ n.pc \in {"expire", "create"}
                /\ n.pc = "create" => t.expire = {} /\ t.keep = None
  BY DEF AfterExpire, Request, PCs

\* Where AfterExpire leads.
LEMMA AfterExpireOK ==
  ASSUME NEW t \in Request, t.seen \union t.expire \subseteq DOMAIN sessions, t.customer # None,
         t.pricing # None, Unpaid => t.customer # LegacyCustomer, CaughtUp(t),
         \A s \in t.seen : sessions[s].status \in {"open", "paid"} => s \in t.expire \union {t.keep}
  PROVE  ReqOK(AfterExpire(t))
  <1>1. CASE AfterExpire(t) = [Idle EXCEPT !.link = t.keep]
    <2>1. t.keep \in Sessions \union {None}
      BY DEF Request
    <2> QED BY <1>1, <2>1, EndedOK
  <1>2. ASSUME NEW n \in Request,
               /\ n = AfterExpire(t) /\ n.seen = t.seen /\ n.expire = t.expire /\ n.keep = t.keep
               /\ n.customer = t.customer /\ n.pricing = t.pricing /\ n.plan = t.plan
               /\ n.pc \in {"expire", "create"}
               /\ n.pc = "create" => t.expire = {} /\ t.keep = None
        PROVE  ReqOK(n)
    <2>1. CaughtUp(n) /\ Settled(n)
      BY <1>2 DEF CaughtUp, Settled, Key
    <2> QED BY <1>2, <2>1 DEF ReqOK
  <1> QED BY <1>1, <1>2, AfterExpireShape

\* The same in the next state.
LEMMA AfterExpireOKNext ==
  ASSUME NEW t \in Request, t.seen \union t.expire \subseteq DOMAIN sessions', t.customer # None,
         t.pricing # None, Unpaid' => t.customer # LegacyCustomer, CaughtUp(t)',
         \A s \in t.seen : sessions'[s].status \in {"open", "paid"} => s \in t.expire \union {t.keep}
  PROVE  ReqOK(AfterExpire(t))'
  <1>1. CASE AfterExpire(t) = [Idle EXCEPT !.link = t.keep]
    <2>1. t.keep \in Sessions \union {None}
      BY DEF Request
    <2> QED BY <1>1, <2>1, EndedOK
  <1>2. ASSUME NEW n \in Request,
               /\ n = AfterExpire(t) /\ n.seen = t.seen /\ n.expire = t.expire /\ n.keep = t.keep
               /\ n.customer = t.customer /\ n.pricing = t.pricing /\ n.plan = t.plan
               /\ n.pc \in {"expire", "create"}
               /\ n.pc = "create" => t.expire = {} /\ t.keep = None
        PROVE  ReqOK(n)'
    <2>1. CaughtUp(n)' /\ Settled(n)'
      BY <1>2 DEF CaughtUp, Settled, Key
    <2> QED BY <1>2, <2>1 DEF ReqOK
  <1> QED BY <1>1, <1>2, AfterExpireShape

\* Where Decide leads.
LEMMA DecideOK ==
  ASSUME NEW t \in Request, NEW r \in Reqs, TypeOK, Decide(r, t),
         t.seen \union t.expire \subseteq DOMAIN sessions, t.customer # None, t.keep = None,
         t.pricing = None => t.plan \in Plans,
         Unpaid => t.customer # LegacyCustomer, CaughtUp(t),
         \A s \in t.seen : sessions[s].status \in {"open", "paid"} => s \in t.expire
  PROVE  /\ \A q \in Reqs \ {r} : req'[q] = req[q]
         /\ DOMAIN req' = Reqs /\ req' = [q \in Reqs |-> req'[q]]
         /\ ReqOK(req'[r])
  <1>1. DOMAIN req = Reqs
    BY DEF TypeOK
  <1>2. CASE t.pricing = None
    <2> DEFINE n == [t EXCEPT !.pc = "price"]
    <2>1. n \in Request /\ n.pc = "price" /\ n.seen = t.seen /\ n.expire = t.expire /\ n.keep = None
          /\ n.customer = t.customer /\ n.plan = t.plan
      BY DEF Request, PCs
    <2>2. req' = [req EXCEPT ![r] = n]
      BY <1>2 DEF Decide, Go
    <2>3. CaughtUp(n) /\ Settled(n)
      BY <2>1 DEF CaughtUp, Settled, Key
    <2> HIDE DEF n
    <2>4. ReqOK(n)
      BY <2>1, <2>3, <1>2 DEF ReqOK
    <2> QED BY <1>1, <2>2, <2>4
  <1>3. CASE t.pricing # None
    <2>1. PICK keep \in t.expire \union {None} :
             Go(r, AfterExpire([t EXCEPT !.keep = keep, !.expire = t.expire \ {keep}]))
      BY <1>3 DEF Decide, Reusable
    <2> DEFINE n == [t EXCEPT !.keep = keep, !.expire = t.expire \ {keep}]
    <2>2. n \in Request /\ n.pc = t.pc /\ n.seen = t.seen /\ n.expire = t.expire \ {keep} /\ n.keep = keep
          /\ n.customer = t.customer /\ n.pricing = t.pricing
      BY DEF Request
    <2>3. CaughtUp(n)
      BY <2>2 DEF CaughtUp, Key
    <2>4. req' = [req EXCEPT ![r] = AfterExpire(n)]
      BY <2>1 DEF Go
    <2> HIDE DEF n
    <2>5. ReqOK(AfterExpire(n))
      BY <1>3, <2>2, <2>3, AfterExpireOK
    <2> QED BY <1>1, <2>4, <2>5
  <1> QED BY <1>2, <1>3

-----------------------------------------------------------------------------
(* Steps. *)

\* A request's standing depends on the sessions only.
LEMMA SameSessions ==
  ASSUME NEW q \in Reqs, UNCHANGED sessions, ReqOK(req'[q])
  PROVE  ReqOK(req[q])'
  BY DEF ReqOK, CaughtUp, Settled, Of, Key, Unpaid, Listing

\* A step of one request that leaves the sessions alone.
LEMMA RequestStep ==
  ASSUME IInv, NEW r \in Reqs, UNCHANGED <<sessions, owed, price, cached, edited>>,
         member' \in [customer : Customers \union {None}, version : Nat, plan : Plans],
         Unpaid => member'.customer # LegacyCustomer,
         DOMAIN req' = Reqs, req' = [q \in Reqs |-> req'[q]],
         \A q \in Reqs \ {r} : req'[q] = req[q], ReqOK(req'[r])
  PROVE  IInv'
  <1>1. \A q \in Reqs : ReqOK(req'[q])
    BY DEF IInv
  <1>2. \A q \in Reqs : ReqOK(req[q])'
    BY <1>1, SameSessions
  <1>3. \A q \in Reqs : req'[q] \in Request /\ req'[q].seen \union req'[q].expire \subseteq DOMAIN sessions
    BY <1>1 DEF ReqOK
  <1>4. TypeOK'
    BY <1>3 DEF IInv, TypeOK
  <1>5. OwnCustomer' /\ Unknown' /\ OnePerCustomer'
    BY DEF IInv, OwnCustomer, Unknown, Unpaid, OnePerCustomer, Payable, Of
  <1> QED BY <1>2, <1>4, <1>5 DEF IInv

\* A step that changes statuses, perhaps names the customer of a session, and makes
\* nothing payable that was not.
LEMMA OtherRequest ==
  ASSUME IInv, NEW q \in Reqs, req'[q] = req[q],
         DOMAIN sessions \subseteq DOMAIN sessions',
         Unpaid' => Unpaid,
         Listing(req[q]) => CaughtUp(req[q])',
         \A s \in DOMAIN sessions : sessions'[s].status \in {"open", "paid"} =>
             sessions[s].status = "open" \/ sessions'[s].status = sessions[s].status
  PROVE  ReqOK(req[q])'
  <1>1. ReqOK(req[q])
    BY DEF IInv
  <1>2. Listing(req[q]) => Settled(req[q])'
    BY <1>1 DEF ReqOK, Settled
  <1> QED BY <1>1, <1>2 DEF ReqOK, Listing

LEMMA GoFacts ==
  ASSUME IInv, NEW r \in Reqs, NEW t, Go(r, t)
  PROVE  /\ DOMAIN req' = Reqs /\ req' = [q \in Reqs |-> req'[q]]
         /\ \A q \in Reqs \ {r} : req'[q] = req[q]
         /\ req'[r] = t
  BY DEF Go, IInv, TypeOK

LEMMA EndFacts ==
  ASSUME IInv, NEW r \in Reqs, NEW link \in Sessions \union {None}, End(r, link)
  PROVE  /\ DOMAIN req' = Reqs /\ req' = [q \in Reqs |-> req'[q]]
         /\ \A q \in Reqs \ {r} : req'[q] = req[q]
         /\ ReqOK(req'[r])
  <1>1. ReqOK([Idle EXCEPT !.link = link])
    BY EndedOK
  <1> QED BY <1>1 DEF End, IInv, TypeOK

LEMMA BeginStep ==
  ASSUME IInv, NEW r \in Reqs, NEW row \in [customer : Customers \union {None}, version : Nat, plan : Plans],
         Begin(r, row), member' = row, row.customer = member.customer,
         UNCHANGED <<sessions, owed, price, cached, edited>>
  PROVE  IInv'
  <1> DEFINE t == [Idle EXCEPT !.pc = IF row.customer = None THEN "recent" ELSE "sessions",
                       !.customer = row.customer, !.plan = row.plan,
                       !.version = IF row.customer = None THEN row.version ELSE 0]
  <1>1. /\ t \in Request /\ t.pc \in {"recent", "sessions"} /\ t.seen = {} /\ t.expire = {} /\ t.keep = None
        /\ t.customer = row.customer /\ t.plan \in Plans
        /\ t.pc = "sessions" => row.customer # None
        /\ t.pc = "recent" => row.customer = None
    BY KeyFacts DEF Idle, Request, PCs
  <1>2. Go(r, t)
    BY DEF Begin
  <1> HIDE DEF t
  <1>3. ReqOK(t)
    BY <1>1 DEF ReqOK, Listing, IInv, Unknown
  <1>4. Unpaid => member'.customer # LegacyCustomer
    BY DEF IInv, Unknown
  <1> QED BY <1>2, <1>3, <1>4, GoFacts, RequestStep

LEMMA StartStep ==
  ASSUME IInv, NEW r \in Reqs, Start(r)
  PROVE  IInv'
  BY BeginStep DEF Start, IInv, TypeOK

LEMMA StartWithPlanStep ==
  ASSUME IInv, NEW r \in Reqs, NEW plan \in Plans, StartWithPlan(r, plan)
  PROVE  IInv'
  <1> DEFINE next == [member EXCEPT !.plan = plan, !.version = member.version + 1]
  <1>0. member \in [customer : Customers \union {None}, version : Nat, plan : Plans]
    BY DEF IInv, TypeOK
  <1>1. PICK now \in [customer : Customers \union {None}, version : Nat, plan : Plans] : now = member'
    <2>0. member.version + 1 \in Nat
      BY <1>0
    <2>1. next \in [customer : Customers \union {None}, version : Nat, plan : Plans]
      BY <1>0, <2>0
    <2>2. member' = next
      BY DEF StartWithPlan
    <2> QED BY <2>1, <2>2
  <1>2. now.customer = member.customer
    BY <1>0, <1>1 DEF StartWithPlan
  <1>3. Begin(r, now)
    BY <1>1 DEF StartWithPlan, Begin, Go
  <1>4. UNCHANGED <<sessions, owed, price, cached, edited>>
    BY DEF StartWithPlan
  <1> QED BY <1>1, <1>2, <1>3, <1>4, BeginStep

LEMMA RecentStep ==
  ASSUME IInv, NEW r \in Reqs, Recent(r)
  PROVE  IInv'
  <1> DEFINE t == req[r]
  <1> DEFINE found == {sessions[s].customer : s \in {x \in DOMAIN sessions :
                           sessions[x].status \in Complete \union {"open"}}} \ {None}
  <1> DEFINE loose == Open(Of(None))
  <1>1. t \in Request /\ t.pc = "recent" /\ ReqOK(t)
    BY DEF Recent, IInv, ReqOK
  <1>2. member' \in [customer : Customers \union {None}, version : Nat, plan : Plans]
        /\ (Unpaid => member'.customer # LegacyCustomer)
    BY DEF Recent, IInv, TypeOK, Unknown
  <1>3. loose \subseteq DOMAIN sessions
    BY DEF Open, Of
  <1>4. CASE End(r, None)
    <2>1. UNCHANGED <<sessions, owed, price, cached, edited>>
      BY DEF Recent
    <2> QED BY <1>2, <1>4, <2>1, EndFacts, RequestStep
  <1>5. ASSUME NEW c \in found, Go(r, AfterRetire([t EXCEPT !.customer = c, !.expire = loose]))
        PROVE  IInv'
    <2> DEFINE n == [t EXCEPT !.customer = c, !.expire = loose]
    <2>1. c \in Customers /\ (Unpaid => c # LegacyCustomer)
      BY DEF IInv, TypeOK, Session, Unknown, Of
    <2>2. n \in Request /\ n.seen = t.seen /\ n.expire = loose /\ n.keep = None /\ n.customer = c
          /\ (n.pricing # None \/ n.plan \in Plans)
      BY <1>1, <1>3, <2>1 DEF IInv, TypeOK, Request, ReqOK
    <2>3. Go(r, AfterRetire(n))
      BY <1>5
    <2>4. UNCHANGED <<sessions, owed, price, cached, edited>>
      BY DEF Recent
    <2> HIDE DEF n, loose
    <2>5. ReqOK(AfterRetire(n))
      BY <1>1, <1>3, <2>1, <2>2, AfterRetireOK DEF ReqOK
    <2> QED BY <1>2, <2>3, <2>4, <2>5, GoFacts, RequestStep
  <1>6. CASE Go(r, [t EXCEPT !.pc = "price", !.expire = loose])
    <2> DEFINE n == [t EXCEPT !.pc = "price", !.expire = loose]
    <2>1. n \in Request /\ n.pc = "price" /\ n.seen = t.seen /\ n.expire = loose /\ n.keep = None
          /\ n.customer = None /\ n.plan \in Plans
      BY <1>1, <1>3 DEF IInv, TypeOK, Request, ReqOK, PCs
    <2>2. Go(r, n)
      BY <1>6
    <2>3. UNCHANGED <<sessions, owed, price, cached, edited>>
      BY DEF Recent
    <2> HIDE DEF n, loose
    <2>4. ReqOK(n)
      BY <1>1, <1>3, <2>1 DEF ReqOK, Listing, Unknown, IInv
    <2> QED BY <1>2, <2>2, <2>3, <2>4, GoFacts, RequestStep
  <1> QED BY <1>4, <1>5, <1>6 DEF Recent

LEMMA CreateCustomerStep ==
  ASSUME IInv, NEW r \in Reqs, CreateCustomer(r)
  PROVE  IInv'
  <1> DEFINE t == req[r]
  <1> DEFINE n == [t EXCEPT !.pc = "link", !.customer = t.version]
  <1>1. t \in Request /\ t.pc = "customer" /\ ReqOK(t)
    BY DEF CreateCustomer, IInv, ReqOK
  <1>2. /\ n \in Request /\ n.pc = "link" /\ n.seen = t.seen /\ n.expire = t.expire /\ n.keep = t.keep
        /\ n.customer = t.version /\ n.pricing = t.pricing /\ n.plan = t.plan
        /\ t.version # LegacyCustomer /\ t.version # None
    BY <1>1, NoneAssumption DEF Request, PCs, Customers
  <1>3. Go(r, n) /\ UNCHANGED <<member, sessions, owed, price, cached, edited>>
    BY DEF CreateCustomer
  <1>4. member' \in [customer : Customers \union {None}, version : Nat, plan : Plans]
        /\ (Unpaid => member'.customer # LegacyCustomer)
    BY <1>3 DEF IInv, TypeOK, Unknown
  <1> HIDE DEF n
  <1>5. ReqOK(n)
    BY <1>1, <1>2 DEF ReqOK, Listing
  <1> QED BY <1>3, <1>4, <1>5, GoFacts, RequestStep

LEMMA LinkStep ==
  ASSUME IInv, NEW r \in Reqs, Link(r)
  PROVE  IInv'
  <1> DEFINE t == req[r]
  <1> DEFINE n == [t EXCEPT !.pc = "sessions", !.version = 0]
  <1>1. t \in Request /\ t.pc = "link" /\ ReqOK(t)
    BY DEF Link, IInv, ReqOK
  <1>2. /\ n \in Request /\ n.pc = "sessions" /\ n.seen = t.seen /\ n.expire = t.expire /\ n.keep = t.keep
        /\ n.customer = t.customer /\ n.pricing = t.pricing /\ n.plan = t.plan
    BY <1>1 DEF Request, PCs
  <1>3. UNCHANGED <<sessions, owed, price, cached, edited>>
    BY DEF Link
  <1>4. member' \in [customer : Customers \union {None}, version : Nat, plan : Plans]
        /\ (Unpaid => member'.customer # LegacyCustomer)
    <2> DEFINE row == [member EXCEPT !.customer = t.customer, !.version = member.version + 1]
    <2>1. member \in [customer : Customers \union {None}, version : Nat, plan : Plans]
          /\ (Unpaid => member.customer # LegacyCustomer)
      BY DEF IInv, TypeOK, Unknown
    <2>2. t.customer \in Customers \union {None} /\ (Unpaid => t.customer # LegacyCustomer)
      BY <1>1 DEF Request, ReqOK
    <2>3. row \in [customer : Customers \union {None}, version : Nat, plan : Plans]
          /\ row.customer = t.customer
      <3>1. member.version + 1 \in Nat
        BY <2>1
      <3> QED BY <2>1, <2>2, <3>1
    <2>4. member' = row \/ member' = member
      BY DEF Link
    <2> QED BY <2>1, <2>2, <2>3, <2>4
  <1>5. Go(r, n) \/ End(r, None)
    BY DEF Link
  <1> HIDE DEF n
  <1>6. ReqOK(n)
    BY <1>1, <1>2 DEF ReqOK, Listing
  <1>7. CASE Go(r, n)
    BY <1>3, <1>4, <1>6, <1>7, GoFacts, RequestStep
  <1>8. CASE End(r, None)
    BY <1>3, <1>4, <1>8, EndFacts, RequestStep
  <1> QED BY <1>5, <1>7, <1>8

LEMMA ExistingCheckoutStep ==
  ASSUME IInv, NEW r \in Reqs, ExistingCheckout(r)
  PROVE  IInv'
  <1> DEFINE t == req[r]
  <1>1. t \in Request /\ t.pc \in {"sessions", "subscriptions"} /\ ReqOK(t) /\ t.customer # None
    BY DEF ExistingCheckout, IInv, ReqOK, Listing
  <1>2. UNCHANGED <<member, sessions, owed, price, cached, edited>>
    BY DEF ExistingCheckout
  <1>3. member' \in [customer : Customers \union {None}, version : Nat, plan : Plans]
        /\ (Unpaid => member'.customer # LegacyCustomer)
    BY <1>2 DEF IInv, TypeOK, Unknown
  <1>4. CASE t.pc = "sessions"
    <2> DEFINE n == [t EXCEPT !.pc = "subscriptions", !.seen = Of(t.customer), !.expire = Open(Of(t.customer))]
    <2>1. Of(t.customer) \subseteq DOMAIN sessions /\ Open(Of(t.customer)) \subseteq Of(t.customer)
      BY DEF Of, Open
    <2>2. /\ n \in Request /\ n.pc = "subscriptions" /\ n.keep = t.keep /\ n.plan = t.plan
          /\ n.seen = Of(t.customer) /\ n.expire = Open(Of(t.customer))
          /\ n.customer = t.customer /\ n.pricing = t.pricing
      BY <1>1, <2>1 DEF Request, PCs, IInv, TypeOK
    <2>3. Go(r, n)
      BY <1>4 DEF ExistingCheckout
    <2> HIDE DEF n
    <2>4. CaughtUp(n) /\ Settled(n)
      BY <2>2 DEF CaughtUp, Settled, Open
    <2>5. ReqOK(n)
      BY <1>1, <1>4, <2>1, <2>2, <2>4 DEF ReqOK
    <2> QED BY <1>2, <1>3, <2>3, <2>5, GoFacts, RequestStep
  <1>5. CASE t.pc = "subscriptions" /\ Ongoing(t.customer)
    <2>1. End(r, None)
      BY <1>5 DEF ExistingCheckout
    <2> QED BY <1>2, <1>3, <2>1, EndFacts, RequestStep
  <1>6. CASE t.pc = "subscriptions" /\ ~Ongoing(t.customer)
    <2>1. Decide(r, t)
      BY <1>6 DEF ExistingCheckout
    <2>2. CaughtUp(t) /\ Settled(t) /\ t.keep = None
      BY <1>1, <1>6 DEF ReqOK, Listing
    <2>3. \A s \in t.seen : sessions[s].status \in {"open", "paid"} => s \in t.expire
      <3>1. \A s \in t.seen : s \in Of(t.customer) /\ s # None
        BY <1>1, <2>2, KeyFacts DEF CaughtUp, Request
      <3> QED BY <1>6, <2>2, <3>1 DEF Settled, Ongoing
    <2>4. DOMAIN req' = Reqs /\ req' = [q \in Reqs |-> req'[q]] /\ ReqOK(req'[r])
          /\ (\A q \in Reqs \ {r} : req'[q] = req[q])
      BY <1>1, <1>6, <2>1, <2>2, <2>3, DecideOK DEF ReqOK, IInv
    <2> QED BY <1>2, <1>3, <2>4, RequestStep
  <1> QED BY <1>1, <1>4, <1>5, <1>6

LEMMA ResolvePricingStep ==
  ASSUME IInv, NEW r \in Reqs, ResolvePricing(r)
  PROVE  IInv'
  <1> DEFINE t == req[r]
  <1>1. t \in Request /\ t.pc = "price" /\ ReqOK(t) /\ t.plan \in Plans /\ t.keep = None
    BY DEF ResolvePricing, IInv, ReqOK
  <1>2. UNCHANGED <<member, sessions, owed, price, cached, edited>>
    BY DEF ResolvePricing
  <1>3. member' \in [customer : Customers \union {None}, version : Nat, plan : Plans]
        /\ (Unpaid => member'.customer # LegacyCustomer)
    BY <1>2 DEF IInv, TypeOK, Unknown
  <1>4. PICK p \in {price} \union {q \in 0 .. price : cached /\ q = price - 1} :
             LET n == [t EXCEPT !.plan = None, !.pricing = <<p, t.plan>>]
             IN  IF n.customer = None THEN Go(r, AfterRetire(n)) ELSE Decide(r, n)
    BY DEF ResolvePricing
  <1>5. p \in Nat
    BY <1>4 DEF IInv, TypeOK
  <1> DEFINE n == [t EXCEPT !.plan = None, !.pricing = <<p, t.plan>>]
  <1>6. /\ n \in Request /\ n.pc = "price" /\ n.seen = t.seen /\ n.expire = t.expire /\ n.keep = None
        /\ n.customer = t.customer /\ n.pricing # None
    <2>1. <<p, t.plan>> \in Pricings
      BY <1>1, <1>5 DEF Pricings
    <2> QED BY <1>1, <2>1, KeyFacts DEF Request
  <1>7. IF n.customer = None THEN Go(r, AfterRetire(n)) ELSE Decide(r, n)
    BY <1>4
  <1> HIDE DEF n
  <1>8. CASE t.customer = None
    <2>1. Go(r, AfterRetire(n))
      BY <1>6, <1>7, <1>8
    <2>2. ReqOK(AfterRetire(n))
      BY <1>1, <1>6, AfterRetireOK DEF ReqOK
    <2> QED BY <1>2, <1>3, <2>1, <2>2, GoFacts, RequestStep
  <1>9. CASE t.customer # None
    <2>1. Decide(r, n)
      BY <1>6, <1>7, <1>9
    <2>2. CaughtUp(t) /\ Settled(t)
      BY <1>1, <1>9 DEF ReqOK, Listing
    <2>3. CaughtUp(n)
      BY <1>6, <2>2 DEF CaughtUp, Key
    <2>4. \A s \in n.seen : sessions[s].status \in {"open", "paid"} => s \in n.expire
      BY <1>1, <1>6, <2>2, KeyFacts DEF Settled, ReqOK, Request, IInv, TypeOK
    <2>5. DOMAIN req' = Reqs /\ req' = [q \in Reqs |-> req'[q]] /\ ReqOK(req'[r])
          /\ (\A q \in Reqs \ {r} : req'[q] = req[q])
      BY <1>1, <1>6, <1>9, <2>1, <2>3, <2>4, DecideOK DEF ReqOK, IInv
    <2> QED BY <1>2, <1>3, <2>5, RequestStep
  <1> QED BY <1>8, <1>9

LEMMA FailStep ==
  ASSUME IInv, NEW r \in Reqs, Fail(r)
  PROVE  IInv'
  <1>1. End(r, None) /\ UNCHANGED <<member, sessions, owed, price, cached, edited>>
    BY DEF Fail
  <1>2. member' \in [customer : Customers \union {None}, version : Nat, plan : Plans]
        /\ (Unpaid => member'.customer # LegacyCustomer)
    BY <1>1 DEF IInv, TypeOK, Unknown
  <1> QED BY <1>1, <1>2, EndFacts, RequestStep

\* A request goes on after a session it listed was expired.
LEMMA ExpiredOK ==
  ASSUME IInv, NEW r \in Reqs, NEW s \in req[r].expire, req[r].pc \in {"retire", "expire"},
         sessions[s].status \in {"open", "retired"},
         sessions' = [sessions EXCEPT ![s].status = "retired"],
         NEW n \in Request, n = [req[r] EXCEPT !.expire = req[r].expire \ {s}]
  PROVE  /\ req[r].pc = "retire" => ReqOK(AfterRetire(n))'
         /\ req[r].pc = "expire" => ReqOK(AfterExpire(n))'
  <1>1. ReqOK(req[r]) /\ req[r] \in Request
    BY DEF IInv, ReqOK
  <1>2. s \in DOMAIN sessions /\ DOMAIN sessions' = DOMAIN sessions
    BY <1>1 DEF ReqOK
  <1>3. \A x \in DOMAIN sessions : sessions[x] \in Session
    BY DEF IInv, TypeOK
  <1>4. \A x \in DOMAIN sessions :
            /\ sessions'[x].customer = sessions[x].customer
            /\ x # s => sessions'[x] = sessions[x]
    BY <1>2, <1>3 DEF Session
  <1>5. sessions'[s].status = "retired"
    BY <1>2, <1>3 DEF Session
  <1>6. Unpaid' <=> Unpaid
    BY <1>2, <1>4, <1>5 DEF Unpaid, Complete
  <1>7. n.seen = req[r].seen /\ n.expire = req[r].expire \ {s} /\ n.keep = req[r].keep /\ n.plan = req[r].plan
        /\ n.customer = req[r].customer /\ n \in Request /\ n.pricing = req[r].pricing /\ n.pc = req[r].pc
    BY <1>1 DEF Request
  <1>8. n.seen \union n.expire \subseteq DOMAIN sessions' /\ (Unpaid' => n.customer # LegacyCustomer)
    BY <1>1, <1>2, <1>6, <1>7 DEF ReqOK
  <1>9. CASE req[r].pc = "retire"
    <2>1. n.keep = None /\ (n.pricing = None => n.plan \in Plans)
      BY <1>1, <1>7, <1>9 DEF ReqOK
    <2> QED BY <1>8, <1>9, <2>1, AfterRetireOKNext
  <1>10. CASE req[r].pc = "expire"
    <2>1. CaughtUp(req[r]) /\ Settled(req[r]) /\ n.customer # None /\ n.pricing # None
      BY <1>1, <1>7, <1>10 DEF ReqOK, Listing
    <2>2. \A c : {x \in DOMAIN sessions' : sessions'[x].customer = c} = Of(c)
      BY <1>2, <1>4 DEF Of
    <2>3. CaughtUp(n)'
      BY <1>2, <1>7, <2>1, <2>2 DEF CaughtUp, Key, Of
    <2>4. \A x \in n.seen : sessions'[x].status \in {"open", "paid"} => x \in n.expire \union {n.keep}
      BY <1>4, <1>5, <1>7, <1>8, <1>10, <2>1 DEF Settled
    <2> QED BY <1>8, <1>10, <2>1, <2>3, <2>4, AfterExpireOKNext
  <1> QED BY <1>9, <1>10

LEMMA RowStep ==
  ASSUME IInv, UNCHANGED <<sessions, req>>, TypeOK', Unpaid => member'.customer # LegacyCustomer
  PROVE  IInv'
  <1>1. OwnCustomer' /\ Unknown' /\ OnePerCustomer'
    BY DEF IInv, OwnCustomer, Unknown, Unpaid, OnePerCustomer, Payable, Of
  <1>2. \A q \in Reqs : ReqOK(req[q])'
    BY SameSessions DEF IInv
  <1> QED BY <1>1, <1>2 DEF IInv

LEMMA DeliverStep ==
  ASSUME IInv, NEW s \in owed, Deliver(s)
  PROVE  IInv'
  <1> DEFINE row == [member EXCEPT !.customer = sessions[s].customer, !.version = member.version + 1]
  <1>1. s \in DOMAIN sessions /\ sessions[s].status \in Complete /\ s \in Sessions
    BY DEF IInv, TypeOK
  <1>2. sessions[s].customer \in Customers /\ (Unpaid => sessions[s].customer # LegacyCustomer)
    BY <1>1, KeyFacts DEF IInv, OwnCustomer, Unknown, Of, Sessions, Keys, Customers
  <1>3. member.version + 1 \in Nat
    BY DEF IInv, TypeOK
  <1>4. row \in [customer : Customers \union {None}, version : Nat, plan : Plans]
        /\ row.customer = sessions[s].customer
    BY <1>2, <1>3 DEF IInv, TypeOK
  <1>5. (member' = row \/ member' = member) /\ owed' \subseteq owed
        /\ UNCHANGED <<sessions, price, cached, req, edited>>
    BY DEF Deliver
  <1> HIDE DEF row
  <1>6. TypeOK'
    BY <1>4, <1>5 DEF IInv, TypeOK
  <1>7. Unpaid => member'.customer # LegacyCustomer
    BY <1>2, <1>4, <1>5 DEF IInv, Unknown
  <1> QED BY <1>5, <1>6, <1>7, RowStep

LEMMA EditStep ==
  ASSUME IInv, NEW c \in AdminCustomers \union {None}, EditCustomer(c)
  PROVE  IInv'
  <1> DEFINE row == [member EXCEPT !.customer = c, !.version = member.version + 1]
  <1>1. c \in Customers \union {None} /\ c # LegacyCustomer
    BY NoneAssumption DEF Customers
  <1>2. member.version + 1 \in Nat
    BY DEF IInv, TypeOK
  <1>3. row \in [customer : Customers \union {None}, version : Nat, plan : Plans] /\ row.customer = c
    BY <1>1, <1>2 DEF IInv, TypeOK
  <1>4. member' = row /\ edited' = TRUE /\ UNCHANGED <<sessions, owed, price, cached, req>>
    BY DEF EditCustomer
  <1> HIDE DEF row
  <1>5. TypeOK'
    BY <1>3, <1>4 DEF IInv, TypeOK
  <1> QED BY <1>1, <1>3, <1>4, <1>5, RowStep

LEMMA PriceStep ==
  ASSUME IInv, PriceReplaced \/ CacheExpires
  PROVE  IInv'
  <1>1. UNCHANGED <<member, sessions, owed, req, edited>> /\ price' \in Nat /\ cached' \in BOOLEAN
    <2>1. price \in Nat
      BY DEF IInv, TypeOK
    <2>2. CASE PriceReplaced
      BY <2>1, <2>2 DEF PriceReplaced
    <2>3. CASE CacheExpires
      BY <2>1, <2>3 DEF CacheExpires
    <2> QED BY <2>2, <2>3
  <1>2. TypeOK'
    BY <1>1 DEF IInv, TypeOK
  <1>3. Unpaid => member'.customer # LegacyCustomer
    BY <1>1 DEF IInv, Unknown
  <1> QED BY <1>1, <1>2, <1>3, RowStep

LEMMA InitInv ==
  Init => IInv
  <1> SUFFICES ASSUME Init PROVE IInv
    OBVIOUS
  <1>1. IsFiniteSet(DOMAIN sessions) /\ DOMAIN sessions \subseteq {Legacy}
    BY FS_EmptySet, FS_Singleton DEF Init
  <1>2. TypeOK
    <2>1. member \in [customer : Customers \union {None}, version : Nat, plan : Plans]
      BY DEF Init
    <2>2. sessions \in [DOMAIN sessions -> Session]
      <3>1. \A plan \in Plans : [customer |-> None, pricing |-> <<0, plan>>, status |-> "open"] \in Session
        BY DEF Session, Pricings, Statuses
      <3> QED BY <3>1 DEF Init
    <2>3. req \in [Reqs -> Request]
      BY KeyFacts DEF Init
    <2>4. \A r \in Reqs : req[r].seen \union req[r].expire \subseteq DOMAIN sessions
      BY DEF Init, Idle
    <2>5. owed \subseteq {s \in DOMAIN sessions : sessions[s].status \in Complete} /\ price \in Nat
          /\ cached \in BOOLEAN /\ edited \in BOOLEAN
      BY DEF Init
    <2> QED BY <1>1, <2>1, <2>2, <2>3, <2>4, <2>5 DEF TypeOK, Sessions
  <1>3. \A x \in DOMAIN sessions : x = Legacy /\ sessions[x].customer = None /\ sessions[x].status = "open"
    BY DEF Init
  <1>4. OwnCustomer /\ OnePerCustomer
    BY <1>3 DEF OwnCustomer, OnePerCustomer, Payable, Complete
  <1>5. Unknown
    BY <1>3, NoneAssumption DEF Unknown, Of, Init
  <1>6. \A r \in Reqs : ReqOK(req[r])
    <2>1. /\ Idle.pc = "idle" /\ Idle.seen = {} /\ Idle.expire = {} /\ Idle.keep = None
          /\ Idle.customer = None /\ Idle \in Request
      BY KeyFacts DEF Idle
    <2>2. ReqOK(Idle)
      BY <2>1, NoneAssumption DEF ReqOK, Listing
    <2> QED BY <2>2 DEF Init
  <1> QED BY <1>2, <1>4, <1>5, <1>6 DEF IInv

\* A step that may change statuses and customers of sessions, and adds no session.
LEMMA SessionStep ==
  ASSUME IInv, UNCHANGED <<member, price, cached, edited>>,
         DOMAIN sessions' = DOMAIN sessions, sessions' \in [DOMAIN sessions -> Session],
         owed' \subseteq {s \in DOMAIN sessions : sessions'[s].status \in Complete},
         req' \in [Reqs -> Request],
         \A q \in Reqs : ReqOK(req[q])',
         OwnCustomer', Unknown', OnePerCustomer'
  PROVE  IInv'
  <1>1. \A q \in Reqs : req'[q].seen \union req'[q].expire \subseteq DOMAIN sessions'
    BY DEF ReqOK
  <1>2. TypeOK'
    BY <1>1 DEF IInv, TypeOK
  <1> QED BY <1>2 DEF IInv

LEMMA ExpireStep ==
  ASSUME IInv, NEW r \in Reqs, Expire(r)
  PROVE  IInv'
  <1>1. ReqOK(req[r]) /\ req[r] \in Request /\ req[r].pc \in {"retire", "expire"}
    BY DEF IInv, ReqOK, Expire
  <1>2. UNCHANGED <<member, owed, price, cached, edited>>
    BY DEF Expire
  <1>3. CASE End(r, None) /\ UNCHANGED sessions
    <2>1. member' \in [customer : Customers \union {None}, version : Nat, plan : Plans]
          /\ (Unpaid => member'.customer # LegacyCustomer)
      BY <1>2 DEF IInv, TypeOK, Unknown
    <2> QED BY <1>2, <1>3, <2>1, EndFacts, RequestStep
  <1>4. ASSUME NEW s \in req[r].expire, sessions[s].status \in {"open", "retired"},
               sessions' = [sessions EXCEPT ![s].status = "retired"],
               LET t == [req[r] EXCEPT !.expire = req[r].expire \ {s}]
               IN  Go(r, IF req[r].pc = "retire" THEN AfterRetire(t) ELSE AfterExpire(t))
        PROVE  IInv'
    <2>1. s \in DOMAIN sessions /\ DOMAIN sessions' = DOMAIN sessions
      BY <1>1, <1>4 DEF ReqOK
    <2>2. \A x \in DOMAIN sessions : sessions[x] \in Session
      BY DEF IInv, TypeOK
    <2>3. \A x \in DOMAIN sessions :
              /\ sessions'[x].customer = sessions[x].customer
              /\ x # s => sessions'[x] = sessions[x]
              /\ sessions'[x] \in Session
      BY <1>4, <2>1, <2>2 DEF Session, Statuses
    <2>4. sessions'[s].status = "retired"
      BY <1>4, <2>1, <2>2 DEF Session
    <2>5. PICK n \in Request : n = [req[r] EXCEPT !.expire = req[r].expire \ {s}]
      BY <1>1 DEF Request
    <2>6. Go(r, IF req[r].pc = "retire" THEN AfterRetire(n) ELSE AfterExpire(n))
      BY <1>4, <2>5
    <2>7. PICK m : m = IF req[r].pc = "retire" THEN AfterRetire(n) ELSE AfterExpire(n)
      OBVIOUS
    <2>8. ReqOK(m)'
      BY <1>1, <1>4, <2>5, <2>7, ExpiredOK
    <2>9. req' = [req EXCEPT ![r] = m]
      BY <2>6, <2>7 DEF Go
    <2>10. \A x \in DOMAIN sessions :
               /\ sessions'[x].status \in {"open", "paid"} => sessions'[x].status = sessions[x].status
               /\ sessions'[x].status \in Complete <=> sessions[x].status \in Complete
      BY <1>4, <2>3, <2>4 DEF Complete
    <2>11. Unpaid' <=> Unpaid
      BY <2>1, <2>10 DEF Unpaid
    <2>12. \A c : {x \in DOMAIN sessions' : sessions'[x].customer = c} = Of(c)
      BY <2>1, <2>3 DEF Of
    <2>13. OwnCustomer'
      BY <2>1, <2>3, <2>10 DEF IInv, OwnCustomer
    <2>14. Unknown'
      BY <1>2, <2>11, <2>12 DEF IInv, Unknown, Of
    <2>15. OnePerCustomer'
      BY <2>1, <2>3, <2>10 DEF IInv, OnePerCustomer, Payable
    <2>16. \A q \in Reqs : ReqOK(req[q])'
      <3> TAKE q \in Reqs
      <3>1. CASE q = r
        BY <2>8, <2>9, <3>1 DEF IInv, TypeOK
      <3>2. CASE q # r
        <4>1. req'[q] = req[q]
          BY <2>9, <3>2 DEF IInv, TypeOK
        <4>2. Listing(req[q]) => CaughtUp(req[q])
          BY DEF IInv, ReqOK
        <4>3. Listing(req[q]) => CaughtUp(req[q])'
          BY <2>1, <2>12, <4>1, <4>2 DEF CaughtUp, Key, Of
        <4> QED BY <2>1, <2>10, <2>11, <4>1, <4>3, OtherRequest
      <3> QED BY <3>1, <3>2
    <2>17. owed' \subseteq {x \in DOMAIN sessions : sessions'[x].status \in Complete}
      BY <1>2, <2>10 DEF IInv, TypeOK
    <2>18. req' \in [Reqs -> Request]
      BY <2>8, <2>9 DEF IInv, TypeOK, ReqOK
    <2>19. sessions' \in [DOMAIN sessions -> Session]
      BY <1>4, <2>3 DEF IInv, TypeOK
    <2> QED BY <1>2, <2>1, <2>13, <2>14, <2>15, <2>16, <2>17, <2>18, <2>19, SessionStep
  <1> QED BY <1>3, <1>4 DEF Expire

LEMMA EndsStep ==
  ASSUME IInv, NEW s \in DOMAIN sessions, Ends(s)
  PROVE  IInv'
  <1>1. UNCHANGED <<member, owed, price, cached, req, edited>> /\ DOMAIN sessions' = DOMAIN sessions
    BY DEF Ends
  <1>2. \A x \in DOMAIN sessions : sessions[x] \in Session
    BY DEF IInv, TypeOK
  <1>3. \A x \in DOMAIN sessions :
            /\ sessions'[x].customer = sessions[x].customer
            /\ x # s => sessions'[x] = sessions[x]
            /\ sessions'[x] \in Session
    BY <1>2 DEF Ends, Session, Statuses
  <1>4. \/ sessions[s].status = "paid" /\ sessions'[s].status = "ended"
        \/ sessions[s].status = "open" /\ sessions'[s].status = "lapsed"
    BY <1>2 DEF Ends, Session
  <1>5. sessions' \in [DOMAIN sessions -> Session]
    BY <1>3 DEF Ends, IInv, TypeOK
  <1>6. \A x \in DOMAIN sessions :
            /\ sessions'[x].status \in {"open", "paid"} => sessions'[x].status = sessions[x].status
            /\ sessions'[x].status \in Complete <=> sessions[x].status \in Complete
    BY <1>3, <1>4 DEF Complete
  <1>7. Unpaid' <=> Unpaid
    BY <1>1, <1>6 DEF Unpaid
  <1>8. \A c : {x \in DOMAIN sessions' : sessions'[x].customer = c} = Of(c)
    BY <1>1, <1>3 DEF Of
  <1>9. OwnCustomer'
    BY <1>1, <1>3, <1>6 DEF IInv, OwnCustomer
  <1>10. Unknown'
    BY <1>1, <1>7, <1>8 DEF IInv, Unknown, Of
  <1>11. OnePerCustomer'
    BY <1>1, <1>3, <1>6 DEF IInv, OnePerCustomer, Payable
  <1>12. \A q \in Reqs : ReqOK(req[q])'
    <2> TAKE q \in Reqs
    <2>1. Listing(req[q]) => CaughtUp(req[q])
      BY DEF IInv, ReqOK
    <2>2. Listing(req[q]) => CaughtUp(req[q])'
      BY <1>1, <1>8, <2>1 DEF CaughtUp, Key, Of
    <2> QED BY <1>1, <1>6, <1>7, <2>2, OtherRequest
  <1>13. owed' \subseteq {x \in DOMAIN sessions : sessions'[x].status \in Complete}
    BY <1>1, <1>6 DEF IInv, TypeOK
  <1>14. req' \in [Reqs -> Request]
    BY <1>1 DEF IInv, TypeOK
  <1> QED BY <1>1, <1>5, <1>9, <1>10, <1>11, <1>12, <1>13, <1>14, SessionStep

LEMMA PayStep ==
  ASSUME IInv, NEW s \in DOMAIN sessions, Pay(s)
  PROVE  IInv'
  <1>1. /\ UNCHANGED <<member, price, cached, req, edited>> /\ DOMAIN sessions' = DOMAIN sessions
        /\ sessions[s].status = "open" /\ owed' = owed \union {s}
    BY DEF Pay
  <1>2. \A x \in DOMAIN sessions : sessions[x] \in Session
    BY DEF IInv, TypeOK
  <1>3. /\ sessions'[s].status = "paid"
        /\ sessions'[s].customer = IF sessions[s].customer = None THEN LegacyCustomer ELSE sessions[s].customer
        /\ sessions'[s] \in Session
    <2> DEFINE customer == IF sessions[s].customer = None THEN LegacyCustomer ELSE sessions[s].customer
    <2>1. customer \in Customers \union {None} /\ sessions[s] \in Session
      BY <1>2 DEF Session, Customers
    <2>2. sessions'[s] = [sessions[s] EXCEPT !.status = "paid", !.customer = customer]
      BY DEF Pay
    <2> HIDE DEF customer
    <2>3. sessions'[s].status = "paid" /\ sessions'[s].customer = customer /\ sessions'[s] \in Session
      BY <2>1, <2>2 DEF Session, Statuses
    <2> QED BY <2>3 DEF customer
  <1>4. \A x \in DOMAIN sessions : x # s => sessions'[x] = sessions[x]
    BY DEF Pay
  <1>5. sessions' \in [DOMAIN sessions -> Session]
    BY <1>2, <1>3, <1>4 DEF Pay, IInv, TypeOK
  <1>6. OwnCustomer /\ Unknown /\ OnePerCustomer
    BY DEF IInv
  <1>7. \A x \in DOMAIN sessions : x \in Sessions
    BY DEF IInv, TypeOK
  <1> DEFINE Kept == \A q \in Reqs : Listing(req[q]) => CaughtUp(req[q])'
  <1>8. ASSUME s # Legacy
        PROVE  OwnCustomer' /\ Unknown' /\ OnePerCustomer' /\ (Unpaid' => Unpaid) /\ Kept
    <2>1. \A x \in DOMAIN sessions : sessions'[x].customer = sessions[x].customer
      <3>1. sessions[s].customer # None
        <4>1. s \in Keys /\ sessions[s].customer = s[1]
          BY <1>6, <1>7, <1>8 DEF OwnCustomer, Sessions
        <4>2. s[1] \in Customers
          BY <4>1 DEF Keys
        <4> QED BY <4>1, <4>2, KeyFacts
      <3>2. sessions'[s].customer = sessions[s].customer
        BY <1>3, <3>1
      <3> QED BY <1>4, <3>2
    <2>2. Unpaid' <=> Unpaid
      BY <1>1, <1>4, <1>8 DEF Unpaid
    <2>3. \A c : {x \in DOMAIN sessions' : sessions'[x].customer = c} = Of(c)
      BY <1>1, <2>1 DEF Of
    <2>4. OwnCustomer' /\ Unknown' /\ OnePerCustomer'
      <3>1. OwnCustomer'
        BY <1>1, <1>4, <1>6, <1>8, <2>1 DEF OwnCustomer
      <3>2. Unknown'
        BY <1>1, <1>6, <2>2, <2>3 DEF Unknown, Of
      <3>3. OnePerCustomer'
        BY <1>1, <1>4, <1>6, <2>1 DEF OnePerCustomer, Payable
      <3> QED BY <3>1, <3>2, <3>3
    <2>5. \A q \in Reqs : Listing(req[q]) => CaughtUp(req[q])'
      <3> SUFFICES ASSUME NEW q \in Reqs, Listing(req[q]) PROVE CaughtUp(req[q])'
        OBVIOUS
      <3>1. CaughtUp(req[q])
        BY DEF IInv, ReqOK
      <3>2. {x \in DOMAIN sessions' : sessions'[x].customer = req[q].customer} = Of(req[q].customer)
        BY <2>3
      <3> QED BY <1>1, <3>1, <3>2 DEF CaughtUp, Key, Of
    <2> QED BY <2>2, <2>4, <2>5
  <1>9. ASSUME s = Legacy
        PROVE  OwnCustomer' /\ Unknown' /\ OnePerCustomer' /\ (Unpaid' => Unpaid) /\ Kept
    <2>1. Unpaid /\ ~Unpaid' /\ sessions'[s].customer = LegacyCustomer /\ sessions[s].customer = None
      BY <1>1, <1>3, <1>6, <1>9 DEF Unpaid, Complete, OwnCustomer
    <2>2. OwnCustomer'
      BY <1>1, <1>3, <1>4, <1>6, <1>9, <2>1 DEF OwnCustomer, Complete
    <2>3. Unknown'
      BY <2>1 DEF Unknown
    <2>4. \A x \in DOMAIN sessions : sessions[x].customer # LegacyCustomer
      BY <1>6, <2>1 DEF Unknown, Of
    <2>5. OnePerCustomer'
      BY <1>1, <1>4, <1>6, <2>1, <2>4 DEF OnePerCustomer, Payable
    <2>6. Kept
      <3> SUFFICES ASSUME NEW q \in Reqs, Listing(req[q]) PROVE CaughtUp(req[q])'
        OBVIOUS
      <3>1. CaughtUp(req[q]) /\ req[q].customer # None /\ req[q].customer # LegacyCustomer
        BY <2>1 DEF IInv, ReqOK
      <3>2. {x \in DOMAIN sessions' : sessions'[x].customer = req[q].customer} = Of(req[q].customer)
        BY <1>1, <1>4, <2>1, <3>1 DEF Of
      <3> QED BY <1>1, <3>1, <3>2 DEF CaughtUp, Key, Of
    <2> QED BY <2>1, <2>2, <2>3, <2>5, <2>6
  <1>10. OwnCustomer' /\ Unknown' /\ OnePerCustomer' /\ (Unpaid' => Unpaid) /\ Kept
    BY <1>8, <1>9
  <1>11. \A x \in DOMAIN sessions : sessions'[x].status \in {"open", "paid"} =>
             sessions[x].status = "open" \/ sessions'[x].status = sessions[x].status
    BY <1>1, <1>4
  <1>12. \A q \in Reqs : ReqOK(req[q])'
    BY <1>1, <1>10, <1>11, OtherRequest
  <1>13. owed' \subseteq {x \in DOMAIN sessions : sessions'[x].status \in Complete}
    BY <1>1, <1>3, <1>4 DEF IInv, TypeOK, Complete
  <1>14. req' \in [Reqs -> Request]
    BY <1>1 DEF IInv, TypeOK
  <1> QED BY <1>1, <1>5, <1>10, <1>12, <1>13, <1>14, SessionStep

\* A new session is its customer's only one that is paid or could be.
LEMMA CreateStep ==
  ASSUME IInv, NEW r \in Reqs, Create(r)
  PROVE  IInv'
  <1>1. ReqOK(req[r]) /\ req[r] \in Request /\ req[r].pc = "create"
    BY DEF IInv, ReqOK, Create
  <1>2. UNCHANGED <<member, owed, price, cached, edited>>
    BY DEF Create
  <1>3. /\ req[r].customer \in Customers /\ req[r].pricing \in Pricings
        /\ CaughtUp(req[r]) /\ Settled(req[r]) /\ req[r].keep = None /\ req[r].expire = {}
    BY <1>1 DEF ReqOK, Listing, Request
  <1>4. PICK k \in Keys : k = Key(req[r])
    BY <1>1, <1>3, KeyFacts, NextKey DEF ReqOK, IInv
  <1>5. k \in Sessions /\ k # Legacy /\ k # None /\ k[1] = req[r].customer
    BY <1>4, KeyFacts DEF Sessions, Key
  <1>6. CASE k \in DOMAIN sessions
    <2>1. PICK link \in Sessions \union {None} : End(r, link)
      BY <1>4, <1>5, <1>6 DEF Create
    <2>2. UNCHANGED sessions
      BY <1>4, <1>6 DEF Create
    <2>3. member' \in [customer : Customers \union {None}, version : Nat, plan : Plans]
          /\ (Unpaid => member'.customer # LegacyCustomer)
      BY <1>2 DEF IInv, TypeOK, Unknown
    <2> QED BY <1>2, <2>1, <2>2, <2>3, EndFacts, RequestStep
  <1>7. CASE k \notin DOMAIN sessions
    <2> DEFINE new == [customer |-> req[r].customer, pricing |-> req[r].pricing, status |-> "open"]
    <2>1. sessions' = [x \in DOMAIN sessions \union {k} |-> IF x = k THEN new ELSE sessions[x]]
          /\ End(r, k)
      BY <1>4, <1>7 DEF Create
    <2>2. new \in Session /\ new.customer = req[r].customer /\ new.status = "open"
      BY <1>3 DEF Session, Statuses
    <2> HIDE DEF new
    <2>3. DOMAIN sessions' = DOMAIN sessions \union {k} /\ sessions'[k] = new
          /\ (\A x \in DOMAIN sessions : sessions'[x] = sessions[x])
      BY <1>7, <2>1
    <2>4. IsFiniteSet(DOMAIN sessions')
      BY <2>3, FS_AddElement DEF IInv, TypeOK
    <2>5. sessions' \in [DOMAIN sessions' -> Session]
      BY <2>1, <2>2, <2>3 DEF IInv, TypeOK
    <2>6. \A x \in Of(req[r].customer) : x \notin Payable
      <3>1. Of(req[r].customer) = req[r].seen
        BY <1>3, <1>4, <1>7 DEF CaughtUp
      <3>2. \A x \in req[r].seen : x # None
        BY <1>1, KeyFacts DEF Request
      <3> QED BY <1>1, <1>3, <3>1, <3>2 DEF Settled, Payable
    <2>7. OnePerCustomer'
      BY <2>2, <2>3, <2>6 DEF IInv, OnePerCustomer, Payable, Of
    <2>8. OwnCustomer'
      BY <1>5, <2>2, <2>3 DEF IInv, OwnCustomer
    <2>9. Unpaid' <=> Unpaid
      BY <1>5, <2>3 DEF Unpaid
    <2>10. Unknown'
      BY <1>1, <1>2, <2>2, <2>3, <2>9 DEF IInv, Unknown, Of, ReqOK
    <2>11. ReqOK(req[r])' /\ req'[r] \in Request
      <3>1. ReqOK([Idle EXCEPT !.link = k])'
        BY <1>5, EndedOK
      <3>2. [Idle EXCEPT !.link = k] \in Request
        BY <3>1 DEF ReqOK
      <3>3. req'[r] = [Idle EXCEPT !.link = k]
        BY <2>1 DEF End, IInv, TypeOK
      <3> QED BY <3>1, <3>2, <3>3
    <2>12. ASSUME NEW q \in Reqs \ {r}, Listing(req[q])
           PROVE  CaughtUp(req[q])'
      <3>1. req'[q] = req[q] /\ CaughtUp(req[q])
        BY <2>1, <2>12 DEF End, IInv, TypeOK, ReqOK
      <3>2. CASE req[q].customer = req[r].customer
        <4>1. req[q].seen = Of(req[q].customer) => Key(req[q]) \in DOMAIN sessions'
          BY <1>3, <1>4, <1>7, <2>3, <3>2 DEF CaughtUp, Key
        <4> QED BY <2>3, <3>1, <4>1 DEF CaughtUp, Key, Of
      <3>3. CASE req[q].customer # req[r].customer
        <4>1. {x \in DOMAIN sessions' : sessions'[x].customer = req[q].customer} = Of(req[q].customer)
          BY <2>2, <2>3, <3>3 DEF Of
        <4> QED BY <2>3, <3>1, <4>1 DEF CaughtUp, Key, Of
      <3> QED BY <3>2, <3>3
    <2>13. \A q \in Reqs \ {r} : req'[q] = req[q]
      BY <2>1 DEF End, IInv, TypeOK
    <2>14. \A q \in Reqs \ {r} : ReqOK(req[q])'
      <3> TAKE q \in Reqs \ {r}
      <3>1. Listing(req[q]) => CaughtUp(req[q])'
        BY <2>12
      <3> QED BY <2>3, <2>9, <2>13, <3>1, OtherRequest
    <2>15. \A q \in Reqs : ReqOK(req[q])'
      BY <2>11, <2>14
    <2>16. req' \in [Reqs -> Request]
      BY <2>1, <2>11 DEF End, IInv, TypeOK
    <2>17. \A q \in Reqs : req'[q].seen \union req'[q].expire \subseteq DOMAIN sessions'
      BY <2>15 DEF ReqOK
    <2>18. owed' \subseteq {x \in DOMAIN sessions' : sessions'[x].status \in Complete}
      BY <1>2, <2>3 DEF IInv, TypeOK
    <2>19. TypeOK'
      BY <1>2, <1>5, <2>3, <2>4, <2>5, <2>16, <2>17, <2>18 DEF IInv, TypeOK
    <2> QED BY <2>7, <2>8, <2>10, <2>15, <2>19 DEF IInv
  <1> QED BY <1>6, <1>7

-----------------------------------------------------------------------------
(* Every step. *)

LEMMA NextInv ==
  IInv /\ [Next]_vars => IInv'
  <1> SUFFICES ASSUME IInv, [Next]_vars PROVE IInv'
    OBVIOUS
  <1>1. ASSUME NEW r \in Reqs, Start(r) \/ Step(r) \/ Fail(r)
        PROVE  IInv'
    BY <1>1, StartStep, FailStep, RecentStep, CreateCustomerStep, LinkStep, ExistingCheckoutStep,
       ResolvePricingStep, ExpireStep, CreateStep DEF Step
  <1>2. ASSUME NEW r \in Reqs, NEW plan \in Plans, StartWithPlan(r, plan)
        PROVE  IInv'
    BY <1>2, StartWithPlanStep
  <1>3. ASSUME NEW s \in DOMAIN sessions, Pay(s) \/ Ends(s)
        PROVE  IInv'
    BY <1>3, PayStep, EndsStep
  <1>4. ASSUME NEW s \in owed, Deliver(s)
        PROVE  IInv'
    BY <1>4, DeliverStep
  <1>5. CASE PriceReplaced \/ CacheExpires
    BY <1>5, PriceStep
  <1>6. ASSUME NEW c \in AdminCustomers \union {None}, EditCustomer(c)
        PROVE  IInv'
    BY <1>6, EditStep
  <1>7. CASE UNCHANGED vars
    <2>1. TypeOK' /\ (Unpaid => member'.customer # LegacyCustomer)
      BY <1>7 DEF vars, IInv, TypeOK, Unknown
    <2> QED BY <1>7, <2>1, RowStep DEF vars
  <1> QED BY <1>1, <1>2, <1>3, <1>4, <1>5, <1>6, <1>7 DEF Next

LEMMA Inductive == Spec => []IInv
  BY InitInv, NextInv, PTL DEF Spec

-----------------------------------------------------------------------------
(* One customer, until an admin enters another. *)

\* A request on the way to a new link.
Linking(t) == t.pc \in {"retire", "customer", "link"} \/ (t.pc = "price" /\ t.customer = None)

\* A request that has listed sessions, or is about to, does so for the member's customer.
\* One that will link a customer has seen to the customerless session, or still has to
\* expire it, unless that session's own customer is the one it links.
OneReq(t) ==
    /\ t.pc = "sessions" \/ Listing(t) => t.customer = member.customer
    /\ t.pc \in {"customer", "link"} => t.expire = {}
    /\ Linking(t) => t.customer = LegacyCustomer \/ (Legacy \in Payable => Legacy \in t.expire)

OneInv ==
    ~edited =>
        /\ \A s \in DOMAIN sessions : s # Legacy => s[1] = member.customer
        /\ member.customer \notin {None, LegacyCustomer} => Legacy \notin Payable
        /\ \A r \in Reqs : OneReq(req[r])

\* A request that has ended has nothing to do with it.
LEMMA EndedOne ==
  ASSUME NEW link \in Sessions \union {None}
  PROVE  OneReq([Idle EXCEPT !.link = link])'
  <1>1. [Idle EXCEPT !.link = link].pc = "idle"
    BY DEF Idle
  <1> QED BY <1>1 DEF OneReq, Listing, Linking

\* What a step has to show.
LEMMA OneStep ==
  ASSUME IInv, OneInv, ~edited, edited' = edited,
         member.customer # None => member'.customer = member.customer,
         Legacy \in Payable' => Legacy \in Payable,
         \/ member'.customer \in {member.customer, LegacyCustomer}
         \/ Legacy \notin Payable,
         \A s \in DOMAIN sessions' : s # Legacy => s \in DOMAIN sessions \/ s[1] = member'.customer,
         \A q \in Reqs : req'[q] = req[q] \/ OneReq(req[q])'
  PROVE  OneInv'
  <1>1. /\ \A s \in DOMAIN sessions : s # Legacy => s[1] = member.customer
        /\ member.customer \notin {None, LegacyCustomer} => Legacy \notin Payable
        /\ \A r \in Reqs : OneReq(req[r]) /\ ReqOK(req[r])
    BY DEF OneInv, IInv
  <1>2. \A s \in DOMAIN sessions : s # Legacy => s[1] # None
    BY KeyFacts DEF IInv, TypeOK, Sessions, Keys
  <1>3. \A s \in DOMAIN sessions' : s # Legacy => s[1] = member'.customer
    BY <1>1, <1>2
  <1>4. member'.customer \notin {None, LegacyCustomer} => Legacy \notin Payable'
    BY <1>1
  <1>5. ASSUME NEW q \in Reqs, req'[q] = req[q]
        PROVE  OneReq(req[q])'
    <2>1. req[q].pc = "sessions" \/ Listing(req[q]) => req[q].customer # None
      BY <1>1 DEF ReqOK
    <2>2. req[q].pc = "sessions" \/ Listing(req[q]) => req[q].customer = member'.customer
      BY <1>1, <2>1 DEF OneReq
    <2> QED BY <1>1, <1>5, <2>2 DEF OneReq, Listing, Linking
  <1> QED BY <1>3, <1>4, <1>5 DEF OneInv

\* A step of one request that leaves the sessions and the customer alone.
LEMMA OneRequestStep ==
  ASSUME IInv, OneInv, ~edited, edited' = edited, NEW r \in Reqs, UNCHANGED sessions,
         member'.customer = member.customer, NEW t, Go(r, t), OneReq(t)'
  PROVE  OneInv'
  <1>1. req'[r] = t /\ (\A q \in Reqs \ {r} : req'[q] = req[q])
    BY GoFacts
  <1>2. OneReq(req[r])'
    BY <1>1 DEF OneReq, Listing, Linking
  <1>3. Payable' = Payable
    BY DEF Payable
  <1> QED BY <1>1, <1>2, <1>3, OneStep

\* AfterRetire keeps what the request has seen to.
LEMMA AfterRetireOne ==
  ASSUME NEW t \in Request,
         t.customer = LegacyCustomer \/ (Legacy \in Payable' => Legacy \in t.expire)
  PROVE  OneReq(AfterRetire(t))'
  <1>1. PICK n \in Request :
            /\ n = AfterRetire(t) /\ n.expire = t.expire /\ n.customer = t.customer
            /\ n.pc \in {"retire", "customer", "link"} /\ (n.pc # "retire" => t.expire = {})
    BY AfterRetireShape
  <1>2. OneReq(n)'
    BY <1>1 DEF OneReq, Listing, Linking
  <1> QED BY <1>1, <1>2

\* AfterExpire keeps the customer.
LEMMA AfterExpireOne ==
  ASSUME NEW t \in Request, t.customer = member'.customer, t.customer # None
  PROVE  OneReq(AfterExpire(t))'
  <1>1. CASE AfterExpire(t) = [Idle EXCEPT !.link = t.keep]
    <2>1. t.keep \in Sessions \union {None}
      BY DEF Request
    <2> QED BY <1>1, <2>1, EndedOne
  <1>2. ASSUME NEW n \in Request,
               /\ n = AfterExpire(t) /\ n.customer = t.customer /\ n.pc \in {"expire", "create"}
        PROVE  OneReq(n)'
    BY <1>2 DEF OneReq, Listing, Linking
  <1> QED BY <1>1, <1>2, AfterExpireShape

LEMMA DecideOne ==
  ASSUME IInv, OneInv, ~edited, edited' = edited, NEW r \in Reqs, UNCHANGED <<sessions, member>>,
         NEW t \in Request, Decide(r, t), t.customer = member.customer, t.customer # None
  PROVE  OneInv'
  <1>1. CASE t.pricing = None
    <2>1. PICK n \in Request : n = [t EXCEPT !.pc = "price"]
      BY DEF Request, PCs
    <2>2. n.pc = "price" /\ n.customer = t.customer
      BY <2>1 DEF Request
    <2>3. OneReq(n)'
      BY <2>2 DEF OneReq, Listing, Linking
    <2>4. Go(r, n)
      BY <1>1, <2>1 DEF Decide
    <2> QED BY <2>3, <2>4, OneRequestStep
  <1>2. CASE t.pricing # None
    <2>1. PICK keep \in t.expire \union {None} :
             Go(r, AfterExpire([t EXCEPT !.keep = keep, !.expire = t.expire \ {keep}]))
      BY <1>2 DEF Decide, Reusable
    <2>2. keep \in Sessions \union {None}
      BY DEF Request
    <2>3. PICK n \in Request : n = [t EXCEPT !.keep = keep, !.expire = t.expire \ {keep}]
      BY <2>2 DEF Request
    <2>4. n.customer = t.customer
      BY <2>3 DEF Request
    <2>5. OneReq(AfterExpire(n))'
      BY <2>4, AfterExpireOne
    <2>6. Go(r, AfterExpire(n))
      BY <2>1, <2>3
    <2> QED BY <2>5, <2>6, OneRequestStep
  <1> QED BY <1>1, <1>2

\* A handler begins with the member's customer.
LEMMA BeginOne ==
  ASSUME IInv, OneInv, ~edited, edited' = edited, NEW r \in Reqs, UNCHANGED sessions,
         NEW row \in [customer : Customers \union {None}, version : Nat, plan : Plans],
         member' = row, row.customer = member.customer, Begin(r, row)
  PROVE  OneInv'
  <1> DEFINE m == [Idle EXCEPT !.pc = IF row.customer = None THEN "recent" ELSE "sessions",
                       !.customer = row.customer, !.plan = row.plan,
                       !.version = IF row.customer = None THEN row.version ELSE 0]
  <1>1. m.pc \in {"recent", "sessions"} /\ m.customer = row.customer
    BY DEF Idle
  <1>2. Go(r, m)
    BY DEF Begin
  <1> HIDE DEF m
  <1>3. PICK t : t = m
    OBVIOUS
  <1>4. OneReq(t)'
    BY <1>1, <1>3 DEF OneReq, Listing, Linking
  <1> QED BY <1>2, <1>3, <1>4, OneRequestStep

LEMMA StartOne ==
  ASSUME IInv, OneInv, ~edited, NEW r \in Reqs, Start(r) \/ (\E plan \in Plans : StartWithPlan(r, plan))
  PROVE  OneInv'
  <1>1. UNCHANGED <<sessions, edited>> /\ Begin(r, member')
    BY DEF Start, StartWithPlan, Begin, Go
  <1>2. IInv'
    BY StartStep, StartWithPlanStep
  <1>3. PICK row \in [customer : Customers \union {None}, version : Nat, plan : Plans] : row = member'
    BY <1>2 DEF IInv, TypeOK
  <1>4. row.customer = member.customer
    BY <1>3 DEF Start, StartWithPlan, IInv, TypeOK
  <1>5. Begin(r, row)
    BY <1>1, <1>3 DEF Begin, Go
  <1> QED BY <1>1, <1>3, <1>4, <1>5, BeginOne

LEMMA EndOne ==
  ASSUME IInv, OneInv, ~edited, NEW r \in Reqs, NEW link \in Sessions \union {None}, End(r, link),
         UNCHANGED <<sessions, member, edited>>
  PROVE  OneInv'
  <1>1. PICK t : t = [Idle EXCEPT !.link = link]
    OBVIOUS
  <1>2. Go(r, t)
    BY <1>1 DEF End, Go
  <1>3. OneReq(t)'
    BY <1>1, EndedOne
  <1> QED BY <1>2, <1>3, OneRequestStep

LEMMA CreateCustomerOne ==
  ASSUME IInv, OneInv, ~edited, NEW r \in Reqs, CreateCustomer(r)
  PROVE  OneInv'
  <1>1. /\ req[r] \in Request /\ req[r].pc = "customer" /\ OneReq(req[r]) /\ req[r].customer = None
        /\ UNCHANGED <<member, sessions, edited>>
    BY DEF IInv, ReqOK, OneInv, CreateCustomer
  <1>2. req[r].expire = {} /\ Legacy \notin Payable
    BY <1>1, NoneAssumption DEF OneReq, Linking
  <1>3. PICK n : n = [req[r] EXCEPT !.pc = "link", !.customer = req[r].version]
    OBVIOUS
  <1>4. n.pc = "link" /\ n.expire = {} /\ Go(r, n)
    BY <1>1, <1>2, <1>3 DEF Request, CreateCustomer
  <1>5. Legacy \notin Payable'
    BY <1>1, <1>2 DEF Payable
  <1>6. OneReq(n)'
    BY <1>4, <1>5 DEF OneReq, Listing, Linking
  <1> QED BY <1>1, <1>4, <1>6, OneRequestStep

LEMMA ExistingCheckoutOne ==
  ASSUME IInv, OneInv, ~edited, NEW r \in Reqs, ExistingCheckout(r)
  PROVE  OneInv'
  <1>1. /\ req[r] \in Request /\ OneReq(req[r]) /\ ReqOK(req[r])
        /\ UNCHANGED <<member, sessions, edited>>
    BY DEF IInv, ReqOK, OneInv, ExistingCheckout
  <1>2. req[r].customer = member.customer /\ req[r].customer # None
    BY <1>1 DEF ExistingCheckout, OneReq, ReqOK, Listing
  <1>3. CASE End(r, None)
    BY <1>1, <1>3, EndOne
  <1>4. CASE Decide(r, req[r])
    BY <1>1, <1>2, <1>4, DecideOne
  <1>5. CASE Go(r, [req[r] EXCEPT !.pc = "subscriptions", !.seen = Of(req[r].customer),
                                  !.expire = Open(Of(req[r].customer))])
    <2>1. PICK n : n = [req[r] EXCEPT !.pc = "subscriptions", !.seen = Of(req[r].customer),
                                      !.expire = Open(Of(req[r].customer))]
      OBVIOUS
    <2>2. n.pc = "subscriptions" /\ n.customer = req[r].customer
      BY <1>1, <2>1 DEF Request
    <2>3. OneReq(n)'
      BY <1>1, <1>2, <2>2 DEF OneReq, Listing, Linking
    <2> QED BY <1>1, <1>5, <2>1, <2>3, OneRequestStep
  <1> QED BY <1>3, <1>4, <1>5 DEF ExistingCheckout

LEMMA RecentOne ==
  ASSUME IInv, OneInv, ~edited, NEW r \in Reqs, Recent(r)
  PROVE  OneInv'
  <1> DEFINE found == {sessions[s].customer : s \in {x \in DOMAIN sessions :
                           sessions[x].status \in Complete \union {"open"}}} \ {None}
  <1> DEFINE loose == Open(Of(None))
  <1>1. /\ req[r] \in Request /\ req[r].pc = "recent" /\ req[r].customer = None
        /\ UNCHANGED <<member, sessions, edited>>
    BY DEF IInv, ReqOK, Recent
  <1>2. loose \subseteq Sessions
    BY DEF Open, Of, IInv, TypeOK
  <1>3. Payable' = Payable
    BY <1>1 DEF Payable
  <1>4. Legacy \in Payable => Legacy \in loose \/ LegacyCustomer \in found
    BY NoneAssumption DEF Payable, IInv, OwnCustomer, Open, Of, Complete
  <1>5. CASE End(r, None)
    BY <1>1, <1>5, EndOne
  <1>6. ASSUME NEW c \in found, Cardinality(found) = 1,
               Go(r, AfterRetire([req[r] EXCEPT !.customer = c, !.expire = loose]))
        PROVE  OneInv'
    <2>1. c \in Customers /\ (LegacyCustomer \in found => c = LegacyCustomer)
      <3>1. PICK x : found = {x}
        <4> DEFINE S == {x \in DOMAIN sessions : sessions[x].status \in Complete \union {"open"}}
        <4> DEFINE T == {sessions[s].customer : s \in S}
        <4>1. IsFiniteSet(S)
          BY FS_Subset DEF IInv, TypeOK
        <4>2. [s \in S |-> sessions[s].customer] \in Surjection(S, T)
          BY DEF Surjection
        <4>3. IsFiniteSet(T)
          BY <4>1, <4>2, FS_Surjection
        <4>4. IsFiniteSet(found)
          BY <4>3, FS_Subset
        <4> QED BY <1>6, <4>4, FS_Singleton
      <3>2. found \subseteq Customers
        BY DEF IInv, TypeOK, Session
      <3> QED BY <1>6, <3>1, <3>2
    <2>2. PICK n \in Request : n = [req[r] EXCEPT !.customer = c, !.expire = loose]
      BY <1>1, <1>2, <2>1 DEF Request
    <2>3. n.customer = c /\ n.expire = loose
      BY <1>1, <2>2 DEF Request
    <2> HIDE DEF found, loose
    <2>4. OneReq(AfterRetire(n))'
      BY <1>3, <1>4, <2>1, <2>3, AfterRetireOne
    <2> QED BY <1>1, <1>6, <2>2, <2>4, OneRequestStep
  <1>7. CASE found = {} /\ Go(r, [req[r] EXCEPT !.pc = "price", !.expire = loose])
    <2>1. PICK n : n = [req[r] EXCEPT !.pc = "price", !.expire = loose]
      OBVIOUS
    <2>2. n.pc = "price" /\ n.expire = loose /\ n.customer = None
      BY <1>1, <2>1 DEF Request
    <2> HIDE DEF loose
    <2>3. OneReq(n)'
      BY <1>3, <1>4, <1>7, <2>2 DEF OneReq, Listing, Linking
    <2> QED BY <1>1, <1>7, <2>1, <2>3, OneRequestStep
  <1> QED BY <1>5, <1>6, <1>7 DEF Recent

LEMMA LinkOne ==
  ASSUME IInv, OneInv, ~edited, NEW r \in Reqs, Link(r)
  PROVE  OneInv'
  <1>1. /\ req[r] \in Request /\ OneReq(req[r]) /\ ReqOK(req[r]) /\ req[r].pc = "link"
        /\ UNCHANGED <<sessions, edited>>
    BY DEF IInv, ReqOK, OneInv, Link
  <1>2. req[r].customer = LegacyCustomer \/ Legacy \notin Payable
    BY <1>1 DEF OneReq, Linking
  <1>3. Payable' = Payable
    BY <1>1 DEF Payable
  <1>4. CASE End(r, None) /\ UNCHANGED member
    BY <1>1, <1>4, EndOne
  <1>5. CASE /\ Go(r, [req[r] EXCEPT !.pc = "sessions", !.version = 0])
             /\ member'.customer = req[r].customer
             /\ member.customer # None => member'.customer = member.customer
    <2>1. PICK n : n = [req[r] EXCEPT !.pc = "sessions", !.version = 0]
      OBVIOUS
    <2>2. n.pc = "sessions" /\ n.customer = req[r].customer
      BY <1>1, <2>1 DEF Request
    <2>3. OneReq(n)'
      BY <1>5, <2>2 DEF OneReq, Listing, Linking
    <2>4. req'[r] = n /\ (\A q \in Reqs \ {r} : req'[q] = req[q])
      BY <1>5, <2>1, GoFacts
    <2>5. OneReq(req[r])'
      BY <2>3, <2>4 DEF OneReq, Listing, Linking
    <2>6. \A q \in Reqs : req'[q] = req[q] \/ OneReq(req[q])'
      BY <2>4, <2>5
    <2> QED BY <1>1, <1>2, <1>3, <1>5, <2>6, OneStep
  <1>6. CASE Linkable(req[r])
    <2>1. member'.customer = req[r].customer
      <3>1. member \in [customer : Customers \union {None}, version : Nat, plan : Plans]
        BY DEF IInv, TypeOK
      <3>2. \/ member' = [member EXCEPT !.customer = req[r].customer, !.version = member.version + 1]
            \/ member.customer = req[r].customer /\ member' = member
        BY <1>6 DEF Link, SavedAlready
      <3> QED BY <3>1, <3>2
    <2> QED BY <1>5, <1>6, <2>1 DEF Link, Linkable, SavedAlready
  <1>7. CASE SavedAlready(req[r])
    BY <1>1, <1>5, <1>7 DEF Link, Linkable, SavedAlready, ReqOK
  <1> QED BY <1>4, <1>6, <1>7 DEF Link

LEMMA ResolvePricingOne ==
  ASSUME IInv, OneInv, ~edited, NEW r \in Reqs, ResolvePricing(r)
  PROVE  OneInv'
  <1>1. /\ req[r] \in Request /\ OneReq(req[r]) /\ ReqOK(req[r]) /\ req[r].pc = "price"
        /\ UNCHANGED <<member, sessions, edited>>
    BY DEF IInv, ReqOK, OneInv, ResolvePricing
  <1>2. PICK p \in {price} \union {q \in 0 .. price : cached /\ q = price - 1} :
             LET n == [req[r] EXCEPT !.plan = None, !.pricing = <<p, req[r].plan>>]
             IN  IF n.customer = None THEN Go(r, AfterRetire(n)) ELSE Decide(r, n)
    BY DEF ResolvePricing
  <1>3. <<p, req[r].plan>> \in Pricings
    BY <1>1, <1>2 DEF ReqOK, Pricings, IInv, TypeOK
  <1>4. PICK n \in Request : n = [req[r] EXCEPT !.plan = None, !.pricing = <<p, req[r].plan>>]
    BY <1>1, <1>3 DEF Request
  <1>5. n.customer = req[r].customer /\ n.expire = req[r].expire
    BY <1>1, <1>4 DEF Request
  <1>6. IF n.customer = None THEN Go(r, AfterRetire(n)) ELSE Decide(r, n)
    BY <1>2, <1>4
  <1>7. CASE n.customer = None
    <2>1. Legacy \in Payable' => Legacy \in n.expire
      BY <1>1, <1>5, <1>7, NoneAssumption DEF OneReq, Linking, Payable
    <2>2. OneReq(AfterRetire(n))'
      BY <2>1, AfterRetireOne
    <2> QED BY <1>1, <1>6, <1>7, <2>2, OneRequestStep
  <1>8. CASE n.customer # None
    BY <1>1, <1>5, <1>6, <1>8, DecideOne DEF OneReq, Listing
  <1> QED BY <1>7, <1>8

\* Only another status, or an unchanged session.
LEMMA ExpireOne ==
  ASSUME IInv, OneInv, ~edited, NEW r \in Reqs, Expire(r)
  PROVE  OneInv'
  <1>1. /\ req[r] \in Request /\ OneReq(req[r]) /\ ReqOK(req[r]) /\ req[r].pc \in {"retire", "expire"}
        /\ UNCHANGED <<member, edited>>
    BY DEF IInv, ReqOK, OneInv, Expire
  <1>2. CASE End(r, None) /\ UNCHANGED sessions
    BY <1>1, <1>2, EndOne
  <1>3. ASSUME NEW s \in req[r].expire, sessions[s].status \in {"open", "retired"},
               sessions' = [sessions EXCEPT ![s].status = "retired"],
               LET t == [req[r] EXCEPT !.expire = req[r].expire \ {s}]
               IN  Go(r, IF req[r].pc = "retire" THEN AfterRetire(t) ELSE AfterExpire(t))
        PROVE  OneInv'
    <2>1. s \in DOMAIN sessions /\ DOMAIN sessions' = DOMAIN sessions
      BY <1>1, <1>3 DEF ReqOK
    <2>2. sessions'[s].status = "retired" /\ (\A x \in DOMAIN sessions : x # s => sessions'[x] = sessions[x])
      BY <1>3, <2>1 DEF IInv, TypeOK, Session
    <2>3. Payable' = Payable \ {s}
      BY <2>1, <2>2 DEF Payable
    <2>4. PICK n \in Request : n = [req[r] EXCEPT !.expire = req[r].expire \ {s}]
      BY <1>1 DEF Request
    <2>5. n.customer = req[r].customer /\ n.expire = req[r].expire \ {s}
      BY <1>1, <2>4 DEF Request
    <2>6. PICK m : m = IF req[r].pc = "retire" THEN AfterRetire(n) ELSE AfterExpire(n)
      OBVIOUS
    <2>7. OneReq(m)'
      <3>1. CASE req[r].pc = "retire"
        <4>1. n.customer = LegacyCustomer \/ (Legacy \in Payable' => Legacy \in n.expire)
          BY <1>1, <2>3, <2>5, <3>1 DEF OneReq, Linking
        <4> QED BY <2>6, <3>1, <4>1, AfterRetireOne
      <3>2. CASE req[r].pc = "expire"
        <4>1. n.customer = member'.customer /\ n.customer # None
          BY <1>1, <2>5, <3>2 DEF OneReq, ReqOK, Listing
        <4> QED BY <2>6, <3>2, <4>1, AfterExpireOne
      <3> QED BY <1>1, <3>1, <3>2
    <2>8. Go(r, m)
      BY <1>3, <2>4, <2>6
    <2>9. req'[r] = m /\ (\A q \in Reqs \ {r} : req'[q] = req[q])
      BY <2>8, GoFacts
    <2>10. OneReq(req[r])'
      BY <2>7, <2>9 DEF OneReq, Listing, Linking
    <2>11. \A q \in Reqs : req'[q] = req[q] \/ OneReq(req[q])'
      BY <2>9, <2>10
    <2> QED BY <1>1, <2>1, <2>3, <2>11, OneStep
  <1> QED BY <1>2, <1>3 DEF Expire

LEMMA CreateOne ==
  ASSUME IInv, OneInv, ~edited, NEW r \in Reqs, Create(r)
  PROVE  OneInv'
  <1>1. /\ req[r] \in Request /\ OneReq(req[r]) /\ ReqOK(req[r]) /\ req[r].pc = "create"
        /\ UNCHANGED <<member, edited>>
    BY DEF IInv, ReqOK, OneInv, Create
  <1>2. req[r].customer = member.customer /\ req[r].customer # None
    BY <1>1 DEF OneReq, ReqOK, Listing
  <1>3. PICK k \in Keys : k = Key(req[r])
    BY <1>1, <1>2, NextKey DEF ReqOK, IInv
  <1>4. k \in Sessions /\ k # Legacy /\ k[1] = req[r].customer
    BY <1>3, KeyFacts DEF Sessions, Key
  <1>5. CASE UNCHANGED sessions /\ (\E link \in Sessions \union {None} : End(r, link))
    BY <1>1, <1>5, EndOne
  <1>6. CASE /\ End(r, k)
             /\ DOMAIN sessions' = DOMAIN sessions \union {k}
             /\ \A x \in DOMAIN sessions : x # k => sessions'[x] = sessions[x]
    <2>1. Legacy \in Payable' => Legacy \in Payable
      BY <1>4, <1>6 DEF Payable
    <2>2. PICK t : t = [Idle EXCEPT !.link = k]
      OBVIOUS
    <2>3. Go(r, t)
      BY <1>6, <2>2 DEF End, Go
    <2>4. OneReq(t)'
      BY <1>4, <2>2, EndedOne
    <2>5. req'[r] = t /\ (\A q \in Reqs \ {r} : req'[q] = req[q])
      BY <2>3, GoFacts
    <2>6. OneReq(req[r])'
      BY <2>4, <2>5 DEF OneReq, Listing, Linking
    <2>7. \A q \in Reqs : req'[q] = req[q] \/ OneReq(req[q])'
      BY <2>5, <2>6
    <2> QED BY <1>1, <1>2, <1>4, <1>6, <2>1, <2>7, OneStep
  <1>7. CASE k \in DOMAIN sessions
    BY <1>3, <1>4, <1>5, <1>7 DEF Create
  <1>8. CASE k \notin DOMAIN sessions
    BY <1>3, <1>6, <1>8 DEF Create
  <1> QED BY <1>7, <1>8

\* Stripe, the member, the webhook and the price.
LEMMA OutsideOne ==
  ASSUME IInv, OneInv, ~edited,
         \/ \E s \in DOMAIN sessions : Pay(s) \/ Ends(s)
         \/ \E s \in owed : Deliver(s)
         \/ PriceReplaced \/ CacheExpires
  PROVE  OneInv'
  <1>1. UNCHANGED <<req, edited>>
    BY DEF Pay, Ends, Deliver, PriceReplaced, CacheExpires
  <1>2. ASSUME NEW s \in DOMAIN sessions, Pay(s) \/ Ends(s)
        PROVE  OneInv'
    <2>1. UNCHANGED member /\ DOMAIN sessions' = DOMAIN sessions /\ sessions[s].status \in {"open", "paid"}
          /\ (\A x \in DOMAIN sessions : x # s => sessions'[x] = sessions[x])
      BY <1>2 DEF Pay, Ends
    <2>2. Payable' \subseteq Payable
      BY <2>1 DEF Payable
    <2> QED BY <1>1, <2>1, <2>2, OneStep
  <1>3. ASSUME NEW s \in owed, Deliver(s)
        PROVE  OneInv'
    <2>1. UNCHANGED sessions /\ (member.customer # None => member' = member)
          /\ s \in DOMAIN sessions /\ sessions[s].status \in Complete
      BY <1>3 DEF Deliver, IInv, TypeOK
    <2>2. member'.customer = IF member.customer = None THEN sessions[s].customer ELSE member.customer
      BY <1>3 DEF Deliver, IInv, TypeOK
    <2>3. member.customer = None => s = Legacy
      BY <2>1, KeyFacts DEF OneInv, IInv, TypeOK, Sessions, Keys
    <2>4. member'.customer \in {member.customer, LegacyCustomer}
      BY <2>1, <2>2, <2>3 DEF IInv, OwnCustomer
    <2>5. Payable' = Payable
      BY <2>1 DEF Payable
    <2> QED BY <1>1, <2>1, <2>4, <2>5, OneStep
  <1>4. ASSUME PriceReplaced \/ CacheExpires
        PROVE  OneInv'
    <2>1. UNCHANGED <<member, sessions>>
      BY <1>4 DEF PriceReplaced, CacheExpires
    <2>2. Payable' = Payable
      BY <2>1 DEF Payable
    <2> QED BY <1>1, <2>1, <2>2, OneStep
  <1> QED BY <1>2, <1>3, <1>4

LEMMA NextOne ==
  IInv /\ OneInv /\ [Next]_vars => OneInv'
  <1> SUFFICES ASSUME IInv, OneInv, [Next]_vars, ~edited' PROVE OneInv'
    BY DEF OneInv
  <1>1. ~edited
    BY DEF Next, vars, Start, Step, Fail, StartWithPlan, Pay, Ends, Deliver, PriceReplaced, CacheExpires,
           EditCustomer, Recent, CreateCustomer, Link, ExistingCheckout, ResolvePricing, Expire, Create
  <1>2. ASSUME NEW r \in Reqs, Start(r) \/ Step(r) \/ (\E plan \in Plans : StartWithPlan(r, plan))
        PROVE  OneInv'
    BY <1>1, <1>2, StartOne, RecentOne, CreateCustomerOne, LinkOne, ExistingCheckoutOne,
       ResolvePricingOne, ExpireOne, CreateOne DEF Step
  <1>3. ASSUME NEW r \in Reqs, Fail(r)
        PROVE  OneInv'
    BY <1>1, <1>3, EndOne DEF Fail
  <1>4. CASE \E c \in AdminCustomers \union {None} : EditCustomer(c)
    BY <1>4 DEF EditCustomer
  <1>5. CASE UNCHANGED vars
    <2>1. UNCHANGED <<member, sessions, req, edited>>
      BY <1>5 DEF vars
    <2>2. Payable' = Payable
      BY <2>1 DEF Payable
    <2> QED BY <1>1, <2>1, <2>2, OneStep
  <1> QED BY <1>1, <1>2, <1>3, <1>4, <1>5, OutsideOne DEF Next

LEMMA OneInductive == Spec => []OneInv
  <1>1. Init => OneInv
    BY DEF Init, OneInv, OneReq, Listing, Linking, Idle
  <1> QED BY <1>1, NextOne, Inductive, PTL DEF Spec

-----------------------------------------------------------------------------
(* Links that are handed out. *)

\* The count in a session's key is below the number of its customer's sessions, and below
\* that of the sessions of any request that has listed it.
LinkReq(t) ==
    /\ t.pc # "idle" => t.link = None
    /\ t.pc \in {"recent", "price"} => t.pricing = None
    /\ t.pricing # None => t.plan = None
    /\ t.keep # None => t.keep \in DOMAIN sessions /\ sessions[t.keep].pricing = t.pricing
    /\ \A s \in t.seen : s # Legacy => s[2] < Cardinality(t.seen)

Numbered == \A s \in DOMAIN sessions : s # Legacy => s[2] < Cardinality(Of(s[1]))

LinkInv == Numbered /\ (\A r \in Reqs : LinkReq(req[r]))

\* What a step has to show.
LEMMA LinkInvStep ==
  ASSUME IInv, IInv', LinkInv, DOMAIN sessions \subseteq DOMAIN sessions',
         \A s \in DOMAIN sessions : sessions'[s].pricing = sessions[s].pricing,
         Numbered',
         \A q \in Reqs : req'[q] = req[q] \/ (LinkReq(req[q])' /\ AsAsked(q))
  PROVE  LinkInv' /\ (\A q \in Reqs : AsAsked(q))
  <1>1. ASSUME NEW q \in Reqs, req'[q] = req[q]
        PROVE  LinkReq(req[q])' /\ AsAsked(q)
    <2>1. LinkReq(req[q])
      BY DEF LinkInv
    <2>2. LinkReq(req[q])'
      BY <1>1, <2>1 DEF LinkReq
    <2>3. None \notin DOMAIN sessions'
      BY KeyFacts DEF IInv, TypeOK
    <2>4. AsAsked(q)
      BY <1>1, <2>1, <2>3 DEF AsAsked, LinkReq
    <2> QED BY <2>2, <2>4
  <1> QED BY <1>1 DEF LinkInv

LEMMA SameNumbers ==
  ASSUME LinkInv, DOMAIN sessions' = DOMAIN sessions,
         \A s \in DOMAIN sessions : sessions'[s].customer = sessions[s].customer
  PROVE  Numbered'
  <1>1. \A c : {s \in DOMAIN sessions' : sessions'[s].customer = c} = Of(c)
    BY DEF Of
  <1>2. \A s \in DOMAIN sessions : s # Legacy => s[2] < Cardinality(Of(s[1]))
    BY DEF LinkInv, Numbered
  <1>3. ASSUME NEW s \in DOMAIN sessions', s # Legacy
        PROVE  s[2] < Cardinality({x \in DOMAIN sessions' : sessions'[x].customer = s[1]})
    BY <1>1, <1>2, <1>3
  <1> QED BY <1>3 DEF Numbered, Of

\* A step of one request that leaves the sessions alone.
LEMMA GoLink ==
  ASSUME IInv, IInv', LinkInv, NEW r \in Reqs, UNCHANGED sessions, NEW t, Go(r, t), LinkReq(t),
         req[r].pc # "idle" /\ t.link \in DOMAIN sessions =>
             /\ req[r].pricing \in {sessions[t.link].pricing, None}
             /\ req[r].plan \in {sessions[t.link].pricing[2], None}
             /\ t.link \in req[r].seen => t.link \in req[r].expire \union {req[r].keep}
  PROVE  LinkInv' /\ (\A q \in Reqs : AsAsked(q))
  <1>1. req'[r] = t /\ (\A q \in Reqs \ {r} : req'[q] = req[q])
    BY GoFacts
  <1>2. LinkReq(req[r])'
    BY <1>1 DEF LinkReq
  <1>3. AsAsked(r)
    BY <1>1 DEF AsAsked
  <1>4. Numbered'
    BY SameNumbers
  <1>5. \A q \in Reqs : req'[q] = req[q] \/ (LinkReq(req[q])' /\ AsAsked(q))
    BY <1>1, <1>2, <1>3
  <1> QED BY <1>4, <1>5, LinkInvStep

LEMMA EndedLink ==
  ASSUME NEW link \in Sessions \union {None}
  PROVE  /\ LinkReq([Idle EXCEPT !.link = link]) /\ LinkReq([Idle EXCEPT !.link = link])'
         /\ [Idle EXCEPT !.link = link].link = link
  BY DEF LinkReq, Idle

LEMMA EndLink ==
  ASSUME IInv, IInv', LinkInv, NEW r \in Reqs, UNCHANGED sessions, End(r, None)
  PROVE  LinkInv' /\ (\A q \in Reqs : AsAsked(q))
  <1>1. PICK t : t = [Idle EXCEPT !.link = None]
    OBVIOUS
  <1>2. LinkReq(t) /\ t.link = None
    BY <1>1, EndedLink
  <1>3. Go(r, t)
    BY <1>1 DEF End, Go
  <1>4. None \notin DOMAIN sessions
    BY KeyFacts DEF IInv, TypeOK
  <1> QED BY <1>2, <1>3, <1>4, GoLink

\* Where AfterRetire and AfterExpire lead.
LEMMA AfterRetireLink ==
  ASSUME NEW t \in Request, LinkReq([t EXCEPT !.pc = "retire"])
  PROVE  LinkReq(AfterRetire(t)) /\ AfterRetire(t).link = None
  <1>1. PICK m \in Request : m = [t EXCEPT !.pc = "retire"]
    BY DEF Request, PCs
  <1>2. m.pc = "retire" /\ m.seen = t.seen /\ m.keep = t.keep /\ m.pricing = t.pricing /\ m.plan = t.plan
        /\ m.link = t.link /\ LinkReq(m)
    BY <1>1 DEF Request
  <1>3. PICK n \in Request :
            /\ n = AfterRetire(t) /\ n.seen = t.seen /\ n.keep = t.keep
            /\ n.pricing = t.pricing /\ n.plan = t.plan /\ n.link = t.link
            /\ n.pc \in {"retire", "customer", "link"}
    BY AfterRetireShape
  <1>4. LinkReq(n) /\ n.link = None
    BY <1>2, <1>3 DEF LinkReq
  <1> QED BY <1>3, <1>4

LEMMA AfterExpireLink ==
  ASSUME NEW t \in Request, t.link = None, t.plan = None \/ t.pricing = None,
         t.keep # None => t.keep \in DOMAIN sessions /\ sessions[t.keep].pricing = t.pricing,
         \A s \in t.seen : s # Legacy => s[2] < Cardinality(t.seen)
  PROVE  LinkReq(AfterExpire(t)) /\ AfterExpire(t).link \in {t.keep, None}
  <1>1. CASE AfterExpire(t) = [Idle EXCEPT !.link = t.keep]
    <2>1. t.keep \in Sessions \union {None}
      BY DEF Request
    <2> QED BY <1>1, <2>1, EndedLink
  <1>2. ASSUME NEW n \in Request,
               /\ n = AfterExpire(t) /\ n.seen = t.seen /\ n.keep = t.keep
               /\ n.pricing = t.pricing /\ n.plan = t.plan /\ n.link = t.link
               /\ n.pc \in {"expire", "create"}
        PROVE  LinkReq(n) /\ n.link = None
    BY <1>2 DEF LinkReq
  <1> QED BY <1>1, <1>2, AfterExpireShape

LEMMA DecideLink ==
  ASSUME IInv, IInv', LinkInv, NEW r \in Reqs, UNCHANGED sessions, NEW t \in Request, Decide(r, t),
         t.keep = None, t.link = None, t.plan = None \/ t.pricing = None,
         \A s \in t.seen : s # Legacy => s[2] < Cardinality(t.seen),
         req[r].pricing \in {t.pricing, None},
         t.pricing # None => req[r].plan \in {t.pricing[2], None},
         t.expire \subseteq DOMAIN sessions, t.expire = req[r].expire
  PROVE  LinkInv' /\ (\A q \in Reqs : AsAsked(q))
  <1>0. None \notin DOMAIN sessions
    BY KeyFacts DEF IInv, TypeOK
  <1>1. CASE t.pricing = None
    <2>1. PICK n \in Request : n = [t EXCEPT !.pc = "price"]
      BY DEF Request, PCs
    <2>2. n.pc = "price" /\ n.seen = t.seen /\ n.keep = None /\ n.pricing = None /\ n.link = None
      BY <1>1, <2>1 DEF Request
    <2>3. LinkReq(n)
      BY <2>2 DEF LinkReq
    <2>4. Go(r, n)
      BY <1>1, <2>1 DEF Decide
    <2> QED BY <1>0, <2>2, <2>3, <2>4, GoLink
  <1>2. CASE t.pricing # None
    <2>1. PICK keep \in Reusable(t.expire, t.pricing) \union {None} :
             Go(r, AfterExpire([t EXCEPT !.keep = keep, !.expire = t.expire \ {keep}]))
      BY <1>2 DEF Decide
    <2>2. keep \in Sessions \union {None}
          /\ (keep # None => keep \in t.expire /\ sessions[keep].pricing = t.pricing)
      BY DEF Request, Reusable
    <2>3. PICK n \in Request : n = [t EXCEPT !.keep = keep, !.expire = t.expire \ {keep}]
      BY <2>2 DEF Request
    <2>4. n.seen = t.seen /\ n.keep = keep /\ n.pricing = t.pricing /\ n.plan = t.plan /\ n.link = None
      BY <2>3 DEF Request
    <2>5. LinkReq(AfterExpire(n)) /\ AfterExpire(n).link \in {keep, None}
      BY <2>2, <2>4, AfterExpireLink
    <2>6. Go(r, AfterExpire(n))
      BY <2>1, <2>3
    <2>7. PICK m : m = AfterExpire(n)
      OBVIOUS
    <2>8. m.link \in DOMAIN sessions =>
             /\ req[r].pricing \in {sessions[m.link].pricing, None}
             /\ req[r].plan \in {sessions[m.link].pricing[2], None}
             /\ m.link \in req[r].seen => m.link \in req[r].expire \union {req[r].keep}
      BY <1>0, <1>2, <2>2, <2>5, <2>7
    <2> QED BY <2>5, <2>6, <2>7, <2>8, GoLink
  <1> QED BY <1>1, <1>2

LEMMA StartLink ==
  ASSUME IInv, IInv', LinkInv, NEW r \in Reqs, Start(r) \/ (\E plan \in Plans : StartWithPlan(r, plan))
  PROVE  LinkInv' /\ (\A q \in Reqs : AsAsked(q))
  <1>1. req[r].pc = "idle" /\ UNCHANGED sessions /\ Begin(r, member')
    BY DEF Start, StartWithPlan, Begin, Go
  <1>2. PICK row : row = member'
    OBVIOUS
  <1>3. PICK t : t = [Idle EXCEPT !.pc = IF row.customer = None THEN "recent" ELSE "sessions",
                       !.customer = row.customer, !.plan = row.plan,
                       !.version = IF row.customer = None THEN row.version ELSE 0]
    OBVIOUS
  <1>4. Go(r, t)
    BY <1>1, <1>2, <1>3 DEF Begin, Go
  <1>5. LinkReq(t)
    BY <1>3 DEF LinkReq, Idle
  <1> QED BY <1>1, <1>4, <1>5, GoLink

LEMMA RecentLink ==
  ASSUME IInv, IInv', LinkInv, NEW r \in Reqs, Recent(r)
  PROVE  LinkInv' /\ (\A q \in Reqs : AsAsked(q))
  <1> DEFINE found == {sessions[s].customer : s \in {x \in DOMAIN sessions :
                           sessions[x].status \in Complete \union {"open"}}} \ {None}
  <1> DEFINE loose == Open(Of(None))
  <1>1. /\ req[r] \in Request /\ req[r].pc = "recent" /\ LinkReq(req[r]) /\ UNCHANGED sessions
    BY DEF IInv, ReqOK, Recent, LinkInv
  <1>2. loose \subseteq Sessions /\ found \subseteq Customers
    BY DEF Open, Of, IInv, TypeOK, Session
  <1>3. None \notin DOMAIN sessions
    BY KeyFacts DEF IInv, TypeOK
  <1>4. CASE End(r, None)
    BY <1>1, <1>4, EndLink
  <1>5. ASSUME NEW c \in found, Go(r, AfterRetire([req[r] EXCEPT !.customer = c, !.expire = loose]))
        PROVE  LinkInv' /\ (\A q \in Reqs : AsAsked(q))
    <2> HIDE DEF found, loose
    <2>1. PICK n \in Request : n = [req[r] EXCEPT !.customer = c, !.expire = loose]
      BY <1>1, <1>2 DEF Request
    <2>2. PICK m : m = [n EXCEPT !.pc = "retire"]
      OBVIOUS
    <2>3. m.pc = "retire" /\ m.seen = req[r].seen /\ m.keep = req[r].keep /\ m.pricing = req[r].pricing
          /\ m.plan = req[r].plan /\ m.link = req[r].link
      BY <1>1, <2>1, <2>2 DEF Request
    <2>4. LinkReq(m)
      BY <1>1, <2>3 DEF LinkReq
    <2>5. LinkReq(AfterRetire(n)) /\ AfterRetire(n).link = None
      BY <2>2, <2>4, AfterRetireLink
    <2> QED BY <1>1, <1>3, <1>5, <2>1, <2>5, GoLink
  <1>6. CASE Go(r, [req[r] EXCEPT !.pc = "price", !.expire = loose])
    <2> HIDE DEF loose
    <2>1. PICK n : n = [req[r] EXCEPT !.pc = "price", !.expire = loose]
      OBVIOUS
    <2>2. n.pc = "price" /\ n.seen = req[r].seen /\ n.keep = req[r].keep /\ n.pricing = req[r].pricing
          /\ n.plan = req[r].plan /\ n.link = req[r].link
      BY <1>1, <2>1 DEF Request
    <2>3. LinkReq(n) /\ n.link = None
      BY <1>1, <2>2 DEF LinkReq
    <2> QED BY <1>1, <1>3, <1>6, <2>1, <2>3, GoLink
  <1> QED BY <1>4, <1>5, <1>6 DEF Recent

LEMMA CustomerLink ==
  ASSUME IInv, IInv', LinkInv, NEW r \in Reqs, CreateCustomer(r) \/ Link(r)
  PROVE  LinkInv' /\ (\A q \in Reqs : AsAsked(q))
  <1>1. /\ req[r] \in Request /\ req[r].pc \in {"customer", "link"} /\ LinkReq(req[r]) /\ UNCHANGED sessions
    BY DEF IInv, ReqOK, CreateCustomer, Link, LinkInv
  <1>2. None \notin DOMAIN sessions
    BY KeyFacts DEF IInv, TypeOK
  <1>3. ASSUME NEW n, Go(r, n), n.pc \in {"link", "sessions"}, n.seen = req[r].seen, n.keep = req[r].keep,
               n.pricing = req[r].pricing, n.plan = req[r].plan, n.link = req[r].link
        PROVE  LinkInv' /\ (\A q \in Reqs : AsAsked(q))
    <2>1. LinkReq(n) /\ n.link = None
      BY <1>1, <1>3 DEF LinkReq
    <2> QED BY <1>1, <1>2, <1>3, <2>1, GoLink
  <1>4. CASE CreateCustomer(r)
    <2>1. PICK n : n = [req[r] EXCEPT !.pc = "link", !.customer = req[r].version]
      OBVIOUS
    <2>2. Go(r, n)
      BY <1>4, <2>1 DEF CreateCustomer
    <2>3. n.pc \in {"link", "sessions"} /\ n.seen = req[r].seen /\ n.keep = req[r].keep
          /\ n.pricing = req[r].pricing /\ n.plan = req[r].plan /\ n.link = req[r].link
      BY <1>1, <2>1 DEF Request
    <2> QED BY <1>3, <2>2, <2>3
  <1>5. CASE Link(r)
    <2>1. PICK n : n = [req[r] EXCEPT !.pc = "sessions", !.version = 0]
      OBVIOUS
    <2>2. Go(r, n) \/ End(r, None)
      BY <1>5, <2>1 DEF Link
    <2>3. n.pc \in {"link", "sessions"} /\ n.seen = req[r].seen /\ n.keep = req[r].keep
          /\ n.pricing = req[r].pricing /\ n.plan = req[r].plan /\ n.link = req[r].link
      BY <1>1, <2>1 DEF Request
    <2> QED BY <1>1, <1>3, <2>2, <2>3, EndLink
  <1> QED BY <1>4, <1>5

LEMMA ExistingCheckoutLink ==
  ASSUME IInv, IInv', LinkInv, NEW r \in Reqs, ExistingCheckout(r)
  PROVE  LinkInv' /\ (\A q \in Reqs : AsAsked(q))
  <1>1. /\ req[r] \in Request /\ req[r].pc \in {"sessions", "subscriptions"} /\ LinkReq(req[r])
        /\ UNCHANGED sessions /\ req[r].keep = None /\ req[r].expire \subseteq DOMAIN sessions
        /\ req[r].customer # None /\ req[r].link = None
    BY DEF IInv, ReqOK, ExistingCheckout, LinkInv, LinkReq, Listing
  <1>2. None \notin DOMAIN sessions
    BY KeyFacts DEF IInv, TypeOK
  <1>3. CASE End(r, None)
    BY <1>1, <1>3, EndLink
  <1>4. CASE Decide(r, req[r])
    BY <1>1, <1>4, DecideLink DEF LinkReq
  <1>5. CASE Go(r, [req[r] EXCEPT !.pc = "subscriptions", !.seen = Of(req[r].customer),
                                  !.expire = Open(Of(req[r].customer))])
    <2>1. PICK n : n = [req[r] EXCEPT !.pc = "subscriptions", !.seen = Of(req[r].customer),
                                      !.expire = Open(Of(req[r].customer))]
      OBVIOUS
    <2>2. n.pc = "subscriptions" /\ n.seen = Of(req[r].customer) /\ n.keep = None /\ n.link = None
          /\ n.pricing = req[r].pricing /\ n.plan = req[r].plan
      BY <1>1, <2>1 DEF Request
    <2>3. \A s \in Of(req[r].customer) : s # Legacy => s[2] < Cardinality(Of(req[r].customer))
      <3> SUFFICES ASSUME NEW s \in Of(req[r].customer), s # Legacy
                   PROVE  s[2] < Cardinality(Of(req[r].customer))
        OBVIOUS
      <3>1. s \in DOMAIN sessions /\ s[1] = req[r].customer
        BY DEF Of, IInv, OwnCustomer
      <3>2. s[2] < Cardinality(Of(s[1]))
        BY <3>1 DEF LinkInv, Numbered
      <3> QED BY <3>1, <3>2
    <2>4. LinkReq(n)
      BY <1>1, <2>2, <2>3 DEF LinkReq
    <2> QED BY <1>1, <1>2, <1>5, <2>1, <2>2, <2>4, GoLink
  <1> QED BY <1>3, <1>4, <1>5 DEF ExistingCheckout

LEMMA ResolvePricingLink ==
  ASSUME IInv, IInv', LinkInv, NEW r \in Reqs, ResolvePricing(r)
  PROVE  LinkInv' /\ (\A q \in Reqs : AsAsked(q))
  <1>1. /\ req[r] \in Request /\ req[r].pc = "price" /\ LinkReq(req[r]) /\ req[r].pricing = None
        /\ UNCHANGED sessions /\ req[r].keep = None /\ req[r].expire \subseteq DOMAIN sessions
        /\ req[r].plan \in Plans /\ req[r].link = None
    BY DEF IInv, ReqOK, ResolvePricing, LinkInv, LinkReq
  <1>2. PICK p \in {price} \union {q \in 0 .. price : cached /\ q = price - 1} :
             LET n == [req[r] EXCEPT !.plan = None, !.pricing = <<p, req[r].plan>>]
             IN  IF n.customer = None THEN Go(r, AfterRetire(n)) ELSE Decide(r, n)
    BY DEF ResolvePricing
  <1>3. <<p, req[r].plan>> \in Pricings
    BY <1>1, <1>2 DEF Pricings, IInv, TypeOK
  <1>4. PICK n \in Request : n = [req[r] EXCEPT !.plan = None, !.pricing = <<p, req[r].plan>>]
    BY <1>1, <1>3 DEF Request
  <1>5. n.expire = req[r].expire /\ n.seen = req[r].seen /\ n.keep = None /\ n.link = None
        /\ n.plan = None /\ n.pricing = <<p, req[r].plan>>
    BY <1>1, <1>4 DEF Request
  <1>6. IF n.customer = None THEN Go(r, AfterRetire(n)) ELSE Decide(r, n)
    BY <1>2, <1>4
  <1>7. CASE n.customer = None
    <2>1. PICK m : m = [n EXCEPT !.pc = "retire"]
      OBVIOUS
    <2>2. m.pc = "retire" /\ m.seen = n.seen /\ m.keep = None /\ m.plan = None /\ m.link = None
      BY <1>5, <2>1 DEF Request
    <2>3. LinkReq(m)
      BY <1>1, <1>5, <2>2 DEF LinkReq
    <2>4. LinkReq(AfterRetire(n)) /\ AfterRetire(n).link = None
      BY <2>1, <2>3, AfterRetireLink
    <2>5. None \notin DOMAIN sessions
      BY KeyFacts DEF IInv, TypeOK
    <2> QED BY <1>1, <1>6, <1>7, <2>4, <2>5, GoLink
  <1>8. CASE n.customer # None
    <2>1. n.pricing[2] = req[r].plan
      BY <1>5
    <2>2. \A s \in n.seen : s # Legacy => s[2] < Cardinality(n.seen)
      BY <1>1, <1>5 DEF LinkReq
    <2>3. Decide(r, n)
      BY <1>6, <1>8
    <2> QED BY <1>1, <1>5, <2>1, <2>2, <2>3, DecideLink
  <1> QED BY <1>7, <1>8

LEMMA ExpireLink ==
  ASSUME IInv, IInv', LinkInv, NEW r \in Reqs, Expire(r)
  PROVE  LinkInv' /\ (\A q \in Reqs : AsAsked(q))
  <1>1. /\ req[r] \in Request /\ LinkReq(req[r]) /\ ReqOK(req[r]) /\ req[r].pc \in {"retire", "expire"}
    BY DEF IInv, ReqOK, LinkInv, Expire
  <1>2. CASE End(r, None) /\ UNCHANGED sessions
    BY <1>1, <1>2, EndLink
  <1>3. ASSUME NEW s \in req[r].expire, sessions[s].status \in {"open", "retired"},
               sessions' = [sessions EXCEPT ![s].status = "retired"],
               LET t == [req[r] EXCEPT !.expire = req[r].expire \ {s}]
               IN  Go(r, IF req[r].pc = "retire" THEN AfterRetire(t) ELSE AfterExpire(t))
        PROVE  LinkInv' /\ (\A q \in Reqs : AsAsked(q))
    <2>1. DOMAIN sessions' = DOMAIN sessions /\ (\A x \in DOMAIN sessions :
              sessions'[x].pricing = sessions[x].pricing /\ sessions'[x].customer = sessions[x].customer)
      BY <1>3 DEF IInv, TypeOK, Session
    <2>2. PICK n \in Request : n = [req[r] EXCEPT !.expire = req[r].expire \ {s}]
      BY <1>1 DEF Request
    <2>3. /\ n.pc = req[r].pc /\ n.seen = req[r].seen /\ n.keep = req[r].keep /\ n.plan = req[r].plan
          /\ n.pricing = req[r].pricing /\ n.link = req[r].link /\ n.link = None
      BY <1>1, <2>2 DEF Request, LinkReq
    <2>4. PICK m : m = IF req[r].pc = "retire" THEN AfterRetire(n) ELSE AfterExpire(n)
      OBVIOUS
    <2>5. LinkReq(m) /\ m.link \in {req[r].keep, None}
      <3>1. CASE req[r].pc = "retire"
        <4>1. PICK k : k = [n EXCEPT !.pc = "retire"]
          OBVIOUS
        <4>2. k.pc = "retire" /\ k.seen = n.seen /\ k.keep = n.keep /\ k.plan = n.plan
              /\ k.pricing = n.pricing /\ k.link = n.link
          BY <4>1 DEF Request
        <4>3. LinkReq(k)
          BY <1>1, <2>3, <3>1, <4>2 DEF LinkReq
        <4> QED BY <2>4, <3>1, <4>1, <4>3, AfterRetireLink
      <3>2. CASE req[r].pc = "expire"
        BY <1>1, <2>3, <2>4, <3>2, AfterExpireLink DEF LinkReq
      <3> QED BY <1>1, <3>1, <3>2
    <2>6. Go(r, m)
      BY <1>3, <2>2, <2>4
    <2>7. req'[r] = m /\ (\A q \in Reqs \ {r} : req'[q] = req[q])
      BY <2>6, GoFacts
    <2>8. LinkReq(req[r])'
      BY <2>1, <2>5, <2>7 DEF LinkReq
    <2>9. None \notin DOMAIN sessions'
      BY KeyFacts DEF IInv, TypeOK
    <2>10. AsAsked(r)
      <3>1. m.link \in DOMAIN sessions' => m.link = req[r].keep /\ req[r].keep # None
        BY <2>5, <2>9
      <3>2. req[r].keep # None => /\ req[r].plan = None /\ req[r].keep \in DOMAIN sessions
                                 /\ sessions[req[r].keep].pricing = req[r].pricing
        BY <1>1 DEF LinkReq, ReqOK
      <3>3. req[r].keep # None => sessions'[req[r].keep].pricing = req[r].pricing
        BY <2>1, <3>2
      <3> QED BY <2>7, <3>1, <3>2, <3>3 DEF AsAsked
    <2>11. \A q \in Reqs : req'[q] = req[q] \/ (LinkReq(req[q])' /\ AsAsked(q))
      BY <2>7, <2>8, <2>10
    <2>12. Numbered'
      BY <2>1, SameNumbers
    <2> QED BY <2>1, <2>11, <2>12, LinkInvStep
  <1> QED BY <1>2, <1>3 DEF Expire

LEMMA CreateLink ==
  ASSUME IInv, IInv', LinkInv, NEW r \in Reqs, Create(r)
  PROVE  LinkInv' /\ (\A q \in Reqs : AsAsked(q))
  <1>1. /\ req[r] \in Request /\ LinkReq(req[r]) /\ ReqOK(req[r]) /\ req[r].pc = "create"
        /\ req[r].customer # None /\ CaughtUp(req[r]) /\ req[r].plan = None
    BY DEF IInv, ReqOK, LinkInv, LinkReq, Create, Listing
  <1>2. PICK k \in Keys : k = Key(req[r])
    BY <1>1, NextKey DEF ReqOK, IInv
  <1>3. k \in Sessions /\ k # Legacy /\ k # None /\ k[1] = req[r].customer
        /\ k[2] = Cardinality(req[r].seen) /\ k[2] \in Nat
    BY <1>2, KeyFacts DEF Sessions, Key, Keys
  <1>4. k \notin req[r].seen
    BY <1>1, <1>3 DEF LinkReq
  <1>5. PICK link : link = IF k \notin DOMAIN sessions \/ sessions[k].pricing = req[r].pricing THEN k ELSE None
    OBVIOUS
  <1>6. End(r, link) /\ link \in {k, None}
    BY <1>2, <1>5 DEF Create
  <1>7. PICK t : t = [Idle EXCEPT !.link = link]
    OBVIOUS
  <1>8. Go(r, t) /\ LinkReq(t)' /\ t.link = link
    <2>1. Go(r, t)
      BY <1>6, <1>7 DEF End, Go
    <2> QED BY <1>3, <1>6, <1>7, <2>1, EndedLink
  <1>9. req'[r] = t /\ (\A q \in Reqs \ {r} : req'[q] = req[q])
    BY <1>8, GoFacts
  <1>10. LinkReq(req[r])'
    BY <1>8, <1>9 DEF LinkReq
  <1>11. None \notin DOMAIN sessions'
    BY KeyFacts DEF IInv, TypeOK
  <1>12. CASE k \in DOMAIN sessions
    <2>1. UNCHANGED sessions
      BY <1>2, <1>12 DEF Create
    <2>2. AsAsked(r)
      BY <1>1, <1>4, <1>5, <1>8, <1>9, <1>11, <1>12, <2>1 DEF AsAsked
    <2>3. \A q \in Reqs : req'[q] = req[q] \/ (LinkReq(req[q])' /\ AsAsked(q))
      BY <1>9, <1>10, <2>2
    <2>4. Numbered'
      BY <2>1, SameNumbers
    <2> QED BY <2>1, <2>3, <2>4, LinkInvStep
  <1>13. CASE k \notin DOMAIN sessions
    <2> DEFINE new == [customer |-> req[r].customer, pricing |-> req[r].pricing, status |-> "open"]
    <2>1. sessions' = [x \in DOMAIN sessions \union {k} |-> IF x = k THEN new ELSE sessions[x]]
      BY <1>2, <1>13 DEF Create
    <2>2. new.customer = req[r].customer /\ new.pricing = req[r].pricing
      OBVIOUS
    <2> HIDE DEF new
    <2>3. DOMAIN sessions' = DOMAIN sessions \union {k} /\ sessions'[k] = new
          /\ (\A x \in DOMAIN sessions : sessions'[x] = sessions[x])
      BY <1>13, <2>1
    <2>4. AsAsked(r)
      BY <1>1, <1>4, <1>5, <1>8, <1>9, <1>13, <2>2, <2>3 DEF AsAsked
    <2>5. \A q \in Reqs : req'[q] = req[q] \/ (LinkReq(req[q])' /\ AsAsked(q))
      BY <1>9, <1>10, <2>4
    <2>6. Numbered'
      <3> DEFINE Now(c) == {x \in DOMAIN sessions' : sessions'[x].customer = c}
      <3>1. \A c : c # req[r].customer => Now(c) = Of(c)
        BY <2>2, <2>3 DEF Of
      <3>2. Now(req[r].customer) = Of(req[r].customer) \union {k} /\ k \notin Of(req[r].customer)
        BY <1>13, <2>2, <2>3 DEF Of
      <3>3. req[r].seen = Of(req[r].customer) /\ IsFiniteSet(Of(req[r].customer))
        BY <1>1, <1>2, <1>13, FS_Subset DEF CaughtUp, IInv, TypeOK, Of
      <3>4. Cardinality(Of(req[r].customer)) \in Nat
            /\ Cardinality(Now(req[r].customer)) = Cardinality(Of(req[r].customer)) + 1
        BY <3>2, <3>3, FS_AddElement, FS_CardinalityType
      <3>5. \A x \in DOMAIN sessions : x # Legacy => x \in Keys /\ x[2] \in Nat /\ x[2] < Cardinality(Of(x[1]))
        BY DEF LinkInv, Numbered, IInv, TypeOK, Sessions, Keys
      <3> HIDE DEF Now
      <3>6. ASSUME NEW x \in DOMAIN sessions', x # Legacy
            PROVE  x[2] < Cardinality(Now(x[1]))
        <4>1. CASE x = k
          BY <1>3, <3>3, <3>4, <4>1
        <4>2. CASE x # k /\ x[1] = req[r].customer
          BY <2>3, <3>4, <3>5, <3>6, <4>2
        <4>3. CASE x # k /\ x[1] # req[r].customer
          BY <2>3, <3>1, <3>5, <3>6, <4>3
        <4> QED BY <4>1, <4>2, <4>3
      <3> QED BY <3>6 DEF Now, Numbered, Of
    <2> QED BY <2>3, <2>5, <2>6, LinkInvStep
  <1> QED BY <1>12, <1>13

LEMMA OutsideLink ==
  ASSUME IInv, IInv', LinkInv,
         \/ \E s \in DOMAIN sessions : Pay(s) \/ Ends(s)
         \/ \E s \in owed : Deliver(s)
         \/ PriceReplaced \/ CacheExpires
         \/ \E c \in AdminCustomers \union {None} : EditCustomer(c)
  PROVE  LinkInv' /\ (\A q \in Reqs : AsAsked(q))
  <1>1. UNCHANGED req
    BY DEF Pay, Ends, Deliver, PriceReplaced, CacheExpires, EditCustomer
  <1>2. CASE UNCHANGED sessions
    <2>1. Numbered'
      BY <1>2, SameNumbers
    <2> QED BY <1>1, <1>2, <2>1, LinkInvStep
  <1>3. ASSUME NEW s \in DOMAIN sessions, Pay(s) \/ Ends(s)
        PROVE  LinkInv' /\ (\A q \in Reqs : AsAsked(q))
    <2>1. DOMAIN sessions' = DOMAIN sessions /\ (\A x \in DOMAIN sessions :
              sessions'[x].pricing = sessions[x].pricing)
      <3>1. \A x \in DOMAIN sessions : sessions[x] \in Session
        BY DEF IInv, TypeOK
      <3>2. CASE Pay(s)
        BY <3>1, <3>2 DEF Pay, Session
      <3>3. CASE Ends(s)
        BY <3>1, <3>3 DEF Ends, Session
      <3> QED BY <1>3, <3>2, <3>3
    <2>2. Numbered'
      <3> SUFFICES ASSUME NEW x \in DOMAIN sessions, x # Legacy
                   PROVE  x[2] < Cardinality({y \in DOMAIN sessions' : sessions'[y].customer = x[1]})
        BY <2>1 DEF Numbered, Of
      <3>1. x[2] < Cardinality(Of(x[1]))
        BY DEF LinkInv, Numbered
      <3>2. x \in Of(x[1]) /\ x[1] # None /\ OwnCustomer /\ OwnCustomer' /\ Unknown
        BY KeyFacts DEF IInv, OwnCustomer, Of, TypeOK, Sessions, Keys
      <3>3. \A y \in DOMAIN sessions : y # Legacy => sessions'[y].customer = sessions[y].customer
        BY <2>1, <3>2 DEF OwnCustomer
      <3>4. \A y \in DOMAIN sessions : y # s => sessions'[y] = sessions[y]
        BY <1>3 DEF Pay, Ends
      <3>5. CASE s = Legacy /\ x[1] = LegacyCustomer
        <4>1. ~Unpaid
          <5>1. x \in Of(LegacyCustomer)
            BY <3>2, <3>5
          <5>2. Unpaid => Of(LegacyCustomer) = {}
            BY DEF IInv, Unknown
          <5> QED BY <5>1, <5>2
        <4>2. sessions'[s].status \in Complete /\ sessions[s].status \in Complete
          <5>1. sessions[s] \in Session /\ sessions[s].status \in Complete
            BY <3>5, <4>1 DEF Unpaid, IInv, TypeOK
          <5>2. ~Pay(s)
            BY <5>1 DEF Pay, Complete
          <5>3. Ends(s)
            BY <1>3, <5>2
          <5>4. sessions' = [sessions EXCEPT ![s].status = "ended"]
            BY <5>1, <5>3 DEF Ends, Complete
          <5> QED BY <5>1, <5>4 DEF Complete, Session
        <4>3. sessions'[s].customer = sessions[s].customer
          BY <2>1, <3>2, <3>5, <4>2 DEF OwnCustomer
        <4>4. {y \in DOMAIN sessions' : sessions'[y].customer = x[1]} = Of(x[1])
          BY <2>1, <3>4, <4>3 DEF Of
        <4> QED BY <3>1, <4>4
      <3>6. CASE ~(s = Legacy /\ x[1] = LegacyCustomer)
        <4>1. s = Legacy => sessions[s].customer \in {None, LegacyCustomer} /\ sessions'[s].customer \in {None, LegacyCustomer}
          BY <2>1, <3>2 DEF OwnCustomer
        <4>2. {y \in DOMAIN sessions' : sessions'[y].customer = x[1]} = Of(x[1])
          BY <2>1, <3>2, <3>3, <3>4, <3>6, <4>1 DEF Of
        <4> QED BY <3>1, <4>2
      <3> QED BY <3>5, <3>6
    <2> QED BY <1>1, <2>1, <2>2, LinkInvStep
  <1> QED BY <1>2, <1>3 DEF Deliver, PriceReplaced, CacheExpires, EditCustomer

LEMMA NextLink ==
  IInv /\ IInv' /\ LinkInv /\ [Next]_vars => LinkInv' /\ (\A q \in Reqs : AsAsked(q))
  <1> SUFFICES ASSUME IInv, IInv', LinkInv, [Next]_vars
               PROVE  LinkInv' /\ (\A q \in Reqs : AsAsked(q))
    OBVIOUS
  <1>1. ASSUME NEW r \in Reqs, Start(r) \/ Step(r) \/ (\E plan \in Plans : StartWithPlan(r, plan))
        PROVE  LinkInv' /\ (\A q \in Reqs : AsAsked(q))
    BY <1>1, StartLink, RecentLink, CustomerLink, ExistingCheckoutLink, ResolvePricingLink, ExpireLink,
       CreateLink DEF Step
  <1>2. ASSUME NEW r \in Reqs, Fail(r)
        PROVE  LinkInv' /\ (\A q \in Reqs : AsAsked(q))
    BY <1>2, EndLink DEF Fail
  <1>3. CASE UNCHANGED vars
    <2>1. UNCHANGED <<sessions, req>>
      BY <1>3 DEF vars
    <2>2. Numbered'
      BY <2>1, SameNumbers
    <2> QED BY <2>1, <2>2, LinkInvStep
  <1> QED BY <1>1, <1>2, <1>3, OutsideLink DEF Next

LEMMA LinkInductive == Spec => []LinkInv
  <1>1. Init => LinkInv
    BY DEF Init, LinkInv, Numbered, LinkReq, Idle
  <1> QED BY <1>1, NextLink, Inductive, PTL DEF Spec

-----------------------------------------------------------------------------
(* Results. *)

\* The variables keep their types, and every session a request has listed exists.
THEOREM TypeCorrect == Spec => []TypeOK
  BY Inductive, PTL DEF IInv

\* Whatever requests interleave, fail, or use another plan or an outdated price, and
\* whatever an admin enters: a customer never has two sessions of which each is paid or
\* could still be paid (existingCheckout, expireSession and the idempotency key of a session).
THEOREM OnePerCustomerHolds == Spec => []OnePerCustomer
  BY Inductive, PTL DEF IInv

\* Until an admin enters another customer, everything the member has paid or could still
\* pay belongs to one Stripe customer, whatever raced with the session from before
\* customers were linked (recentStripeCustomer, the compare-and-swap of the link, and
\* the webhook of a completed session).
THEOREM OneCustomerHolds == Spec => []OneCustomer
  <1>1. IInv /\ OneInv => OneCustomer
    <2> SUFFICES ASSUME IInv, OneInv, ~edited, NEW s \in Payable, NEW t \in Payable
                 PROVE  sessions[s].customer = sessions[t].customer
      BY DEF OneCustomer
    <2>1. ASSUME NEW x \in Payable, x # Legacy
          PROVE  sessions[x].customer = member.customer /\ member.customer # None
      BY <2>1, KeyFacts DEF OneInv, IInv, OwnCustomer, Payable, TypeOK, Sessions, Keys
    <2>2. ASSUME Legacy \in Payable, member.customer # None
          PROVE  sessions[Legacy].customer = member.customer
      BY <2>2 DEF OneInv, IInv, OwnCustomer, Unknown, Unpaid, Payable
    <2> QED BY <2>1, <2>2
  <1> QED BY <1>1, Inductive, OneInductive, PTL

\* A link is for what its request asked, whichever request made the session, and never
\* for a session that the request itself has seen to be over: Stripe's answer to an
\* idempotency key does not bring back an earlier attempt (createCheckoutSession).
THEOREM LinkAsAskedHolds == Spec => LinkAsAsked
  <1>1. IInv /\ IInv' /\ LinkInv /\ [Next]_vars => [\A r \in Reqs : AsAsked(r)]_vars
    BY NextLink
  <1> QED BY <1>1, Inductive, LinkInductive, PTL DEF Spec, LinkAsAsked
=============================================================================
