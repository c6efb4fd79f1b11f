----------------------------- MODULE FobBinding -----------------------------
(***************************************************************************)
(* Who holds which fob, and whose swipe was that: kioskClaim, bindFob and  *)
(* swipeWebhook (site/src/edge.tsx), the fob field of updateMember and     *)
(* /delete (admin.tsx), and the triggers that keep fob_assignments         *)
(* (site/migrations/0001).                                                 *)
(*                                                                         *)
(* A kiosk scan makes a signed claim that names the fob and expires; a     *)
(* signed-in member redeems it, as often as they like until then.  Admins  *)
(* save forms they opened earlier.  Swipes reach the Worker late, and more *)
(* than once, and are attributed to whoever had the fob when it was swiped.*)
(*                                                                         *)
(* Several requests run at once and interleave between the statements they *)
(* await; a statement is atomic with the triggers it fires.  One clock     *)
(* stands for D1's and the edge's; it ticks between requests, so that much *)
(* can happen at one time.                                                 *)
(***************************************************************************)
EXTENDS Integers, Sequences

CONSTANTS
    Members,     \* members; an id is never used again
    Fobs,        \* fob numbers
    None,        \* SQL NULL
    Binders,     \* concurrent redemptions
    Admins,      \* open member forms
    Swipes,      \* swipe ids
    ClaimAge,    \* how long a claim is valid (300 seconds)
    MaxChanges,  \* bound: statements that change a fob or delete a member
    MaxNow       \* bound: clock ticks

ASSUME NoneAssumption == None \notin Members /\ None \notin Fobs
ASSUME TimeAssumption == ClaimAge \in Nat /\ MaxChanges \in Nat /\ MaxNow \in Nat

VARIABLES
    now,       \* the clock
    live,      \* members with a row
    fob,       \* members.fob_id
    version,   \* members.metadata_version
    assigned,  \* fob_assignments; a row's id is its index
    claims,    \* signed claims that were handed out
    binding,   \* redemptions between reading the member and the update
    form,      \* the admins' forms
    swipes,    \* swipes made, [id -> fob and time]
    history,   \* FobSwipe events, [id -> member]
    settled,   \* ghost: swipes stored after the tick they happened in
    heldAt,    \* ghost: who had each fob at the end of each past tick
    changes

memberVars == <<live, fob, version, assigned, changes>>
requestVars == <<claims, binding, form>>
swipeVars == <<swipes, history, settled>>
vars == <<now, memberVars, requestVars, swipeVars, heldAt>>

Open == -1   \* `ended` IS NULL

Row    == [fob : Fobs, member : Members \union {None}, started : Nat, ended : Nat \union {Open}]
NoForm == [member |-> None, version |-> 0, fob |-> None]
NotBinding == [member |-> None, fob |-> None]

TypeOK ==
    /\ now \in Nat /\ changes \in Nat
    /\ live \subseteq Members
    /\ fob \in [Members -> Fobs \union {None}]
    /\ version \in [Members -> Nat]
    /\ assigned \in Seq(Row)
    /\ claims \subseteq [fob : Fobs, exp : Nat]
    /\ binding \in [Binders -> [member : Members \union {None}, fob : Fobs \union {None}]]
    /\ form \in [Admins -> [member : Members \union {None}, version : Nat, fob : Fobs \union {None}]]
    /\ swipes \in [Swipes -> [fob : Fobs \union {None}, time : Nat]]
    /\ history \in [Swipes -> [stored : BOOLEAN, member : Members \union {None}]]
    /\ settled \subseteq Swipes
    /\ heldAt \in [0..(now - 1) -> [Fobs -> Members \union {None}]]

\* Members are registered without a fob.
Init ==
    /\ now = 0 /\ changes = 0
    /\ live = Members
    /\ fob = [m \in Members |-> None] /\ version = [m \in Members |-> 0]
    /\ assigned = <<>>
    /\ claims = {}
    /\ binding = [b \in Binders |-> NotBinding]
    /\ form = [a \in Admins |-> NoForm]
    /\ swipes = [s \in Swipes |-> [fob |-> None, time |-> 0]]
    /\ history = [s \in Swipes |-> [stored |-> FALSE, member |-> None]]
    /\ settled = {}
    /\ heldAt = [t \in 0..(now - 1) |-> [f \in Fobs |-> None]]

-----------------------------------------------------------------------------
(* Statements, with the triggers they fire *)

\* members.fob_id is UNIQUE.
Taken(f, m) == f # None /\ \E other \in live \ {m} : fob[other] = f

\* Mutant: a member's earlier assignment stays open.
StillOpen(m) == assigned

Closed(m) == [i \in DOMAIN assigned |->
    IF assigned[i].member = m /\ assigned[i].ended = Open
    THEN [assigned[i] EXCEPT !.ended = now] ELSE assigned[i]]

Opened(m, f) == IF f = None THEN <<>>
                ELSE <<[fob |-> f, member |-> m, started |-> now, ended |-> Open]>>

(* UPDATE members SET fob_id = f, metadata_version + 1, and the trigger    *)
(* member_fob_changed.                                                     *)
SetFob(m, f) ==
    /\ changes < MaxChanges /\ changes' = changes + 1
    /\ fob' = [fob EXCEPT ![m] = f]
    /\ version' = [version EXCEPT ![m] = @ + 1]
    /\ assigned' = IF f = fob[m] THEN assigned ELSE Closed(m) \o Opened(m, f)
    /\ UNCHANGED live

\* ON DELETE SET NULL in a table with a member_id.
Unlinked(table, m) == [i \in DOMAIN table |->
    IF table[i].member = m THEN [table[i] EXCEPT !.member = None] ELSE table[i]]

-----------------------------------------------------------------------------
(* kioskClaim and bindFob *)

Scan ==
    /\ \E f \in Fobs : claims' = claims \union {[fob |-> f, exp |-> now + ClaimAge]}
    /\ UNCHANGED <<now, memberVars, binding, form, swipeVars, heldAt>>

Idle(b) == binding[b] = NotBinding
DoneBinding(b) == binding' = [binding EXCEPT ![b] = NotBinding]

Redeem(b) ==
    /\ Idle(b)
    /\ \E c \in claims, m \in live :
         /\ c.exp > now
         /\ binding' = [binding EXCEPT ![b] = [member |-> m, fob |-> c.fob]]
    /\ UNCHANGED <<now, memberVars, claims, form, swipeVars, heldAt>>

(* The update, conditional on a row and on another fob.  A fob that        *)
(* another member has is refused with 409.                                 *)
Bind(b) ==
    LET m == binding[b].member
        f == binding[b].fob
    IN  /\ ~Idle(b)
        /\ IF m \in live /\ fob[m] # f /\ ~Taken(f, m)
           THEN SetFob(m, f)
           ELSE UNCHANGED memberVars
        /\ DoneBinding(b)
        /\ UNCHANGED <<now, claims, form, swipeVars, heldAt>>

-----------------------------------------------------------------------------
(* The admin form *)

OpenForm(a) ==
    /\ \E m \in live : form' = [form EXCEPT ![a] =
         [member |-> m, version |-> version[m], fob |-> fob[m]]]
    /\ UNCHANGED <<now, memberVars, claims, binding, swipeVars, heldAt>>

\* Mutant: the update does not compare versions.
FreshIfLive(a) == form[a].member \in live

Fresh(a) == form[a].member \in live /\ form[a].version = version[form[a].member]

(* updateMember: every field of the form is written, changed or not, if    *)
(* the row still has the form's version; else 409, with the fields kept.   *)
SaveForm(a) ==
    /\ Fresh(a)
    /\ \E f \in Fobs \union {None} :
         /\ ~Taken(f, form[a].member)
         /\ SetFob(form[a].member, f)
    /\ form' = [form EXCEPT ![a] = NoForm]
    /\ UNCHANGED <<now, claims, binding, swipeVars, heldAt>>

(* POST /delete: edge_member_delete closes the assignment, the foreign     *)
(* keys clear the member everywhere.                                       *)
Delete ==
    /\ changes < MaxChanges /\ changes' = changes + 1
    /\ \E m \in live :
         /\ live' = live \ {m}
         /\ fob' = [fob EXCEPT ![m] = None]
         /\ assigned' = Unlinked(Closed(m), m)
         /\ history' = Unlinked(history, m)
         /\ heldAt' = [t \in DOMAIN heldAt |-> [f \in Fobs |->
                         IF heldAt[t][f] = m THEN None ELSE heldAt[t][f]]]
    /\ UNCHANGED <<now, version, requestVars, swipes, settled>>

-----------------------------------------------------------------------------
(* Swipes *)

Swipe(s) ==
    /\ swipes[s].fob = None
    /\ \E f \in Fobs : swipes' = [swipes EXCEPT ![s] = [fob |-> f, time |-> now]]
    /\ UNCHANGED <<now, memberVars, requestVars, history, settled, heldAt>>

\* Mutant: an assignment still counts at the time it ended.
HeldClosed(a, f, t) == a.fob = f /\ a.started <= t /\ (a.ended = Open \/ a.ended >= t)

\* The WHERE of swipeWebhook's lookup, for one assignment.
Held(a, f, t) == a.fob = f /\ a.started <= t /\ (a.ended = Open \/ a.ended > t)

\* ORDER BY started DESC, id DESC LIMIT 1
Later(table, i, j) == \/ table[i].started > table[j].started
                      \/ table[i].started = table[j].started /\ i >= j

Owner(table, f, t) ==
    LET matching == {i \in DOMAIN table : Held(table[i], f, t)}
    IN  IF matching = {} THEN None
        ELSE table[CHOOSE i \in matching : \A j \in matching : Later(table, i, j)].member

(* swipeWebhook, for one event of a batch; an id that is known is ignored. *)
StoreSwipe(s) ==
    /\ swipes[s].fob # None /\ ~history[s].stored
    /\ history' = [history EXCEPT ![s] =
         [stored |-> TRUE, member |-> Owner(assigned, swipes[s].fob, swipes[s].time)]]
    /\ settled' = IF swipes[s].time < now THEN settled \union {s} ELSE settled
    /\ UNCHANGED <<now, memberVars, requestVars, swipes, heldAt>>

Holder(f) == IF \E m \in live : fob[m] = f THEN CHOOSE m \in live : fob[m] = f ELSE None

\* An expired claim is of no further use and is forgotten.
Tick ==
    /\ now < MaxNow /\ now' = now + 1
    /\ claims' = {c \in claims : c.exp > now'}
    /\ heldAt' = [t \in 0..now |-> IF t = now THEN [f \in Fobs |-> Holder(f)] ELSE heldAt[t]]
    /\ UNCHANGED <<memberVars, binding, form, swipeVars>>

Next ==
    \/ Scan \/ Delete \/ Tick
    \/ \E b \in Binders : Redeem(b) \/ Bind(b)
    \/ \E a \in Admins : OpenForm(a) \/ SaveForm(a)
    \/ \E s \in Swipes : Swipe(s) \/ StoreSwipe(s)

Spec == Init /\ [][Next]_vars

-----------------------------------------------------------------------------
(* Properties *)

(* A fob belongs to at most one member, and the open assignments are       *)
(* exactly the members' fobs, one row each: rebinding, clearing and        *)
(* deleting leave no interval open and open none twice (migrations/0001).  *)
IsOpen(i) == assigned[i].ended = Open

AssignmentsFollowFobs ==
    /\ \A m, n \in live : fob[m] = fob[n] /\ fob[m] # None => m = n
    /\ \A i \in DOMAIN assigned : IsOpen(i) =>
         assigned[i].member \in live /\ fob[assigned[i].member] = assigned[i].fob
    /\ \A m \in live : fob[m] # None => \E i \in DOMAIN assigned : IsOpen(i) /\ assigned[i].member = m
    /\ \A i, j \in DOMAIN assigned : IsOpen(i) /\ IsOpen(j) /\ assigned[i].fob = assigned[j].fob => i = j

(* A swipe that is stored late names the member who had the fob when it    *)
(* was swiped, whoever has it by then, or nobody if that member has been   *)
(* deleted (edge.tsx: "ownership is resolved at swipe time").              *)
SwipesNameHolder ==
    \A s \in settled : history[s].member = heldAt[swipes[s].time][swipes[s].fob]

(* A form that is saved never overwrites a fob that its admin was not      *)
(* shown, neither another admin's nor one that the member has bound since  *)
(* (admin.tsx: "This member was changed after you opened the form").       *)
NoLostEdit == [][\A a \in Admins :
    SaveForm(a) => fob[form[a].member] = form[a].fob]_vars

=============================================================================
