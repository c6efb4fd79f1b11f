---------------------------- MODULE MachinesPage ----------------------------
(***************************************************************************)
(* The printer dashboard in a browser (site/static/machines.js), the       *)
(* Worker's /machines/data that gives it tokens (site/src/edge.tsx,        *)
(* machinesData), and the edge that verifies them (WorkerAuth).            *)
(*                                                                         *)
(* The page is one record; event handlers are functions from page to page, *)
(* composed as the code calls them.  An operation is one call of refresh   *)
(* between its awaits.  An answer is taken at the moment the page receives *)
(* it: what happens at the servers between sending and receiving commutes  *)
(* with the page's step, and requests whose answer is never used reach the *)
(* edge as OtherCall.  A tick is a little more than an operation's timeout.*)
(***************************************************************************)
EXTENDS WorkerAuth, FiniteSets

CONSTANTS
    Ops,        \* bound: operations that are not over, with the one whose cards are shown
    Images,     \* camera images of a dashboard
    TokenLife,  \* ticks a token lives
    Margin,     \* ticks before its end at which it is renewed
    Null

Tokens == [key : Keys, left : 0 .. TokenLife]

ASSUME PageAssumption ==
    /\ Null \notin Ops \union Nat \union Tokens /\ IsFiniteSet(Images)
    /\ TokenLife \in Nat /\ Margin \in Nat /\ Margin < TokenLife

VARIABLES
    page,
    eligible   \* Worker: the visitor is signed in and printer_access holds

pageVars == <<page, eligible, authVars>>

Operation(pc) == [pc |-> pc, aborted |-> FALSE, crossed |-> FALSE, fetching |-> {}]

NotRunning == Operation("none")

NoImages == [i \in Images |-> "none"]

Blank == [visible |-> TRUE, suspended |-> FALSE, stopped |-> FALSE,
          polling |-> FALSE,   \* interval
          access  |-> Null,    \* the key of the token, and the ticks until it expires
          timer   |-> Null,    \* ticks until expiryTimer fires
          current |-> Null,
          op      |-> [o \in Ops |-> NotRunning],
          cards   |-> Null,    \* the operation that drew the cards
          image   |-> NoImages,
          blobs   |-> {}]      \* operations and images whose object URL is not revoked

Page ==
    [visible : BOOLEAN, suspended : BOOLEAN, stopped : BOOLEAN, polling : BOOLEAN,
     access : Tokens \union {Null},
     timer : (0 .. TokenLife) \union {Null},
     current : Ops \union {Null},
     op : [Ops -> [pc : {"none", "data", "printers", "images"}, aborted : BOOLEAN,
                   crossed : BOOLEAN, fetching : SUBSET Images]],
     cards : Ops \union {Null},
     image : [Images -> {"none", "loading", "shown"}],
     blobs : SUBSET (Ops \X Images)]

PageTypeOK == AuthTypeOK /\ eligible \in BOOLEAN /\ page \in Page

(***************************************************************************)
(* The page's functions.                                                   *)
(***************************************************************************)
Looking(p) == p.visible /\ ~p.suspended /\ ~p.stopped
Active(p, o) == p.current = o /\ Looking(p)
Usable(p, o) == Active(p, o) /\ ~p.op[o].aborted /\ p.access # Null /\ p.access.left > 0

ClearDashboard(p) == [p EXCEPT !.cards = Null, !.image = NoImages, !.blobs = {}]

CancelRefresh(p) ==
    IF p.current = Null THEN p
    ELSE [p EXCEPT !.op[p.current].aborted = TRUE, !.current = Null]

Pause(p) == ClearDashboard(CancelRefresh([p EXCEPT !.polling = FALSE, !.timer = Null]))

DenyAccess(p) == Pause([p EXCEPT !.stopped = TRUE, !.access = Null])

\* Mutant: an operation in progress does not keep another from beginning.
MayRefreshTwice(p) == Looking(p)

\* The first line of refresh.
MayRefresh(p) == p.current = Null /\ Looking(p)

Free(p) == {o \in Ops : p.op[o].pc = "none" /\ p.cards # o}

\* refresh, up to its first await: a token is needed if there is none or it is nearly over.
Refresh(p) ==
    IF ~MayRefresh(p) THEN {p}
    ELSE LET pc == IF p.access = Null THEN "data"
                   ELSE IF p.access.left <= Margin THEN "data" ELSE "printers"
         IN  {[p EXCEPT !.current = o, !.op[o] = Operation(pc)] : o \in Free(p)}

Armed(p) == [p EXCEPT !.timer = IF p.access = Null THEN Null ELSE p.access.left]

\* Mutant: the timer is not set again when the page resumes.
ResumeUnarmed(p) ==
    IF ~Looking(p) THEN {p} ELSE Refresh([p EXCEPT !.polling = TRUE])

Resume(p) ==
    IF ~Looking(p) THEN {p}
    ELSE LET expired == p.access # Null /\ p.access.left = 0
         IN  Refresh(Armed([p EXCEPT !.polling = TRUE, !.access = IF expired THEN Null ELSE @]))

\* What is left of an operation that is over: whether its signal was aborted, which the
\* load events of its images ask.
Over(p, o) == [NotRunning EXCEPT !.aborted = p.cards = o /\ p.op[o].aborted]

\* Mutant: an operation that timed out stays the current one.
FinishUnlessAborted(p, o) ==
    [p EXCEPT !.op[o] = Over(p, o),
              !.current = IF p.current = o /\ ~p.op[o].aborted THEN Null ELSE p.current]

\* The finally clause.
Finish(p, o) ==
    [p EXCEPT !.op[o] = Over(p, o), !.current = IF p.current = o THEN Null ELSE p.current]

\* The catch clause, and what follows it.
Catch(p, o) == Finish(IF Active(p, o) THEN ClearDashboard(p) ELSE p, o)

(***************************************************************************)
(* Answers to an operation's requests.                                     *)
(***************************************************************************)
\* edgeToken: signed when the page receives it.
Token == [key |-> signing, left |-> TokenLife]

\* credentials: a token counts from the moment it was asked for.
Credentials(token, o) == IF page.op[o].crossed THEN [token EXCEPT !.left = @ - 1] ELSE token

\* /machines/data gives a token; one that is over by now is an error.
Granted(o) ==
    LET a == Credentials(Token, o)
    IN  /\ page.op[o].pc = "data" /\ Active(page, o) /\ ~page.op[o].aborted
        /\ eligible
        /\ page' = IF a.left = 0 THEN Catch(page, o)
                   ELSE [page EXCEPT !.access = a, !.timer = a.left, !.op[o].pc = "printers"]
        /\ UNCHANGED <<eligible, authVars>>

\* /machines/data answers 401 or 403.
Refused(o) ==
    /\ page.op[o].pc = "data" /\ Active(page, o) /\ ~page.op[o].aborted
    /\ ~eligible
    /\ page' = Finish(DenyAccess(page), o)
    /\ UNCHANGED <<eligible, authVars>>

\* /api/printers gives the cards, and each image is requested.
Cards(o) ==
    /\ page.op[o].pc = "printers" /\ Usable(page, o)
    /\ Verified(page.access.key, TRUE)
    /\ page' = LET p == [ClearDashboard(page) EXCEPT !.cards = o]
               IN  IF Images = {} THEN Finish(p, o)
                   ELSE [p EXCEPT !.op[o].pc = "images", !.op[o].fetching = Images]
    /\ UNCHANGED eligible

\* Promise.all: the operation ends with the last image.
Fetched(p, o, i) ==
    LET rest == p.op[o].fetching \ {i}
    IN  IF rest = {} THEN Finish(p, o) ELSE [p EXCEPT !.op[o].fetching = rest]

\* Mutant: an image that arrives is used as long as the page is looked at.
UsableImage(p, o) == Looking(p) /\ p.access # Null

\* What is tested before an image is used.
MayUse(p, o) == Usable(p, o)

Image(o, i) ==
    /\ page.op[o].pc = "images" /\ i \in page.op[o].fetching /\ MayUse(page, o)
    /\ Verified(page.access.key, TRUE)
    /\ page' = Fetched([page EXCEPT !.blobs = @ \union {<<o, i>>},
                                    !.image[i] = IF page.cards = o THEN "loading" ELSE page.image[i]], o, i)
    /\ UNCHANGED eligible

\* The edge answers 401 to either request.
Unauthorized(o) ==
    /\ page.op[o].pc \in {"printers", "images"} /\ Usable(page, o)
    /\ Verified(page.access.key, FALSE)
    /\ \/ page.op[o].pc = "printers" /\ page' = Finish(DenyAccess(page), o)
       \/ \E i \in page.op[o].fetching : page' = Fetched(DenyAccess(page), o, i)
    /\ UNCHANGED eligible

\* A request fails: the network, another status, the timeout, or an abort.  An image
\* that fails is hidden; it is hidden until it loads.
Fails(o) ==
    /\ \/ page.op[o].pc \in {"data", "printers"} /\ page' = Catch(page, o)
       \/ \E i \in page.op[o].fetching : page' = Fetched(page, o, i)
    /\ UNCHANGED <<eligible, authVars>>

\* The answer came, but the page has moved on or the timeout was first.
Ignored(o) ==
    /\ \/ page.op[o].pc = "data" /\ ~(Active(page, o) /\ ~page.op[o].aborted)
       \/ page.op[o].pc = "printers" /\ ~Usable(page, o)
    /\ page' = Finish(page, o)
    /\ UNCHANGED <<eligible, authVars>>

\* Ten seconds: the signal is aborted, the operation is still the current one.
Timeout(o) ==
    /\ page.current = o /\ ~page.op[o].aborted
    /\ page' = [page EXCEPT !.op[o].aborted = TRUE]
    /\ UNCHANGED <<eligible, authVars>>

\* The test a load listener makes.
MayShow(i) ==
    /\ Looking(page) /\ ~page.op[page.cards].aborted
    /\ page.access # Null /\ page.access.left > 0
    /\ <<page.cards, i>> \in page.blobs

\* An image's load event, or its error event.
Loaded(i) ==
    /\ page.image[i] = "loading"
    /\ \E shown \in {"none", IF MayShow(i) THEN "shown" ELSE "none"} :
           page' = [page EXCEPT !.image[i] = shown]
    /\ UNCHANGED <<eligible, authVars>>

(***************************************************************************)
(* Events of the page.                                                     *)
(***************************************************************************)
Poll ==
    /\ page.polling
    /\ page' \in Refresh(page) \ {page}
    /\ UNCHANGED <<eligible, authVars>>

TokenExpires ==
    /\ page.timer = 0
    /\ page' \in Refresh(ClearDashboard(CancelRefresh([page EXCEPT !.timer = Null, !.access = Null])))
    /\ UNCHANGED <<eligible, authVars>>

Hide ==
    /\ page.visible
    /\ page' = Pause([page EXCEPT !.visible = FALSE])
    /\ UNCHANGED <<eligible, authVars>>

Show ==
    /\ ~page.visible
    /\ page' \in Resume([page EXCEPT !.visible = TRUE])
    /\ UNCHANGED <<eligible, authVars>>

PageHide ==
    /\ ~page.suspended
    /\ page' = Pause([page EXCEPT !.suspended = TRUE, !.access = Null])
    /\ UNCHANGED <<eligible, authVars>>

PageShow ==
    /\ page.suspended
    /\ page' \in Resume([page EXCEPT !.suspended = FALSE])
    /\ UNCHANGED <<eligible, authVars>>

\* The member signs out, or access ends.
AccessEnds ==
    /\ eligible
    /\ eligible' = FALSE
    /\ UNCHANGED <<page, authVars>>

\* A request of another page or of the Worker, or one this page no longer waits for.
OtherCall ==
    /\ \E kid \in Keys : kid <= signing /\ Key(kid)
    /\ UNCHANGED <<page, eligible>>

Older(token) == [token EXCEPT !.left = IF @ = 0 THEN 0 ELSE @ - 1]

\* A timer that is due fires before time goes on, and no operation outlives its timeout
\* by a tick.
Tick ==
    /\ page.timer # 0
    /\ \A o \in Ops : ~page.op[o].crossed
    /\ page' = [page EXCEPT
                   !.access = IF @ = Null THEN Null ELSE Older(@),
                   !.timer = IF @ = Null THEN Null ELSE @ - 1,
                   !.op = [o \in Ops |-> IF @[o].pc = "none" THEN @[o] ELSE [@[o] EXCEPT !.crossed = TRUE]]]
    /\ AuthTick
    /\ UNCHANGED eligible

PageInit == AuthInit /\ eligible = TRUE /\ page \in Resume(Blank)

Answer(o) == Granted(o) \/ Refused(o) \/ Cards(o) \/ Unauthorized(o) \/ Fails(o) \/ Ignored(o)
             \/ \E i \in Images : Image(o, i)

PageNext ==
    \/ \E o \in Ops : Answer(o) \/ Timeout(o)
    \/ \E i \in Images : Loaded(i)
    \/ Poll \/ TokenExpires \/ Hide \/ Show \/ PageHide \/ PageShow
    \/ AccessEnds \/ OtherCall \/ Tick
    \/ (RotateKey \/ EdgeRestart) /\ UNCHANGED <<page, eligible>>

\* A call with the Worker's present key whose download succeeds.
KeyArrives == Due(signing) /\ Download /\ UNCHANGED <<page, eligible>>

\* Timers fire, operations end and time goes on, as a browser sees to.  The network works
\* again and again: a request that is made for ever is answered in the end, and so is a
\* download (the Worker pushes fobs whenever the edge finds its list stale).
PageFairness ==
    /\ WF_pageVars(Poll) /\ WF_pageVars(TokenExpires) /\ WF_pageVars(Tick)
    /\ \A o \in Ops : WF_pageVars(Answer(o)) /\ SF_pageVars(Granted(o) \/ Refused(o)) /\ SF_pageVars(Cards(o) \/ Unauthorized(o))
    /\ SF_pageVars(KeyArrives)

PageSpec == PageInit /\ [][PageNext]_pageVars /\ PageFairness

(***************************************************************************)
(* Properties                                                              *)
(***************************************************************************)
\* Cards and images stay on the screen only while the page is looked at and was not told
\* that access ended, with a timer set for the very end of the token in use, whichever
\* events, late answers, renewals and suspensions came before; and the page keeps polling.
ShownIsAuthorized ==
    page.cards # Null =>
        Looking(page) /\ page.access # Null /\ page.timer = page.access.left /\ page.polling

\* At most one operation may still change the page: whatever else has not ended was
\* aborted, although expiry and visibility drop operations without waiting for them.
OneOperation ==
    \A o \in Ops : page.op[o].pc # "none" => page.current = o \/ page.op[o].aborted

\* Object URLs exist only for images of the cards on the screen, and an image that loads
\* or is shown has one: a late image is neither leaked nor put among later cards.
BlobsAreOnScreen ==
    /\ \A b \in page.blobs : b[1] = page.cards
    /\ \A i \in Images : page.image[i] # "none" => <<page.cards, i>> \in page.blobs

\* The page gives up for good only if access did end, or the edge could not know better:
\* the Worker's key was replaced or a download of it failed.  Throttled downloads and
\* restarts of the edge alone never make a good token look like the end of access.
StopsForCause == page.stopped => ~eligible \/ disturbed

\* The page does not get stuck: as long as someone looks at it and it was not told that
\* access ended, it shows the printers again and again, whatever failed, timed out,
\* expired or was hidden before.
KeepsTrying == []<>(page.cards # Null \/ ~Looking(page))

\* The edge ends up with the Worker's present key and no other (main.go, key), although
\* failed downloads, throttling and restarts may delay it.
KeysConverge == []<>(signing \in keys) /\ <>[](keys \subseteq {signing})
=============================================================================
