# A verification model of TheLab's membership and door system

TLA+ modules, TLC configurations and TLAPS proofs for the programs in this
repository: the firmware of the door controllers (`access-controller/`, Rust),
the edge proxy in the building (`edgeproxy/`, Go) and the Cloudflare Worker with
its D1 database (`site/`, TypeScript and SQL).

## The system

```
 Stripe ──webhook──▶ ┌──────────────┐ ──role requests──▶ Discord
 browser ──────────▶ │ Worker + D1  │
                     └──────────────┘
        PUT /api/fobs │        ▲ POST /webhooks/edge/swipes, /webhooks/edge/sync
                      ▼        │
                     ┌──────────────┐
                     │ edge proxy   │ ◀── kiosk, printers
                     └──────────────┘
       list or 304    │        ▲ POST /api/fobs: swipes, If-None-Match
                      ▼        │
                     ┌──────────────┐
                     │ controller   │ ◀── card reader, POST /unlock
                     └──────────────┘
```

| Component | State it keeps | Operations | Module |
|---|---|---|---|
| Controller sync (`sync.rs`, `cache_store.rs`) | the fob list in RAM and in two flash sectors, the ETag, a ring of 20 swipes | push, sync, 200, 304, save, boot | `ControllerSync` |
| Controller access (`main.rs`) | the reader's channel, a denied read to check again, a backoff, two signals | read, completion, unlock, sync loop | `AccessTask` |
| Wiegand reader (`wiegand.rs`) | none between frames | decode | not modelled |
| Firmware update (`ota.rs`) | two app slots, `otadata` | begin, write, finish | not modelled |
| Edge fob list (`main.go`) | one SQLite row: list, revision, key; last push and last sync request in memory | putFobs, requestSyncIfStale, markStale | `FobPush` |
| Edge outbox (`main.go`) | SQLite table of swipes, a wake channel, a retry timer | controller, run, uploadSwipes | `SwipeOutbox` |
| Edge token check (`main.go`) | a cached key set with its age | verify, key, refresh | `WorkerAuth` |
| Edge printers (`printers.go`) | a worker pair per configured printer, status, last frame | storePrinters, replace, close, poll, report, runCamera, snapshot, cards | `Printers` |
| Edge kiosk proxy (`main.go`) | none | kiosk | not modelled |
| Worker edge integration (`edge.tsx`) | `edge_changes`; signed claims it hands out | pushFobs, edgeSyncRequest, swipeWebhook, kioskClaim, bindFob | `FobPush`, `SwipeOutbox`, `FobBinding` |
| Billing sync (`billing.ts`) | subscription state and version on the member row | syncMember, syncDiscordRole, stripeWebhook | `MemberSync` |
| Checkout (`billing.ts`) | a cached price; customers and sessions at Stripe | checkoutLink, its two callers, linkCustomer | `Checkout`; its customer link also in `MemberSync` |
| Admin (`admin.tsx`), sign-in (`auth.ts`), waiver (`waiver.tsx`) | the member row, signatures, open forms | createMember, updateMember, /sync, /checkout, /delete, registerMember, signWaiver | `Membership` (identity, waiver, access), `FobBinding` (forms), `MemberSync` (billing, role), `Checkout` (links) |
| D1 schema (`migrations/`) | members, waivers, fob assignments, history, revision | triggers | `Membership`, `FobBinding`; the revision also in `FobPush` |
| Browser machines page (`static/machines.js`) | a token with its expiry timer, a poll, one operation at a time, cards and images | start, refresh, pause, expiry, visibility, suspension | `MachinesPage` |
| Browser kiosk page (`static/kiosk/app.js`) | a scan and a code on the screen | scan, expiry | not modelled |

How they interact. A membership write commits in D1, triggers raise a revision
with it, and the handler pushes the list to the edge. Nobody retries a push; the
edge notices that it missed one by its age or by naming its revision with every
swipe upload. A controller asks the edge every ten seconds, or at once when it
has denied a card, and gives its swipes in the same request. The edge commits
them to an outbox before it answers and uploads the outbox to the Worker. Stripe
tells the Worker of subscription changes; the Worker asks Stripe again, stores
the result and sets a Discord role. A checkout link is a session at Stripe, which the
Worker makes, reuses or expires; paying it comes back as a webhook. The machines page
gets a token from the Worker and shows it to the edge, which verifies it with the keys
it downloads from the Worker.

What is hard here. Almost nothing is acknowledged end to end: pushes, swipes,
webhooks and role requests are lost, repeated, delayed and reordered, and each
link repairs this in its own way (a revision, an ETag, a sequence number, a
random id, a version, a re-read). Each repair reads state before a request and
acts on it after. Controllers lose power while they write flash. The firmware
uses one-place signals between tasks. Member rows are changed by webhooks,
admins, sign-in and checkout at once. `PROJECT.json` lists the hazards at their
lines, with the properties that cover them.

What makes each part correct:

- the controller never claims a list it could not reload after a reboot, and
  never forgets a swipe the edge has not stored, except by overflow;
- a card that is denied is checked again against a list that is not older than
  the denial, and a flood of unknown cards does not cause a flood of syncs;
- the edge's list is one the database had, at the revision it carries, never
  older than before, and in the end the latest;
- every swipe reaches the history once;
- D1 has Stripe's subscription state, and Discord has D1's role, once all
  requests have ended and failures have been retried;
- a person is one member however they first came in, can always sign in, and keeps
  the account that was linked; the waiver flag is what the signatures say;
- whatever changes the list of authorized fobs raises the revision and is pushed;
- a printer has one pair of workers, under the saved settings, and what is shown of
  it is recent;
- a member is never offered two sessions to pay for one customer, all sessions of a
  member have one customer, and a link is what its request asked for;
- the machines page shows nothing past the authorization it holds, never mixes up the
  answers of two operations, and neither gets stuck nor gives up without cause; the edge
  ends up with the Worker's present key;
- a fob has one holder at a time, the history of holders has no gaps or overlaps,
  and a swipe that arrives late is still the right person's.

## Modules

- **`ControllerSync`** – the sync loop of one controller. `pc` is the point
  `sync_task` has reached; `slot` holds for each flash sector the list
  `read_slot` would return, or `Blank` for whatever it rejects. `save` is
  `EraseSlot` and `ProgramSlot` per sector; `SaveFails` is the failure of either or of the
  read-back, after which the sector may even have the new list. Saving never awaits, so `Push` is only
  possible while the task is idle or waits for the network; `PowerLoss` is
  possible anywhere and leaves only flash. An event is its number since boot:
  `record` stores no identity, but the property is about which event is which.
  Lists stand for their ETags, which are hashes of the list's content.
- **`AccessTask`** (checked through `MCAccessTask`, which fixes two cards) – the
  reader's channel, `access_task`, `sync_task`, and the two `Signal`s between them. A
  signal holds one value and forgets the one before. `Tick` is a second; it waits
  for the channel and the completion to be taken, because the tasks run before the
  clock moves on. Sync numbers wrap at `SyncMod`, and `Before` is the signed
  comparison of the code.
- **`AuthorizedList`** – the abstract specification: a database goes through a
  sequence of lists, a holder has one of them and never goes back.
- **`FobPush`** – the push protocol between the Worker and the edge, with lost,
  delayed and reordered pushes, key rotation, list overflow, the rate limits on
  both sides, and swipe uploads as far as they carry key and revision. It
  implements `AuthorizedList`: `Abstract == INSTANCE AuthorizedList WITH ...`.
- **`SwipeOutbox`** – swipes from the controller handler to the Worker's history:
  the SQLite table with its reused rowids, the sender goroutine, the wake channel
  and retry timer, and concurrent Worker invocations that store a batch chunk by
  chunk. `history` counts the rows that hold a swipe's id; their order is left out.
- **`MemberSync`** (checked through `MCMemberSync`, which adds symmetry) – one
  member at Stripe, in D1 and at Discord. `proc` holds the handlers in progress: a
  Worker invocation is a record with the next request it will make (`pc`) and the
  values it read before. Every awaited request is one action. `owed` are the
  people who were shown an error; a webhook that failed goes back to `events`.
  `LinkCustomer` is a checkout's link, of a new customer or of any that Stripe has: it
  recovers one from its recent sessions. `relinked` is a ghost: such a recovered customer
  has not been looked up by a sync since.
- **`Membership`** (checked through `MCMembership`) – the members and waivers tables
  and everybody who writes them. `members` is a function from the ids in use to rows;
  a row has the two email columns (`email`, `dmail` for `discord_email`), the account,
  the fob and the columns access depends on. `paying` stands for `legacy_billing` or a
  subscription that grants membership. The three statements of `registerMember` are
  `LinkedByEmail`, `Inserted` and `Refreshed`; `Signed`, `Revision` and `Touched` are
  the triggers. `proc` holds the handlers between two requests: a `signWaiver` that has
  looked up its member, and every handler that still has to push. `legacy_waiver_signed`
  is written by the importer only, so it is set in `Init` or not at all.
- **`FobBinding`** (checked through `MCFobBinding`) – one fob column, in detail: signed
  claims with their expiry, redemptions between reading the member and the update,
  admin forms with the version they were opened at, the assignment table with its
  triggers, and swipes that are stored at any time after they happened. `heldAt` is a
  ghost: who had each fob when each tick ended. D1's clock and the edge's are one clock
  here. Within one tick several changes may happen; a swipe of the same tick may name
  either holder, so the property speaks of swipes stored after their tick (`settled`).
  The test of the version before the update (`admin.tsx:377`) is contained in the
  update's own condition.
- `Membership` and `FobBinding` describe the same rows from two sides: in the first
  an edit is one step and the history of a fob is left out; in the second identities
  and access are. `FobPush` takes over where `Membership` says "pushed".
- **`Printers`** (checked through `MCPrinters`) – the configuration of printers and
  their workers. `job` is where a save or `close` stands in the critical section of
  `configMu`: storing, then the three parts of `replace` (cancel, `wg.Wait`, start).
  `inst` holds the pairs of workers; `poll` and `camera` are the points the two
  goroutines have reached. Both camera protocols are one: they dial, store frames,
  and end by the context, an error or a deadline. A report's callback is a step of
  its own, because the MQTT client runs it on a goroutine that is not in the
  WaitGroup. `Restart` is a crash, or the next start after `close`. Between the
  commit and the assignment of `e.config` nobody can look, so they are one step.
  Reading a form's fields and validating them is the choice from `Forms`.
- **`Checkout`** (checked through `MCCheckout`, which adds symmetry) – the links of one
  member. `req` holds the `checkoutLink` calls in progress: the next request each will
  make (`pc`) and what it has read. Stripe keeps the answer to an idempotency key, so
  things are named by the key they were made under: a customer by the row's version, a
  session by its customer and the number of sessions that were listed. A second creation
  under a key returns the first one's session, or an error if the parameters differ.
  `cached` says that some isolate may still hold the price before. `Legacy` is a session
  from before customers were linked up front: Stripe makes its customer when it is paid.
- **`WorkerAuth`** – the Worker's signing key and the edge's key cache with its refresh,
  its throttle and its age limit. It has no next-state relation of its own.
- **`MachinesPage`** – the page, with `WorkerAuth` as its environment. The page is one
  record and each function of `machines.js` a function from page to page, composed as
  the code calls them; `op` holds the `refresh` calls that have not returned, aborted
  ones included, because their answers may still arrive.
- **`ControllerSyncProofs`**, **`AccessTaskProofs`**, **`EdgeProofs`** (`FobPush` and
  `SwipeOutbox`), **`MachinesProofs`** (`Printers` and `MachinesPage`),
  **`CheckoutProofs`**, **`FobBindingProofs`**, **`MembershipProofs`**,
  **`MemberSyncProofs`** – theorems and proofs. A module that is proved about together
  with another calls its parts by its own name (`OutboxInit`, `PageNext`, ...), so that
  one proof module can extend both.

Definitions named "Mutant: ..." are not part of a specification: each replaces one
definition by a plausible mistake, and `PROJECT.json` names the property that TLC
then finds violated.

## Runs

Commands are run in this directory, e.g. `tlc -config MCFobPush.cfg FobPush`.

| Run | Shows | Bounds |
|---|---|---|
| `controller_sync` | `EtagMeansPersisted`, `NoSilentLoss`, `Converges` | three lists, ring of 2, 4 events a boot, one flash fault, two power losses |
| `controller_power_loss` | the header of `cache_store.rs` claims too much (finding) | two lists, two power losses |
| `fob_push` | `ListMatchesRevision`, refinement `NeverRegresses`, `Converges` | three lists of which one is too long, 2 changes, 1 key rotation, 2 pushes in flight |
| `swipe_outbox` | `NothingLost`, `StoredOnce`, `EventuallyUploaded` | 4 swipes, uploads of 2 in chunks of 1, two Worker invocations |
| `access_task` | `PendingHasResolver`, `FirstSwipeWorks`, `BackoffIsQuiet`, `PendingSettled` | two cards, channel of 2, window and interval of 2 s, sync numbers modulo 4 |
| `member_sync` | `StateFollowsStripe`, `RolesFollowState` | two handlers and a checkout's link, two accounts, two customers, one subscription change, two requests, one failure |
| `member_sync_delete` | finding | two handlers |
| `membership` | `WaiverOnRecord`, `RegistrationSucceeds`, `ListIsPushed`, `LinkedAccountStays`, `ChangesRaiseRevision` | three ids, two accounts, two emails, two fobs, two handlers, three writes |
| `printers` | `OnePairPerPrinter`, `RunningIsSaved`, `ServesRunningCamera`, `StaleIsHidden`, `SaveEnds`, `TriesAgain` | two printers of which one never answers, two settings, three forms, two saves at a time, two slots, one report at a time |
| `fob_binding` | `AssignmentsFollowFobs`, `SwipesNameHolder`, `NoLostEdit` | two members, two fobs, one redemption and two forms at a time, three changes, two ticks, one swipe |
| `checkout` | `OnePerCustomer`, `OneCustomer`, `LinkAsAsked` | two requests at a time, two plans, two prices, an admin's, a legacy and the made customers, two sessions in all, two changes of the row |
| `machines` | `ShownIsAuthorized`, `OneOperation`, `BlobsAreOnScreen`, `StopsForCause`, `KeepsTrying`, `KeysConverge` | two operations, one image, two keys, tokens of two ticks renewed one tick early, keys downloaded after two ticks and trusted for three |

The type invariants are proved for every module with a next-state relation; no run
repeats them.

Why the bounds are enough to make the cases happen. The ring overflows while a
request is out with a ring of two and three events; a fourth leaves one behind it.
Two power losses are needed to lose both sectors, one flash fault to make RAM and
flash differ. Two pushes in flight reorder, and a rotation between them brings the
old key back. Four swipes fill one upload, leave one for the next, and let the table run
empty and start again from sequence 1 while an old Worker invocation is still busy.
A sync number modulo 4 wraps in every behaviour of some length, and the comparison
needs only the half-way point. Two handlers are the smallest number that
interleaves; each makes up to eight requests. Three writes on `Membership` make every
pair of members meet in an email or an account, by any two of the paths that create
them, and then sign, edit or delete; `RegistrationSucceeds` looks one registration
further. A member who exists from the start makes that four. Three changes and two
ticks let a fob go to a second member and away again between a swipe and its upload,
and let it change hands within a tick.

In `Checkout` two requests are the smallest number that races, and two sessions the
smallest number of which one could be too many: a request finds the other one open, paid,
over, of another plan, without a customer, or made under the very key it is about to use.
The three properties are proved for any number of sessions. In `MachinesPage` a second operation
starts while the first one's answer is still out, and a third replaces whichever has
ended; one image is enough to be late for its cards. A token outlives its renewal by one
tick, so that a renewal can fail and the token expire; the keys go stale, are refused,
and are replaced.

In `Printers` the forms add both printers, change one, and change one while the other
is removed; two slots are one more than a printer may ever use, so that a second
pair would show. The silent printer stays in its retry loops, which the other's
saves have to leave alone.

`CHECK_DEADLOCK FALSE` is given to `MemberSync`, `Membership`, `FobBinding` and `Checkout`:
their environment is bounded, and once people and Stripe have used their requests up,
nothing is left to do; and to `MachinesPage`, where a page that was told that access
ended waits for its visitor.

## Fairness

- `ControllerSync`: weak fairness of starting a sync and of saving (the task loops
  and saving never awaits); strong fairness of the edge's answer and of its
  reception, that is, the network works again and again, not for ever.
- `AccessTask`: weak fairness of the tasks, of `SyncComplete` (`with_timeout` ends
  every sync) and of time. A sync need never succeed.
- `FobPush`: weak fairness of the clocks and of the end of an outdated push (a
  request is delivered or times out); strong fairness of an accepted sync request,
  of reading D1, and of the delivery of a current push: if tried again and again it
  works in the end. Uploads need no fairness.
- `SwipeOutbox`: weak fairness of the sender's steps, of the handler's wake-up and of
  Worker invocations ending; `EventuallyUploaded` assumes that failures stop.
- `MachinesPage`: weak fairness of the page's timers, of time and of an operation ending
  (every fetch has a timeout); strong fairness of the servers' answers and of a download
  of the keys: the network works again and again.
- `Printers`: weak fairness of the critical section's steps, of the timers and
  deadlines, of a worker whose context is cancelled, and of time; a printer need never
  answer, and the process may restart at any moment. That time passes also ages a
  report or an image: behaviours in which reports never pause are left out of the
  liveness properties, and `StaleIsHidden` is about those where they stop.

## Proofs

TLC checks the instances above; `tlapm` proves in the eight proof modules (e.g.
`tlapm MembershipProofs.tla`), for every value of the constants that satisfies
the modules' assumptions:

| Theorem | Says |
|---|---|
| `ControllerSyncProofs!TypeCorrect` | `Spec => []TypeOK` |
| `ControllerSyncProofs!EtagMeansPersistedHolds` | `Spec => []EtagMeansPersisted` |
| `ControllerSyncProofs!PrimaryVerifiedFirstHolds` | `Spec => []PrimaryVerifiedFirst` |
| `ControllerSyncProofs!NoSilentLossHolds` | `Spec => []NoSilentLoss` |
| `AccessTaskProofs!TypeCorrect` | `Spec => []TypeOK` |
| `AccessTaskProofs!PendingHasResolverHolds` | `Spec => []PendingHasResolver` |
| `AccessTaskProofs!BackoffIsQuietHolds` | `Spec => []BackoffIsQuiet` |
| `AccessTaskProofs!FirstSwipeWorksHolds` | `Spec => FirstSwipeWorks` |
| `EdgeProofs!TypeCorrect` | `Spec => []TypeOK` |
| `EdgeProofs!ListMatchesRevisionHolds` | `Spec => []ListMatchesRevision` |
| `EdgeProofs!NeverRegressesHolds` | `Spec => Abstract!Spec` |
| `EdgeProofs!OutboxTypeCorrect` | `OutboxSpec => []OutboxTypeOK` |
| `EdgeProofs!NothingLostHolds` | `OutboxSpec => []NothingLost` |
| `EdgeProofs!StoredOnceHolds` | `OutboxSpec => []StoredOnce` |
| `CheckoutProofs!TypeCorrect` | `Spec => []TypeOK` |
| `CheckoutProofs!OnePerCustomerHolds` | `Spec => []OnePerCustomer` |
| `CheckoutProofs!OneCustomerHolds` | `Spec => []OneCustomer` |
| `CheckoutProofs!LinkAsAskedHolds` | `Spec => LinkAsAsked` |
| `FobBindingProofs!TypeCorrect` | `Spec => []TypeOK` |
| `FobBindingProofs!AssignmentsFollowFobsHolds` | `Spec => []AssignmentsFollowFobs` |
| `FobBindingProofs!SwipesNameHolderHolds` | `Spec => []SwipesNameHolder` |
| `FobBindingProofs!NoLostEditHolds` | `Spec => NoLostEdit` |
| `MembershipProofs!TypeCorrect` | `Spec => []TypeOK` |
| `MembershipProofs!WaiverOnRecordHolds` | `Spec => []WaiverOnRecord` |
| `MembershipProofs!RegistrationSucceedsHolds` | `Spec => []RegistrationSucceeds` |
| `MembershipProofs!LinkedAccountStaysHolds` | `Spec => LinkedAccountStays` |
| `MembershipProofs!ChangesRaiseRevisionHolds` | `Spec => ChangesRaiseRevision` |
| `MembershipProofs!ListIsPushedHolds` | `Spec => []ListIsPushed` |
| `MachinesProofs!TypeCorrect` | `Spec => []TypeOK` |
| `MachinesProofs!OnePairPerPrinterHolds` | `Spec => []OnePairPerPrinter` |
| `MachinesProofs!RunningIsSavedHolds` | `Spec => []RunningIsSaved` |
| `MachinesProofs!ServesRunningCameraHolds` | `Spec => []ServesRunningCamera` |
| `MachinesProofs!PageTypeCorrect` | `PageSpec => []PageTypeOK` |
| `MachinesProofs!ShownIsAuthorizedHolds` | `PageSpec => []ShownIsAuthorized` |
| `MachinesProofs!OneOperationHolds` | `PageSpec => []OneOperation` |
| `MachinesProofs!BlobsAreOnScreenHolds` | `PageSpec => []BlobsAreOnScreen` |
| `MachinesProofs!StopsForCauseHolds` | `PageSpec => []StopsForCause` |
| `MemberSyncProofs!TypeCorrect` | `Spec => []TypeOK` |
| `MemberSyncProofs!StateFollowsStripeHolds` | `Spec => []StateFollowsStripe` |
| `MemberSyncProofs!RolesFollowStateHolds` | `Spec => []RolesFollowState` |

The arguments. `EtagMeansPersisted` and `PrimaryVerifiedFirst` are inductive
together once one adds where a save stands: while saving the ETag is empty, while
the second sector is written the first holds the list in RAM, and a 304 is only
ever an answer to the ETag still held (`SaveInv`). `NoSilentLoss` needs to know
which events are in the ring: they are consecutive, from `frontSeq + 1` to `pushed`,
and whatever lies before the front is stored or overflowed (`QueueInv`); and that
the request in progress ends at a number between what was stored and what was
pushed, with everything up to it stored once the edge has answered (`RequestInv`).
The refinement needs that the edge's row is a pair the database had, and that an
upload in progress implies a row (`PendingHasRow`, because the upload reads the row
that a swipe needed to be stored).

`AccessTask`'s three properties follow from one account of how far the sync that a pending
read waits for has come (`Stage`): requested, running, completed, or overtaken by the one
sync that may already have been requested and, at the end of that, replaced by it. The
number of a completion that is being looked at is the last sync's or the one before
(`CompleteIsRecent`), so the signed comparison is never near the half-way point where it
would turn over. What was fetched since the denial lists the read if the edge always has
(`Listed`).

`NothingLost` needs that whatever an upload will delete (`Doomed`) is stored or still to be
stored by the invocation that is awaited (`Covered`), and that no row stored meanwhile is
among it: the last row sent is still there, so the rowids go on above it (`LastIsThere`),
although they start again once the table is empty. That an upload lists all the rows up
to its last sequence is a lemma on ranks (`OrderedFacts`).

`Checkout`'s proof has three layers. For `OnePerCustomer` a request that has listed
sessions has seen all of its customer's, or the session it would make exists under its key
(`CaughtUp`), and whatever it saw is over, about to be expired, or kept (`Settled`). For
`OneCustomer` whoever is about to list works for the row's customer, and whoever will link
one has first seen to the customerless session (`OneReq`). For `LinkAsAsked` the counts in
the keys run below the number of sessions (`Numbered`), so that a key a request has just
counted cannot name a session it has seen.

`SwipesNameHolder` needs that the lookup has one answer and that the answer for a past
time never changes: the intervals of one fob do not overlap and follow the order of
their ids (`Disjoint`), none begins or ends in the future (`Elapsed`), and what the
table says of each past tick is what was (`PastOnRecord`). `NoLostEdit` needs that a
form whose version is current shows the current fob (`FormsShowVersion`): every change
of a fob raises the version.

`Membership`'s invariant is small, `Unique` beside the properties themselves: the
UNIQUE columns are constraints where an admin writes them, and have to be shown where
`registerMember` and `signWaiver` do not expect a conflict. The work is in the lemmas
about the statements: each leaves the standing of the rows that were there, gives a new
row none (`Extends`), and keeps the accounts (`KeepsAccounts`). From `Extends` follow both
that sign-in needs no push and that a revision is only owed where access changes.

`OnePairPerPrinter` needs that whatever runs outside the map is being awaited by the
critical section in progress (`AwaitedInv`), and that there is one such section
(`LockInv`). `RunningIsSaved` needs what each point of the section has achieved
(`SectionInv`): after the cancellations, whatever remains in the map is wanted as it
is. The workers' eleven steps are one lemma: each puts a `Successor` record, which has
the same setting and context and is not the end of a pair that is still live.

`MemberSync`'s two claims are about the moment when all is quiet, so its invariant says
who will put right what is wrong before that: an event still to be delivered or a person
who was shown an error (`Told`), or a handler that has yet to look. For D1 this is a
handler that will raise the version and ask, or that has the latest version and will
store what Stripe says (`Settles`); that only the latest lookup may store, and that
versions differ (`VersionsDiffer`), makes an older answer harmless. A checkout's link is
followed by no sync. A new customer has no subscription and no handler knows it
(`FreshIsUnknown`), so none is needed; of a recovered one nothing is claimed until the
latest lookup has seen it (`relinked`). For the present
account's role it is a handler that will compare it with D1 again (`Mends`), or a login
that found it missing (`Asks`); and such a handler may only be counted on if somebody
takes over should it die (`Kept`): its person, its event while the customer is the same,
or nobody, and then the account counts as orphaned. For any other account that has the
role somebody is about to remove it (`OthersAreRemoved`). All of this is needed at once,
because one handler's end is excused by another's beginning.

`MachinesPage`'s invariant is about the page alone, but for the last property:
`PageAndTimer` says that a page that is looked at polls and has its timer set for the end
of its token (`Timed`), that cards need both (`CardsAllowed`), and that the operation
which fetches images drew the cards (`ImagesBelong`), which keeps a late image off later
cards. Each function of the page is shown to keep it, or to bring it about from less
(`Pause`, `Resume`, `DenyAccess`), so that an action follows from what it composes.
`StopsForCause` is about time: unless something went wrong the edge has no keys and may
download them, or it has the Worker's key and its throttle counts from that download
(`KeysFit`). Since the throttle is not longer than the refresh, and keys are refreshed
before they are too old to be trusted, a token of the present key is then accepted
(`GoodTokenAccepted`).

What stays with TLC, and why:

- liveness under fairness, since the prover has no rules for `ENABLED`: `Converges` of
  `ControllerSync` and of `FobPush`, `EventuallyUploaded`, `PendingSettled`, `SaveEnds`,
  `TriesAgain`, `StaleIsHidden`, `KeepsTrying` and `KeysConverge`;
- induction over data, since the library's induction theorems take an operator as a
  parameter; no model depends on it;
- the two findings, which are counterexamples.

## Findings

Each is a run that expects a violation; `PROJECT.json` quotes the line it contradicts.

1. `cache_store.rs` promises a valid copy after any power loss. A loss during
   the backup's rewrite leaves one good copy, the primary, and the next sync erases
   exactly that one first.
2. `/delete` removes the role, then the row. A webhook that reads the row in between
   grants the role again, and its re-read still finds the member.

Observations that have no run, because no text of the repository says otherwise or
because the property that holds names them as its exception:

- After a transfer whose role removal failed, "Sync with Stripe" does not retry the
  removal: only the editor's own request knew the old account. A sync whose customer
  changed meanwhile trusts the change to sync; a checkout's customer link does not, so an
  account can keep a role that D1 no longer grants until the next event. An invocation may
  die with a role request in flight while the customer changes (`orphaned`).
  `RolesFollowState` claims the role for everything else.
- A checkout of a member without a customer looks for one among the sessions of the last
  24 hours and links it (`billing.ts:147-164`), then answers without a sync. That is meant
  for a webhook that is delayed. If the webhook is over, because an admin cleared the
  customer after it, D1 keeps no subscription while Stripe has one, and the member has no
  access until the next event or "Sync with Stripe". `StateFollowsStripe` leaves out
  exactly a recovered customer that no sync has looked up since.
- After an admin changes the customer, an open session of the old one can still be paid
  (`billing.ts:179`), so a member may end up with a subscription for each; `OneCustomer`
  speaks of members whose customer no admin changed and `OnePerCustomer` of one customer,
  so no property covers this.
- After a key rotation, or when a download of the keys failed, the edge refuses a good
  token with 401; the page takes this for the end of access and stops until it is reloaded
  (`machines.js:34`). `StopsForCause` says that nothing else makes it stop.
- A kiosk claim is good for five minutes and for any number of redemptions: after an
  admin took the fob away, the member can link it again with the same code (`edge.tsx:185`).
- A save of the printers whose client goes away as the `UPDATE` commits is answered with
  an error and leaves SQLite ahead of memory until the next save or restart (`unsure`;
  `RunningIsSaved` allows exactly this). After a reconnection a report of progress alone
  makes the state of the old connection count as fresh, until `pushall` is answered. The
  form carries no version, so of two admins who edit at once the last one wins.

## Not modelled

Rendering, HTML forms, the static site, logging, request parsing and validation,
TLS, MQTT and JPEG framing: they keep no state that a property here is about.
OAuth, Turnstile and webhook signatures are protocols with other services.
The Wiegand decoder is a pure function of one frame; `AccessTask` takes a read's two ids as
they come. A firmware upload's reset is decided by a boot loader outside the repository.
The kiosk page handles one scan at a time; the claims it leads to are in `FobBinding`.
`Checkout` leaves out that the member is deleted meanwhile, and that `checkoutLink` looks
back 24 hours for sessions without a customer: a paid one is taken to have had its webhook
by then.
Provider requests that take effect after their caller timed out are covered only by
their outcome (a handler that died). The controller's radio, door pulse and LEDs
are outputs.

## Plan

What would come next. In the models: the kiosk page with its proxy, composed with the
claims of `FobBinding`; `Wiegand` (decoding against a reference on bounded frames, the
manual-unlock number). In the proofs: every safety property that a run checks is a
theorem now, so what is left is to say more: action properties of the steps behind them
(a delivered list only ever moves to what the database had, a row's version never goes
down, a session is only expired in favour of another), and the abstract view of
`Membership`'s revisions that `FobPush` starts from as a refinement.
