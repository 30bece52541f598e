# MyBuild: a verification project

MyBuild is a two-sided marketplace: a client publishes a construction order, companies send offers, the client chooses one,
the company delivers work in rounds, and the client accepts it or sends it back. The repository has a NestJS backend
(`src/backend`), a Next.js frontend (`src/frontend`) and a package of shared rules (`src/shared`). The backend runs as a single
process (its queues, reservations, rooms and counters live in memory) over PostgreSQL, a Supabase bucket for files, and sockets.

This directory has TLA+ modules of the parts whose correctness depends on concurrency, failures or long sequences of calls,
configurations that check small instances with TLC, and proofs for instances of any size with TLAPS.

## The system and its parts

| part | state | operations | what makes it correct |
|---|---|---|---|
| shared rules (`shared/src/state.ts`, `offers.ts`, `orders.ts`) | none | tables of transitions and preconditions, predicates | backend, feed and buttons decide by the same rule |
| state machine, transitions (`order-state-machine.ts`, `order-transition.service.ts`) | rows `Order`, `Offer`, `Notification` | seven events, under the row lock of the order | order and offers tell one story; one executor; the deal is the offer |
| orders (`orders.service.ts`) | row `Order` | create (row, then files, rollback), remove | no work is lost, nobody is left without a word |
| offers, feed (`offers.service.ts`, `available-orders.ts`) | row `Offer` with `editedAt`, `rejectionCount` | submit (upsert), withdraw, reject | the client gets the terms that were shown; a final rejection is final |
| work (`order-workflow.service.ts`) | rows `OrderSubmission`, `OrderFile` | addFiles, submitWork, confirm, dispute, verifyArea, acceptOffer | submitted rounds and completed orders do not change |
| notifications (`order-notification.ts`, `notifications.service.ts`) | rows `Notification` | written by transactions, collapsed while unread, read | no news swallowed, no repeats |
| queue of an order (`keyed-queue.ts`, `order-queue.ts`) | map of lanes | run, timeout | mutual exclusion, order, bounds, progress |
| files (`files.service.ts`, `file-quota.ts`, `storage.service.ts`, `semaphore.ts`) | rows, bucket, reservations, semaphore | attach, clean up, remove | rows have objects, quotas hold, nothing leaks |
| admission of uploads (`upload-admission.guard.ts`, `upload-slots.ts`) | counter | admit, close | every slot comes back |
| realtime (`order.gateway.ts`, `realtime-events.ts`, `realtime.service.ts`) | rooms, timers | subscribe, emit, evict, expire | only who may hear a room is in it |
| demo (`demo-reset.ts`, `demo-reset.service.ts`, `database-wipe.ts`) | database, a flag per process | tick, reset, seed, wipe | one demo set, never replaced while fresh; real users lose nothing in silence; it comes back |
| stale signups (`stale-signups.ts`) | accounts | choose, delete | addresses do not stay taken |
| view (`order-view.ts`, `ownership.guard.ts`, `assertFileAccess`) | none | what each role sees and may open | privacy, and one answer at every door |
| page of an order (`order-access.ts`, `order-actions.ts`, `submissions.ts`, the cards and dialogs under `components/orders` and `components/offers`) | none | who looks, which rounds, which buttons, what is said | the page promises what the server grants, and says what is so |
| dialogs of the executor (`work-dialogs.tsx`, `work-files-form.ts`, `file-dropzone.tsx`) | files chosen, the page as it was when the dialog opened | open, choose, send, hear the answer | what was loaded is told as loaded, what was chosen is not lost |
| live updates (`live-updates.ts`, `realtime-bindings.ts`, `order-live.tsx`) | subscriptions, timers, the order shown | join, retry, refresh | a page is never stale for ever |
| lists, notifications and bell (`components/**/*-list.tsx`, `notification-*.tsx`, the services' `list`) | none | read, read again on an event | every change of what they show is announced to them |
| rate limit (`rate-window.ts`, `throttle.guard.ts`) | stamps per caller and route | hit, sweep | not more than the limit in any window; who waits as told is let in |
| accounts (`components/auth`, `components/settings`, the triggers on `auth.users` and `auth.sessions` in `prisma/migrations`) | accounts and sessions at the provider, a cookie and a verifier in each browser | register, confirm, sign in and out, recover, change a password | an account belongs to who reads its mail; a changed password shuts the others out |
| doors (`proxy.ts`, `navigation.ts`, `session.ts`, `supabase-auth.guard.ts`, `roles.guard.ts`, `order.gateway.ts`) | the token in the cookie, the socket of the cabinet | request a page, render it, call the API, connect | whom one door lets in the next does not refuse; nobody is sent round in circles |
| demo orders (`demo-data.ts`) | the rows that a reset writes | written past the state machine | they are states that an order can be in |
| users, contractors, health, forms | rows of users | read, simple writes | outside of these modules |

Interaction: every transaction about an order goes through the queue of the order and then takes the row lock (`lockOrder`), writes
order, offers, rounds and notifications, and commits; only then are socket events sent. Uploads go to the bucket between two
such transactions. What is hard here: requests that took something (a stamp, a snapshot, a round, a usage) before an await and use
it after; failures of the bucket half way; the queue's timers; clean-up beside other requests; deletion beside creation; sockets
that break while a check of access is under way; a periodic job that meets people in the middle of a transaction; an account whose address two
people typed; tokens that outlive what they claim; and rules that are written down several times: on the two sides of the network, in a
machine, in the words of a dialog, in lists of events.

## Modules

| module | models |
|---|---|
| `OrderRules` | the statuses, tables and predicates of `shared/` |
| `OrderLifecycle` | one order from creation to completion or deletion: every operation of the orders, offers, workflow and notifications services that writes |
| `OrderContract` | what the machinery promises the two sides, as a specification of its own; `OrderLifecycle` implements it by the mapping `contractStage`, `contractorOf`, `deal` |
| `OrderView` | the order as each user gets it, what may be opened and downloaded, and the buttons that the page makes of it; extends `OrderLifecycle` |
| `OrderMachine` | the same operations divided as in the code: the checks of a service, the pure state machine with its refusals and plans, the service that reads, asks and writes under the lock; its `MachineSpec` implements `OrderLifecycle` (`KeepsLifecycle`) |
| `OrderPage` | what the page of an order says: cards, headings, hints, the promises of its dialogs; extends `OrderMachine` |
| `LiveScreens` | what the lists, the page, the notifications and the bell show, and whom each step tells; extends `OrderPage` |
| `DemoOrders` | an order as a reset of the demo writes it, and what visitors make of it; extends `OrderView` |
| `OrderParticipants` | who takes part in an order, as little as the rooms need to know; `OrderLifecycle` implements it (`KeepsParticipants`) |
| `OrderRoom` | the room of an order at the gateway, the sockets and the pages that show the order; extends `OrderParticipants` |
| `KeyedQueue` | the in-memory queue of an order |
| `UploadAdmission` | the guard and the slots of requests with files, in front of `KeyedQueue` |
| `FileUploads` | attaching files, quotas, reserved space, clean-up, removal of objects |
| `DemoReset` | the scheduled reset in several processes, the seed script and the wipe, beside real users |
| `StaleSignups` | the clean-up of signups that nobody confirmed |
| `WorkDialogs` | the executor's dialogs in several tabs, their requests and answers |
| `RateWindows` | the sliding windows of the rate limit and the guard in front of a route |
| `Accounts` | accounts, letters, sessions and passwords, in several browsers |
| `Doors` | the pages, the proxy, the rendering, the guards of the API and the gateway, for the session of one browser |
| `ScheduledJobs` | `DemoReset` and `StaleSignups` together, on the same accounts |
| `MC...` | the instances for TLC |
| `...Proofs` | the theorems |

A definition named `Slip...` is a deliberate mistake next to the definition that it varies (a dropped check, a wrong key, a missing
reset, a forgotten event). No specification uses it; each is there to show that the property it is paired with in `PROJECT.json` can fail.

### OrderLifecycle and the code

The variables are columns: `status`, `deal` (price and deadline), the comments and the area of `Order`; `offerStatus`, `proposed`,
`editedAt`, `rejectionCount` of the one `Offer` a company has on the order; `roundState`, `roundComment`, `roundFiles` of the
submissions and their files; `notices`, the unread and read notifications. Besides, there are requests half way: `drafts` (POST offers
that took `editedAt` and wait for the queue), `uploads` (addFiles past `openSubmission`), `creating` (create before its files are in),
and `seen`, the offer in the client's tab.

- *Steps.* A transaction that commits is one step, because it holds the row lock of the order from its first statement; one that
  rolls back does nothing. The queue (its own module) orders transactions and adds no behaviour. A check that a guard or a
  controller makes on a snapshot and the transaction repeats under the lock appears once, in the transaction. A check made only
  before (`findOffer`, ownership) concerns who owns the row, which never changes. `DropSubmit` and `DropUpload` stand for
  everything that makes such a request fail.
- *create* is three steps (`Create`, then `AttachTaskFiles` or `RollbackCreate`), since the row is visible after the first.
- *addFiles* is `OpenSubmission` and, any time later, `AttachWork`. When all files are duplicates the code saves the comment in a
  transaction of its own, with the same check; `AttachWork` covers both.
- *Notifications* are a set of records of addressee, type, key and read mark; rows that differ only in text or time are one. A
  key names the offer, and so the company. After the deletion of an order `ORDER_DELETED` has no key, as in the code.
- *Time* is `clock` for the stamps, which advances by a member of `StampGaps` at each request, and `today` for deadlines.

### KeyedQueue and the code

`acquire`, the timer's callback and `release` run without an await, so they are steps; the continuation of a resolved `acquire` is
the step `Enter`, which leaves the gap in which a newcomer could slip in. Callers come again for ever.

### UploadAdmission and the code

A request with files is `away`, `checking` (the guard awaits `assertRoomForUpload`), `open` (it has a slot and listens for `close`),
or `aborted` (the client went away, its slot is free, its handler still works). `closed` is a connection that broke during the
await: the event has been and gone. Only an open or aborted request calls the queue. That a slot is free while an aborted
handler still works is what the code does; the queue behind bounds that work.

### FileUploads and the code

`attachFiles` is cut at each await: `Start` (dropDuplicates), `Measure` (the usage is read), `Reserve` (check and promise, in one
go), `StartPut`/`EndPut` or `FailPut` under the semaphore, `BeginTx` (the last check, by rows), `CommitTx`, `Committed` (the process
hears of it), `ReadLive` and `RemoveOrphans` for the clean-up, `Undo` for the row of a failed creation. The
removal of an order is `ListKeys`, `DeleteOrder`, `RemoveObjects`; the transaction refuses where the order has gone or moved on meanwhile (`refused`), and an object of an order that
went without it (its creation was undone, or the keys had been listed before its row came) stays: `LeftoversAccounted` says so. A key is a place, a content and a name (`buildStorageKey`); a
row is unique by place and content only, so the same content under two names has one row and two objects for a while. Abstracted:
bytes to sizes; the three sums of `readStorageUsage` are read in one step; the files of a request are put in one order, whichever. Transactions
of one order exclude each other by `inTx`, which stands for the queue.
The bucket is external: a failed put may or may not leave the object, a failed removal leaves all.

### OrderView and the code

`toOrderDetail(u)` is the answer that `order-view.ts` makes for a user: masked status, deal and area, the offers and files that
the user may see, the rounds, the flag `canSubmitOffer`. Names, contacts and dates of change are masked by the same two
conditions and left out. `mayEnter` is the ownership guard, `isOrderParticipant` the gateway's rule, `assertFileAccess` that of a
download. `seesRealStatus`, `openRound`, `clientButtons` and `companyButtons` are the functions of the page; they take the
answer, never the state, as in the code. The two reads of `getDetail` (row, then files) are taken as one: no property is about
a page that mixes them, and live updates read it again.

### OrderRoom and the code

The database part is `OrderParticipants`: a stage, the companies in play, and five kinds of commits. A commit appends the new
version to `views` and its broadcast to `pending`; `Dispatch` is `RealtimeService.dispatch`: evict, then emit. With one process the order
of dispatches is that of the commits. `subscribeOrder` is cut at its awaits (`CheckBefore`, `Join`, `CheckAfter`,
`LeaveAfterCheck`); `Fault` is an answer `retryable`: over the rate limit, or a failed query.

A binding of `bindRoom` is a closure, so replies, retries and attempts belong to a binding and live on after it ended. A socket delivers
in order; what is under way is lost when it breaks, except messages that socket.io sends after the next connection. `Disconnect` stands for the network and for the expiry
of the token. The page: `Render` by the server, `Mount` of the listeners, a `burst` that collapses events into one reading,
`ReadOrder` and `Apply`, which may be applied in any order. `newest`, `owed` and `online` only serve the properties.

What the code does and no property claims: a socket may stay in the room of a page that is closed (the server handles
`unsubscribe` before the join of an earlier `subscribe`, or a retry was scheduled by a reply that came after the end of the binding); it hears events that
nobody listens to. A second check that fails leaves a stranger in the room until its socket breaks or leaves (`abandoned`). Of two
readings the older may be applied last: the page then shows an older version, until the next event. What happens between the rendering and the mount, or before the first
connection, is not counted as missed (`realtime-bindings.ts:64-76`), so such a page learns of it with the next event.

### DemoReset, StaleSignups, ScheduledJobs and the code

One demo client stands for the four demo accounts: its row is the marker of the last reset (`updatedAt`) and the lock of every
reset (`SELECT ... FOR UPDATE`). A demo set is named by the reset that laid it. Under READ COMMITTED each statement sees what is committed when it
begins, so the statements that matter are steps: `Lock` (with the second look at the marker), `ReadOutsiders`, `DeleteOrders`,
`Commit` (the inserts and the end of the transaction). The calls to the identity provider before it (`Find`, `DeleteAccount`,
`CreateAccount`) are not part of the transaction. `Fail` is an error at any point: a forced one, where another reset got there first, or
an arbitrary one. Row locks are kept to the end of a transaction, which is what the guards on `rowLock`, `trading` and
`doomed` say.

Two kinds of real users matter: companies of the outside with offers on demo orders (`offer`, `trading`, `told`), and a real client's
order with an offer of a demo company (`deal`). An offer notifies the demo client, and the foreign key of a notification locks the client's row: this,
and nothing that the reset does, keeps an offer from slipping between `ReadOutsiders` and `DeleteOrders`. A transition and a reset can wait for each
other; the database ends one of them (`AbortTrade`, `Fail`).

`StaleSignups` keeps the accounts without confirmation in the order of their creation; a pass chooses the oldest of them, a batch at a time, and deletes one
after another. `ScheduledJobs` lets the same person sign up, confirm, trade on a demo order and lose the account.

What the code does and no property claims: a reset that fails after it made an account anew leaves a fresh marker, so the next one comes only after six hours
(the comment at `demo-reset.service.ts:83-86` expects the next tick); outsiders' offers disappear silently when an unflagged
account is replaced (`DeleteAccount`) or by a wipe; a reset fails if an outsider to be told was deleted meanwhile (foreign key); a wipe locks
nothing if there is no demo client; an account confirmed between choice and deletion is deleted.

### OrderMachine, OrderPage, LiveScreens and the code

`OrderLifecycle` says at once what a transition does. `OrderMachine` divides it: `refusal` and `handlerFor` are the pure machine, which
knows an event and the status of the order and answers with a refusal or a `plan` (a next status with a list of effects); the service
reads under the lock what the event needs (`resolveOffer`, `buildEvent`), asks, and writes (`applyEffects`). The refusals are those of the
code's error classes; `RefusalsPointTheWay` is about the way out that each of them names.

`OrderPage` makes a word of every sentence of the page which claims something (of the stage, of what the reader may do, of what a
click will lead to) and says in `holds` what that is of the order. `LiveScreens` has the DTO and the row of each list, the broadcasts of the services (`transitionBroadcast`,
`filesBroadcast`, ...) and the lists of `live-updates.ts`. Rows of notifications that are equal are one, so the number at the bell may be higher
in the program.

### DemoOrders and the code

`DemoInit` is one of the six orders of `demo-data.ts`, with its offers, submissions, files and notices, read from the data of the file and the way
`createDemoOrder` turns it into rows. From there the steps are those of `OrderLifecycle`.

### WorkDialogs and the code

A tab has a page that may be old, a dialog, and the files chosen. `send` notes what the dialog knows (the files shown, the round it
names); the request is served in the steps of `addFiles` and `submitWork`; the answer is read from the database later still, and is heard by a page
that may have given up (`withTimeout`) or put up another instance of the dialog. Files are contents with names, as the dropzone compares names and the server
contents.

### RateWindows and the code

A window belongs to a subject and a route; the subject is the account, or the session for a shared account of the demo. `hit` counts the hits that
are younger than the window, and sweeps at most every `SweepInterval`. The clock has `Second` ticks in a second, since the guard rounds
`Retry-After` up to seconds.

### Accounts and the code

The provider is external: what it does with an account, a letter, a code and a session is taken from how the code uses it. The triggers of the migrations
are operators (`storedOnConfirmation`, `demoLocked`, `acceptsPassword`, `mayRemove`), the screens are actions of a browser (`SignUpByLetter`,
`OpenLetter`, `SignIn`, `OpenReset`, ...). A password is named by who chose it, so that "who can come in" is a question to the state.

### Doors and the code

One tab: `Proxy` (`proxy.ts` with `updateSession`), `Render` (the page with the requests that the server makes for it), `Call` (requests
of the browser), `Connect` and `AskFeed` (the socket of the cabinet, which outlives pages and keeps its token). The routes with the roles of their decorators and the requests of each page
are written down once each, from the controllers and from the pages. The claims of a token are those of the hook when it was issued. Outside of the tab: the switch of the hook,
a letter opened elsewhere, another tab of the browser, an hour that goes by. Assumed of the SDK: it renews a token in its last 90 seconds, so that none
expires during a rendering. The cache of the router is left out.

## Runs

| run | question | bounds |
|---|---|---|
| `OrderSelection` | are order and offers consistent, is the deal what the tab showed, does a final rejection hold, do feed, button and machine agree, is every fate announced, does a refusal name a way that is open | two companies, two proposals of which one expires, three stamps, requests that overtake one another, a client who reads at any moment |
| `OrderDelivery` | with services and machine divided: is a removal told; do buttons, files and words of a page agree with the server, is every screen told; is the lifecycle implemented | two companies, two offers sent, two rounds, one file, one comment, two uploads in flight, a client who reads: an upload may outlive the submission of its round and the opening of the next |
| `OrderRoom` | who is in the room, who hears it, can an open page miss news | a company's tab, four versions of the order, two bindings of its room, one broken connection, one refused message or failed query, one retry: every pair of a commit, a check, a reply and a break |
| `OrderQueue` | exclusion, progress, slots | five callers, two orders, two may wait; three of the callers bring files, two slots, one close that comes too early |
| `UploadSlots` | *violated*: the finding below | as `OrderQueue` |
| `ScheduledJobs` | one demo set, outsiders are told, deals stand; the demo comes back and addresses are freed (`JobsAreDone`) | an instance with its schedule, a wipe with its reset, a company that signs up, confirms, trades and may be deleted; one failure |
| `DemoOrders` | do the rows of a demo order agree with each other, then and later; do submitted rounds stay, do strangers see nothing | all six orders; visitors offer one price, load the files of the demo, write one remark |
| `RateLimit` | never more than the limit in any window; who waits as told is let in | two sessions of one account and two visitors of the demo, two routes, clock to 7, four hits: two windows and the edge between them, a sweep |
| `Accounts` | who owns an account, is a form for a new password honoured, do screens tell the truth, are others shut out by a change | one address that is new or of the demo, typed by two people; three browsers, a window of one tick of three, two passwords |
| `Doors` | is whoever comes in served, do sign-in and menu lead where they say, does every request end at a page | a client and a company, all pages, three events outside of the tab |
| `FileUploads` | quotas of orders, promised space, the bucket follows the table, progress | two uploads of work whose files share a content under two names, or differ, a creation of a second order, a removal, one slot, any step may fail |
| `WorkDialogs` | is what was added told as added, are drafts kept | two tabs, two files, two requests, two rounds; the order may begin with an open submission |

Deadlock is checked in `OrderQueue`, `ScheduledJobs`, `Accounts` and `Doors`. The other systems really stop: an order ends completed or deleted with the bounds
used up, a tab leaves for good, each request with files arrives once, and the clock of `RateLimit` and the requests of `WorkDialogs` are bounded. Symmetry over companies, files,
comments, sessions and tabs is used in the runs of safety only.

The instances are small where a larger one adds no new case: rivals need two companies, an upload that meets the next round needs two rounds, one reset that
meets another needs two resets. The proofs lift these bounds for the properties listed below.

Fairness. `KeyedQueue!Fairness` assumes that a resolved promise continues and that a transaction ends (it has a timeout of its own);
nothing of callers or timers. `FileUploads!FairSpec` assumes only that the process does not stand still while a request that has begun
can go on (weak fairness of the steps of all requests together): the bucket and the database answer, with a result or an error.
`DemoReset!DemoFairness` assumes that the timer of an instance fires (`WF`), that a reset which may go on goes on, and fails where it
must; steps that wait for a row have strong fairness, since the database grants a lock in the order of the waiting, however often the row
is taken and freed; that transactions of users end; and that time passes. Arbitrary failures are bounded, as no program recovers from
errors that never cease. `StaleSignups!SignupFairness` assumes the timer and an answer, good or bad, to each deletion; nothing of people.
`Doors` assumes that the frontend's server answers what it is asked (weak fairness of `Proxy` and `Render`); nothing of the user.
The other specifications need no fairness: people and the network decide their steps, and their properties are of safety (`NewsReachOpenPages`
says that the reading which is still owed exists, not that it comes).

### Finding

*A slot is lost.* `canActivate` awaits the quota before it listens for `close` (`upload-admission.guard.ts:59-73`). A connection that
breaks during the await takes its slot with it; after three such requests every upload is refused until the process restarts. The comment at
`upload-admission.guard.ts:29-30` says that a slot comes back also then. `OrderQueue` shows that a slot is lost in no other way (`SlotsAccounted`).

### What the code does and no property claims

The properties are as strong as the code allows. Where they stop, it does the following.

- *Two edits in one millisecond* (`offers.service.ts:100`): `submit` computes `editedAt` before the queue, and acceptance compares only the
  stamp. `DealAsSeen` is checked and proved for requests that bear different stamps.
- *A creation that fails late* deletes the row whatever happened since it became visible (`orders.service.ts:147-160`), a running order
  included, and tells nobody. `RemovalIsTold` is about `remove`.
- *The clean-up* asks the database and removes later (`files.service.ts:493-503`): an object whose row another request of the same file commits in
  between is gone. *The quota* is checked against a usage that was read before the promised space (`files.service.ts:441-448`), so the bucket may exceed it for a
  time. *Leftovers without a failure*: `remove` lists the keys before its transaction (`orders.service.ts:251`).
- *Room of an order*: a socket may stay in the room of a page that is closed, and a second check that fails leaves a stranger in it until the socket breaks
  or leaves; of two readings the older may be shown last, until the next event; what happens between the rendering and the mount of a page is not counted as missed
  (`realtime-bindings.ts:64-76`).
- *Screens that are not told* (`ScreensAreTold` names them): a user's other tabs after creating or deleting an order, the feed after one's own offer, the executor's documents after an upload;
  the page of a company that has no offer in play, when the order leaves the search or is deleted, and its row in the list of offers, although `live-updates.ts:49-51` says that
  the row must go; the links of notices of a deleted order; a round that an upload opened and has yet to fill; notices read in another tab.
- *Words*: the dialog of a rejection promises that the same company may send a new offer (`offer-decision-dialogs.tsx:107`), also when the second rejection makes that impossible; the card of
  the area asks to make it precise on a completed order, where nobody can (`order-detail.tsx:355-357`); the heading of the work card of a completed order names a
  next submission. `PageIsTrue` says so in its definition.
- *Dialogs of the executor*: an upload from an old page may be told as added where the server had the file already, with the number of a round that is no longer the open one; two files of one name
  come in from two tabs; a creation that timed out and is sent again makes a second order.
- *Demo and signups*: a reset that fails after it made an account anew leaves a fresh marker, so the next one comes only after six hours (the comment at
  `demo-reset.service.ts:83-86` expects the next tick); outsiders' offers disappear silently when an unflagged account is replaced or by a wipe; a reset fails if an outsider to be told
  was deleted meanwhile; a wipe locks nothing if there is no demo client; an account confirmed between choice and deletion is deleted. The loser's notification of
  the demo is an `OFFER_REJECTED` where the machine writes `OFFER_NOT_ACCEPTED` (`demo-data.ts:570-573`).
- *Accounts and doors*: a letter opened in another browser gives neither a session nor a password; a token without a role passes the routes that name none; the cookies of
  a renewed session are lost when the proxy redirects; a socket keeps the claims of the token it connected with until that expires.

## Proofs

All theorems are about the specifications that TLC checks, for any constants with the stated assumptions.

| module | theorems |
|---|---|
| `OrderProofs` | *the lifecycle*: `LifecycleTypes`: the type invariant; `SelectionAlwaysConsistent`, `DealAlwaysTheOffer`, `FinalRejectionAlwaysHolds`; `RoundsAlwaysFollow`, `SubmittedRoundsStayFrozen`, `CompletedStaysFinal` |
| | *stamps and contract*: `EditsAlwaysToldApart`, `TheDealIsTheOneSeen` (both assume `StampGaps \subseteq Nat \ {0}`: two edits in one millisecond refute them), `LifecycleKeepsContract` |
| | *notices*: `DoorsAlwaysAgree`, `OneUnreadAlways`, `FateAlwaysAnnounced`, `RemovalAlwaysTold`, `LifecycleKeepsParticipants` |
| | *the view*: `FilesShownAlwaysServed`, `RoomAlwaysForParticipants`, `StrangersNeverSeeProgress`, `ButtonsAlwaysAgree` |
| | *the page*: `PageAlwaysTrue`: what its cards, rows and dialogs say is so |
| | *the open screens*: `ScreensAlwaysTold`: what a step changes on a screen, an event that this screen hears announces |
| | *the machine*: `MachineImplementsLifecycle`: the divided steps are steps of the lifecycle, so all that is proved of the lifecycle holds of them; `EveryCommandIsAnswered`; `RefusalsAlwaysPointTheWay`: what a refusal advises is so, on the page that its reader loads next |
| `OrderRoomProofs` | `RoomTypesHold`: the type invariant; `RoomAlwaysHoldsParticipants`, `NewsAlwaysReach` |
| `FileUploadsProofs` | `FileUploadsTypes`: the type invariant; `OrderAlwaysWithinQuota`, `PromisesAlwaysKept`, `BucketAlwaysFollowsTable` |
| `AccountsProofs` | `AccountsTypes`: the type invariant; `OwnersAlwaysOwn`, `FormsAlwaysHonoured`, `ScreensAlwaysTrue` |
| `DoorsProofs` | `DoorsTypes`: the type invariant, and what a token says is not false; `CabinetAlwaysServed`, `ArrivesAlwaysWherePromised` |
| `KeyedQueueProofs` | `TasksRunOneAtATime`, `LanesFollowHolders`, `QueuesHoldWhoWaits`, `QueuesAreBounded`; `AdmissionKeepsTheQueue`, by which these hold behind the admission too; `SlotsAlwaysAccounted` |
| `RateWindowsProofs` | `NeverMoreThanTheLimit`, `TheMapAlwaysForgets`, `WaitingIsAlwaysEnough` |
| `DemoResetProofs` | `OneSet`, `DealsSurvive`, `FreshDemoIsKept`, `LosersAreTold`; `JobsImplementDemo` and `JobsKeepTheDemo`, by which these hold of `ScheduledJobs` |

The constants are any that the named assumptions of the modules allow: finite batches of files with sizes in `Nat`, a window and limits that are numbers, an owner to each tab
and browser, and that the values which stand for "none" (`NoSession`, `NoToken`, ...) are not among the values proper.

The argument for selection: the consistency of order and offers, with the types, is inductive: the tables of the rules say which
statuses an event may start from (lemmas `TableOfOffers`, `TableOfWork`), and the count of other pending offers is taken in the same
step. That the deal is the executor's offer needs it, since an offer that is executed cannot be resubmitted. That the deal is the
one seen needs that stamps in drafts, rows and the tab are all in the past and that no stamp is in use twice: `EditsToldApart`.
The refinement needs in addition that the executor is unique (`OneExecutor`), so that the chosen `contractorOf` is stable.
Rounds: a round is open only in the statuses in which work may be uploaded, and only the last. The queue: exclusion is inductive only
together with the lanes (a lane exists while somebody holds the key) and with the contents of the queues (whoever is passed the key
was waiting, once).

The notifications: a superseded row has the addressee and the key of a new one, so what `FateIsAnnounced` asks for goes only when its offer gets a
new status, which the same step announces. `DoorsAgree` needs that a rejected company is not counted beyond the limit. The participants need
that the rivals of an accepted offer are exactly the pending ones.
The view: `ButtonsAgree` is the long one. The page sees masked data, so the proof goes button by button and shows that where the
mask hides something the rule does not need it; for the button that submits work, that the page's last round without submission is the open round of
the database (`FilesHaveRounds`: only rounds with a row have files).
The page: `PageIsTrue` follows in one state from the invariants of the lifecycle and the view, with one more that words need (`ColumnsTellTheStory`: a disputed order has a comment, a comment was
preceded by a submission, an area by the choice, a rejected offer by a rejection that is counted). `PageFacts` puts them together; `BeforeTheChoice` and `DuringTheWork` say what is so in the two halves of an
order's life, and then there is one lemma to a card and one to a dialog. The dialog of an acceptance counts the offers on the page, the machine those it turns away: the two numbers are
equal because the companies are finitely many, which `LifecycleAssumption` says (their rows are in a table).
The screens: `ScreensAreTold` is about one step, so what it needs of the states before and after it is put together in `ScreenFacts` (the types, `SelectionConsistent`, the lists with the masks carried out,
and that nobody is written to before there is an order). `ListsKept` says of each list what it depends on; `PlanIsTold` what the service sends for a plan of the machine. Between them stand the roles: the client, the company
whose offer the step is about (`HolderIsTold`), and the others, whose page changes only if their offer does, or if the order enters or leaves the search (`OthersAsBefore`). The step of the machine is that of the lifecycle by
`MachineImplementsLifecycle`, its message is computed from the plan of the machine; so what is sent is compared with what the rows become.
The demo: `DemoInv` says who has the row of the demo client in each phase, that what a reset is going to delete is all there is once the row is
locked and the orders are deleted, and that the outsiders to be told include all with an offer in play; the last holds only since such an offer waits for
the lock. The slots: their number changes with the set of open responses, by one at a time.
The machine: in each state of an existing order every command gets a refusal or a plan of known effects, and a plan, carried out on the rows that the service has read,
gives the rows that the lifecycle's action gives; the two are compared event by event. What a refusal advises (`RefusalsAlwaysPointTheWay`) follows from `DoorsAgree` and `ButtonsAgree`: the page that is reloaded offers only what the server grants.
The rate limit: the window that is kept is the tail of the history of admitted hits, as long as nothing younger than the window is swept; so a hit is let in only if fewer than the limit
are that young. A refusal names the moment when the oldest of them leaves the window, rounded up to seconds; the hits that remain then are fewer than the limit (`IsKept`) until another is let in.

The room (`OrderRoomProofs!IInv`): a participant once out is out for good (`isOut`: the order is gone, or the place was lost once), so a second check that finds a stranger stays right until it puts
the socket out. Bindings are numbered as they are made, and the messages of a socket keep their order; hence of the binding of an open page a message that leaves
the room comes before all that the page asks (`LeavingComesFirst`), and an answer "ok" that reaches the page speaks of a socket that is in the room (`AdmittedIsIn`). An eviction names only
those who are out (`EvictedAreOut`), so nobody else loses the room. For the pages: broadcasts and readings bear versions that exist, and each change of what a page is owed
comes with the burst, the message or the answer that `tellsSoon` names; an answer that carries the version owed ends the debt when it arrives.
The uploads (`FileUploadsProofs!IInv`): transactions of one order exclude each other (`Alone`), so what the last check read stands until the insertion (`StillFitting`), and the quota holds by rows. The space promised
is the number of bytes that requests hold, bytes counted as a set (`Promised`); the same files under two requests are counted twice, as in the code. For the bucket one needs who cares for an object
(`caresFor`) and that an order does not come back (`NoReturn`): a clean-up that starts after its transaction removes only what nobody else brought, or what another request shares.
The accounts (`AccountsProofs!IInv`): only confirmed accounts have sessions, and an account that waits for a letter had one sent, so the password typed before is dropped when the letter is opened; the
demo accounts are those with the published password. A form is honoured since a session that came of a letter is never younger than the last sign-in. Passwords are numbered as they are chosen, which
tells the session that was signed in a moment before a change from those after it. The actions write fields of one row and one session; what each of them does to
an account, a session, a cookie and a screen is stated once (the lemmas before `NextInv`), and each part of the invariant is proved from that.
The doors: the four lists (proxy, menu, requests of the pages, roles of routes) are compared by their values, so the theorems say that these lists agree; the rest follows the token. A token says nothing
false (`HonestTokens`), who was let in had a token that the page asks for (`LetIn`), and a promise to bring somebody to a page is kept through every redirect as long as its holder has the same token (`ArrivalInv`).

What is proved for all constants need not be run again: `DealIsTheOffer`, `EditsToldApart`, `OneUnreadPerKey`, `CompletedIsFinal`, `KeepsContract`, `KeepsParticipants`,
`RoomIsForParticipants`, `LaneIffHeld`, `QueueIsWhoWaits`, `QueueBounded`, `NoNeedlessReset`, `MapForgets` and the type invariants of `OrderRoom`, `FileUploads`, `Accounts` and `Doors` are in no configuration,
and were checked with TLC before they were proved; so were the inductive invariants. The type invariant of `WorkDialogs` was checked and has no proof.

Only model-checked: liveness (`EveryWaitEnds`, `EveryRequestEnds`, `JobsAreDone`, `EveryoneArrives`), which the prover does not treat; `WorkDialogs` (`AddedFilesAreTold` compares two counts that `countCompanyFiles` makes with a fold, so its invariant needs an induction over data; `DraftsAreKept` has no proof written yet); and `DemoOrders`, whose orders carry the demo's own terms and so step outside the type invariant that the theorems about `Orders` start from.

## Not modelled

- *Retries of the connection and the notice that it is lost* (`realtime-provider.tsx:28-33`, `connection-status.tsx`): in `Doors` an attempt may come at any time, in `OrderRoom` the socket just connects
  again.
- *Fields of forms and their checks* (`order-form.ts`, the DTO): each is a function of one value, with unit tests; the models take values that passed them.
- *Filters, search and pages of lists*: they narrow a list that is modelled whole.
- *Users, contractors, health*: reads, and a profile that nothing depends on.
- *Temporary files, sizes and formats of uploads, wording of errors*: one request, nothing shared.
- *The provider of identities*: external; changes of an address and the form for a forgotten password, which the project has switched off, are left out.
- *Callers without an account*, whom the rate limit keys by address.
- *Rendering, formatting, the landing page, the components of the design*: there is no state to check in them.

## Plan

1. Proofs about `WorkDialogs` (`AddedFilesAreTold`, `DraftsAreKept`), and that `DemoOrders` writes states of the lifecycle.
2. A module of the socket's session: its retries, the token's expiry and the notice of a lost connection, composed with `OrderRoom`.
