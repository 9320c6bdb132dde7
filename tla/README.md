# DonkeyRide in TLA+

DonkeyRide matches people who need a task done (a ride, a delivery, a
locksmith, ...) with people who do it. It runs in two ways:

* **managed**: an operator's Node server (`server.js`) keeps the tasks, holds
  the stakes, prices and dispatches, and tells both apps what happens;
* **direct**: there is no operator; the rider's and the drivers' web apps
  coordinate over public Nostr relays (`web/src/services/direct-coordination.ts`).

This directory models the parts of both that keep state and are hard to test,
checks them with TLC and proves theorems about them with TLAPS. `PROJECT.json`
lists components, runs, theorems, findings and hazards, and maps each
definition to the lines it models. Paths below are relative to the repository.

## Inventory

| component | state | operations | talks to | what is hard | correct when |
|---|---|---|---|---|---|
| task engine, `src/task-manager.js` | tasks, requester and provider index, timers, pending saves | create, accept, the lifecycle moves, cancel, journey, location and rating updates, cleanup and eviction timers, hydrate | store, snapshot publisher | timers minutes or hours late, saves out of order, restart | the index names live records, an end is an end, one provider |
| domain profiles, `src/domain-profiles` | none | validate | the engine | nine tables that name states alike | an end of one domain is no live state of another |
| facade, `server.js` 780-1000 | ride id to domain | route an id to its manager | engines | re-index at boot | every task held is found |
| PostgreSQL store, `src/storage/task-store.js` | rows | save, load active | engine, stakes, outbox | rejected or reordered saves | what is loaded is indexed again |
| snapshot durability, `server.js` 1015-1240, 8550, `src/nostr/operator-announce.js` | sealed snapshots on relays, outbox | publish, buffer, retry, rehydrate | relays | outages, replaced events, seconds | the latest snapshot reaches a relay |
| WebSocket hub and pages' sockets, `server.js`, `web/src/services/websocket.ts` | sockets, subscriptions, the page's timers | connect, authenticate, subscribe, reconnect | apps | a signature or a close that comes late | a page that stays is subscribed again |
| task-flow stakes, `server.js`, `payment-providers/{factory,lnd}.js` | entries on the ride, the rail's records, hold invoices | lock, confirm, release, forfeit | Lightning node | handlers interleave at every await, partial failure | a lock was paid for, only a quitter's stake is claimed |
| session stakes, `server.js` 2788-3347, `src/commitment-stakes.js` | `activeRides` sessions, routing of stakes | stake, accept, confirm, complete, cancel | stake rails | sessions overwritten before checks, rails that fail over | as task-flow stakes; a stake is asked of its issuer |
| stake rails, `payment-providers/` | stakes by id, the node's invoices, rows | create, confirm, release, forfeit | node, database | a lost answer, a reboot, a retry | a record says what was done |
| fares and journey edits, `server.js` 4300-6080 | fare, quotes, pickup, drop-off | estimate, request, change, start, quote | price feed, router | re-pricing across awaits | the fare is what was agreed and the waiting, once; an agreed fare stands (it does not, see `repriced`) |
| prices and the confirm screen, `src/pricing/fiat-conversion.js`, `server.js`, `RequestPage.tsx` | price cache, quotes, the screen | fetch, estimate, request | feeds, router | estimates out of order, stale caches | the figure tapped is the figure recorded |
| settlement, `settlement/`, `server.js` 3655-4182 | ledger of invoices, the settlement | instruct, settle, confirm | Lightning address of the driver | invoices minted twice, fares that move | one invoice per rail, price and payee, verified covers the fare |
| paying panel, `PayDriver.tsx` | rail, invoice, what is known of a payment | choose, tap, retry | operator, wallet | a payment whose outcome is unknown | nothing paid is called failed, one ride is paid once |
| dispatch and sweeps, `server.js` 1300-2720, `web/src/services/dispatch.ts` | presence, schedule, head start, the app's list | offer, push, replay, widen, expire, accept | push, sockets | sweeps meet accepts, polls meet frames | offered as asked, answered, off the list when over |
| disputes and guardians, `server.js` 6817-7785 | disputes, claims, proposals, votes | file, assign, resolve, appeal; propose, vote, slash | relays, rails | duplicate executions across awaits | stakes follow rulings, slashings follow votes |
| admission, `middleware/`, `src/operator-policy.js` | replay cache, limiter windows, suspensions | authenticate, limit, suspend | all handlers | clocks that differ, window edges | a signature is good once, budgets are personal |
| reputation, `src/nostr/reputation.js`, `web/src/services/reputation.ts` | buffer, cached profiles | rate, publish, read | relays | lost publishes, a cache read while it changes | an accepted rating counts in the end |
| navigation, `navigation/` | provider, sessions, the route followed | initialize, start, update, reroute, stop | routing services | answers after the driver moved or stopped | instructions are ticked off only where reached |
| direct mode, `direct-coordination.ts`, `TaskContext.tsx`, the `ActiveTask` pages | screen, session, encrypted record, subscription, per party | request, accept, match, move, cancel, reload, restart | relays only | replay, reordering, stale records across awaits | one driver, no step back, ends reach the rider |
| web apps in managed mode, `TaskContext.tsx`, pages | the task shown, the ids stored, answers awaited | request, accept, move, cancel, poll, boot | operator | answers that overtake one another | what is said to be over is over, ends are told |
| stand-alone pages, `public/{rider,driver}-app.js` | the ride, timers, fetches in flight | submit, stake, go online, accept, arrive, finish | operator | late fetches, stale reads after awaits | a page stakes its own rides, a trip can end |
| a driver's shift and push, `dispatch.ts`, `push.ts`, the Android service and plugin, `src/push.js` | the shift, the device's endpoint, the operator's entry, watchers | go online and offline, register, rotate, revoke, push | distributor, push services | calls of one change land after the next, endpoints that change or go, restarts | alerts and watchers follow the shift |
| streaming payments, relay mesh, chat, trip sharing, private itinerary, demos, logging | - | - | - | - | not modelled, see the end |

The server is one event loop: a handler runs to its next `await` in one piece.
Everything that goes wrong in the managed mode goes wrong between awaits,
between timers, or between the server's memory and what lies outside (store,
relays, node, wallet, app). In direct mode each app is such a process, and
relays keep messages and replay them.

## Modules

| module | models | state |
|---|---|---|
| `DomainProfiles` | the nine state tables, `validateProfile`'s rules on states | none |
| `TaskManager` | one engine per domain, the facade's index, the store | `tasks`, `requesterTasks`, `providerTasks`, `cleanup`, `eviction`, `rideIndex`, `saving`, `rows` |
| `Snapshots` | one ride's snapshots, the outbox timer, relays, boot | `status`, `sent`, `inflight`, `outbox`, `relay`, ... |
| `TaskSocket` | a page's socket to the hub, the handshake, the hub's subscriptions | `page`, `line`, `enforced`, `keyed`, ... |
| `Escrow` | abstract: what a deposit may go through | `fund`, `quit` |
| `TaskStakes` | the stake handlers of a task with requests in flight; implements `Escrow` | `stakes`, `locked`, `released`, `forfeited`, `invoice`, `req`, `quit`; `calm`, `lapsed` |
| `SessionStakes` | the session handlers over the resilient manager and its rails; implements `Escrow` | `rails`, `current`, `routing`, `record`, `invoice`, `session`, `live`, `req`, `quit` |
| `StakeRails` | each rail under calls in any order, its node, its rows, reboots | `backend`, `node`, `book`, `mark`, `calls`, `dbRows`, `dbSaves` |
| `FareBoard` | abstract: a fare, who drives, and that both only move on | `fare`, `provider` |
| `Fares` | every handler that prices a ride; implements `FareBoard` | `ride`, `quotes`, `req`, `agreed`, `late` |
| `Prices` | from price feed and rate card over the estimate to the recorded ride | `feed`, `call`, `slip`, `screen`, `booked` |
| `Settlement` | instructions, ledger, proofs, confirmation; extends `FareBoard` | `handle`, `invoice`, `ledger`, `pending`, `record`, `req` |
| `PayPanel` | the panel the payer settles with, its wallet, its calls | `owed`, `settlement`, `panel`, `pending`, `asked`, `strayed` |
| `Dispatch` | one request, the drivers it is meant for, their apps | `job`, `due`, `presence`, `push`, `app`, `list`, `poll`, ... |
| `Disputes` | disputes of a ride with requests in flight | `stake`, `dispute`, `rulings`, `failed`, `handling` |
| `Guardians` | watchdog claims, slashing proposals, votes in flight | `verified`, `proposal`, `bond`, `slashings`, `cast`, `polling` |
| `Admission` | the signature gate with the limiters; suspensions | `ticks`, `signed`, `seen`, `window`, `admitted`, `refusals`, `suspended`, ... |
| `DirectRide` | the rider's and the drivers' apps over relays | `mail`, `announced`, `listed`, `rider`, `driver` |
| `ManagedApp` | a web app against an operator: one task, replaced by whatever answer comes | `ride`, `app`, `answers`, `frames`, `boots` |
| `DriverShift` | a driver's shift: what it starts and must end; alerts, from the phone's service to the operator's entry | `shift`, `alerts`, `errand`, `device`, `kept`, `sending`, `runs`, `crossed`, ... |
| `LegacyPages`, `LegacyRider`, `LegacyDriver` | the two stand-alone pages | `page`, `calls`, `frames`; `driver`, `fetches`, `news` |
| `Ratings` | a driver's ratings from the app to the relay and back into a profile | `toRelay`, `toRate`, `posts`, `relay`, `buffer`, `read`, `cache`, ... |
| `Navigation` | the provider chain, sessions, guidance and rerouting | `engine`, `trial`, `guide`, `followed`, `awaited` |
| `MC*` | instances for TLC; several put modules that share no state side by side | `part`: which of them a behaviour is of |
| `*_proofs` | theorems, see Proofs | |

**How state and actions correspond to the code.** A Map is a function with a
null value, a timer membership in a set or an action enabled by its condition.
An operation is an action with the guards and early returns of its handler. A
handler that awaits is several: between them its locals live in a record
(`req[q]`, `handling[q]`, `call[c]`, `fetches`) with what the code holds across
the await, and each answer of the node, the wallet, a feed or a relay is an
action, failing answers included. Something sent and not yet heard is in a set
or a sequence (`mail`, `answers`, `frames`, `news`), from which it may come late,
again, or in another order, where the transport allows that. `Snapshots`: a
relay holds one event per ride and replaces it by NIP-01's rule (later second,
then lower id). `DirectRide`: an awaited publish is two actions, the message
leaving with the task made at the start and its end, which stores that task;
`mail` never shrinks, so every message can be heard late, again, in any order.

**Abstract specifications.** `Escrow` says that a deposit is returned or claimed
once, and claimed only from a side that quit. `TaskStakes` and `SessionStakes`
both implement it (`KeepsEscrow`, with `fund <- invoice`). `FareBoard` says that
a fare is posted before there is a driver and that a driver stays. `Fares`
implements it (`KeepsBoard`), and `Settlement` is built on it: what is checked
and proved of settlement holds whatever the fare does there.

## Runs

A run is a question about an instance. Modules that share no state are put side
by side in one run: `part`, chosen at the start, says which of them a behaviour
is of, so one run checks each of them in full and no product is built.

| run | instance | properties |
|---|---|---|
| index | the ridesharing engine, 2 tasks, 2 parties, no store; 2 relays that come and go and refuse replaced events, 3 snapshots, 1 restart; 2 sockets of 2 pages, 1 lost socket | `IndexSound`, `EndedStaysEnded`; `LatestReachesRelay`; `FollowsInTheEnd` |
| match | rider and 2 drivers, all faults; 2 people behind one address, 2 events, budgets of 1, 9 ticks, 2 arrivals; suspensions | `OneDriver`, `ShownIsSent`; `SingleUse`, `OthersDoNotSpend` |
| journey | rider and 1 driver, 3 milestones or cancels, reloads and restarts, fair delivery | `EndReachesRider`, `NeverOutdated` |
| sessions | 4 engines behind the facade with a store that fails, 1 task; a session of a rider and 2 drivers, 2 requests, 4 lists of rails, a node that errs; 5 rails, 2 deposits, a reboot; 2 Lightning rails and cash, 2 payments; a road of 4 places, 2 guides, 2 reroutes; 2 requests on 2 disputes; 2 ballots of 3 guardians on 1 proposal, thresholds 1 and 2 | `RideIndexComplete`; `CompletedPaysBack`, `RoutedToIssuer`, `KeepsEscrow`; `SaysWhatWasDone`; `FailedMeansUnpaid`, `PaysOnce`; `GuidanceIsWhole`; `StakesFollowRulings`; `VotesDecide` |
| journeys | 2 requests, 2 pickups, 2 drop-offs, surge, a drifting price, 1 quote; 2 calls, 1 stop, 2 classes, a feed that answers in full, in part or not | `FareAddsUp`, `KeepsBoard`; `RecordedAsShown` |
| paying | 2 requests, 2 fares, 2 Lightning rails or 2 payees, 2 invoices, a ledger of 2 | `OneInvoicePerPrice`, `VerifiedCoversFare`, `ProofIsRecognised` |
| offers | 2 drivers, one with the app, 4 pairs of profiles, 5 kinds of request | `OfferedAsAsked`, `AnsweredInTheEnd`, `OverLeavesList` |
| stakes | 2 requests and a node that may fail and gives back what it held too long, 2 invoices of one side and 1 of the other; each stand-alone page with 2 rides and 2 fetches; ratings of 2 journeys, a restart | `LockedWasHeld`, `CalmIsRecorded`, `KeepsEscrow`; `StakesOwnRide`, `CheckedUpon`, `DropOffEnds`; `CountsInTheEnd` |
| apps | a rider's or a driver's app, 2 rides or a restart, 1 fetch and 1 operation on their way; a driver's shifts in a browser or the wrap, either mode, 2 calls under way, 3 endpoints, the watcher of the place | `OnlyOwnRides`, `SaidOverIsOver`, `EndIsTold`; `ShiftIsKept` |
| relaycopy | 2 rides of one rider with one driver | `RelayCopyStays`, violated |
| surge | as journeys | `NeverSurgedUnseen`, violated |
| repriced | as journeys | `CommittedFareStands`, violated |

What the properties say is stated above each in its module. All hold except the
three marked, which are disagreements between the code and what the repository
says of itself:

* **relaycopy**: ratings are kind 30520, addressable, and carry no `d` tag, so a
  relay keeps one rating per rater: the rating of the next ride replaces that of
  the last, though `web/src/services/api.ts:746` calls the relay copy "the real one".
* **surge**: the app sends the surge only when it is above 1, so a rider quoted
  without surge is charged the live surge if demand rises before the tap
  (`server.js:4966`), though `server.js:4963` says "so the rider can only ever be
  charged what they saw".
* **repriced**: `/pickup` decides whether a provider has committed before it awaits
  the route and the estimate, and writes the fare after (`server.js:5633`, 5687), so
  an accept in between is re-priced, and waiting charged in between is dropped,
  though `server.js:5584` says "the AGREED FARE IS NEVER CHANGED" and 5692 "Never
  re-price a committed job". `FareAddsUp` therefore speaks of rides on which no
  pickup was priced late (`late`).

### Bounds and why they are enough

*Two of everything that can interleave*: two requests in flight, two drivers,
two disputes, two sockets, two rides of a page. What goes wrong between handlers
goes wrong between two; the theorems below cover any number. *Two tasks and two
parties* let a party ask again while an older task of theirs waits for its
timers, and be a requester here and a provider there. *One id in one domain at a
time* (`OneDomainPerId`) leaves out ids a client would have to choose itself;
with it one task and one party are enough for routing, which looks at one id,
and four domains have every kind of table. *Three snapshots and an outbox of
three*: one replaced, one current, one behind; the code's batch of 50 covers
its outbox there. *`MaxClock`* counts milestones and cancels: three are a whole
journey. *9 ticks* let an event be signed, go stale and be forgotten. *Four
lists of rails*: one that only records, a node that others fall back on, a
node whose fallback is of another trust model, a third party's. *`RailBound`*:
lnd looks at one stake id at a time; *`GuidanceBound`*: with a second guide the
driver moves on by one place; *`PanelBound`*: once the payer chose again over a
payment, no third choice and no higher fare; *`RiderBound`*, *`DriverBound`* and `MCManagedApp`'s
`MCNext` say in their comments which of two dimensions is small when the other
is large, *`ShiftBound`* that a behaviour ends where nothing is promised any more. *Two calls
under way and three endpoints*: one of each change and one of the next, an endpoint,
the one that replaces it and one asked for after. Of a shift's parts the run has the watcher
of the place, which may also not start; the federation's subscription is the simpler
case, and the theorem is of both. *`RelayBound`*, *`SocketBound`* and *`RatingsBound`* use up things that
are alike in one order, where a liveness property forbids symmetry;
*`TickerBound`* leaves out calls for prices that only read the cache. *`SeenBound`*: a behaviour
of a payment sees two rails, or two payees, the other being one; *`RecordBound`*:
nothing reads the record of a settlement, so each behaviour makes one, and confirms
it. A ledger of 2 for the code's 5 lets an invoice fall off it. *`HearingBound`*: an
arbiter other than the operator is assigned where there is one dispute only; two
disputes at once are heard by the operator.

Requests, drivers, invoices, handles, rails and guardians are symmetric where the cfg
says so; `MCFacadeAndSessions` gives some of its parts the same elements, so that one
small group of permutations is a symmetry of each; no run with a liveness property uses symmetry. Deadlock is checked
where a model never stops; elsewhere the ride is over, bounded messages are used
up, or a page that was left opens no socket, and the cfg switches it off.

### Fairness

Users, restarts and faults are never fair.

* `Snapshots`: a publish ends (each relay has a timeout), and an entry the timer
  keeps reaching is in the end retried (`WF` of `PublishEnds`, `RetryOf(n)`).
* `TaskSocket`: the reconnect and the authentication timers run, and what is
  under way on a socket arrives or the socket closes.
* `Dispatch`: `WF` of the clock, of the sweep (`setInterval`) and of the app's
  poll; `SF` of a poll that ends, since not every one is cut off by a lost socket.
* `DirectRide`: a relay delivers what it holds to an open subscription, and the
  browser finishes the saves, effects and awaited publishes it has begun.
* `ManagedApp`: the page polls, answers arrive or fail, effects run (`WF`); `SF`
  of a poll that succeeds.
* `LegacyRider`, `LegacyDriver`: timers run, a fetch ends.
* `Ratings`: reads end, the cached profile expires.

Where one MC module holds several parts, each part's fairness is asked of that
part only: an action of a part that is not running would be enabled and never
taken, and every behaviour unfair.

### What the code does and no run asks

The models contain further behaviour of the code that a reviewer may want to
know of, and reading it for them turned up more. No property forbids it,
because it is what the code does.

* **Engine and snapshots.** In the delivery profile `delivery_failed` is terminal
  and has a way out, to `returned_to_sender`; hence `EndedStaysEnded` speaks of
  ends, not of one end. Two saves of a task may land in the other order and the
  store keep the older, after the shutdown's flush too (`task-manager.js:106`,
  against the promise at 115). A retry looks at the first 50 entries of the
  outbox; entries that relays refuse stay, so `LatestReachesRelay` is for a batch
  that covers the outbox. Two snapshots of one second: a relay keeps the lower
  id, and a restart may restore the older (`operator-announce.js:87`). Restoring
  takes what the relays have: one that missed the final snapshot can bring a ride
  back (`server.js:1201`). Whether a state is terminal is asked of every manager
  (`server.js:969`).
* **Sockets.** `connect()` over a live socket: the old one's late `onclose`
  schedules a reconnect that closes the live one, every three seconds. A
  signature pending from an older socket can subscribe the new one to the old
  task; `auth_failed` leaves the queued subscription unsent.
* **Task stakes.** Two lock requests of one side can both pass the check, and the
  second record replaces the first: what is paid on the first goes back by the node's
  expiry alone, as does a stake whose confirmation is answered after the ride ended
  (`server.js:3584`). The node gives back what it has held too long and nobody tells
  the ride, so `/cancel` records forfeited what is not (`lapsed`). `/cancel` records a stake as released or
  forfeited whatever the rail answered; `/complete` looks. `/transition`
  completes a ride without releasing stakes (`server.js:6282`).
* **Session stakes and rails.** A penalty can fall on the one who did not cancel.
  core-lightning, btcpay and alby add the role to the id once more and find
  nothing. A session is given its driver before the accept is known to succeed
  (`server.js:5401`). core-lightning's release settles only "locked" stakes, of
  which there never is one, moves nothing and reports success, and its forfeit
  gives the penalised stake back; alby's do nothing and report success; a retried
  btcpay release can refund the first stake twice; a late confirmation writes
  "locked" over "released"; lnd's saves are not awaited, so a crash loses the
  preimage; a second forfeit writes a penalty of 0 over one claimed; no rail
  asks whether the side already has a stake.
* **Fares and prices.** A late `/pickup` (see `repriced`) prices without class and
  surge; `/dropoff` and `/quote/accept` re-price a ride that ended
  meanwhile; a booking's quote redeemed at `/dropoff` ignores class and surge;
  the amount in the completion event may be stale (7890). `fetchBitcoinPrices`
  decides its fallback before its second await, so a fetch that had nothing may
  write the last resort over real prices (`fiat-conversion.js:82`); the classes of
  a quote may mix two fetches; `redeemQuote` compares only the number of stops;
  an older estimate answered late is shown over newer stops
  (`RequestPage.tsx:175`); a request may be sent at a price never shown when the
  estimate failed; a quote is not consumed.
* **Settlement and the panel.** What is out is looked up by rail (`server.js:3731`,
  3969): asked for on a second Lightning rail, a second invoice for the same fare and
  payee is payable, and a proof filed under another rail than its invoice's is called
  bad (4046). The properties are by rail, as the code is. A late or second `/settle` overwrites
  "confirmed" (3988). Five instructions of a rail without an invoice push
  invoices off the ledger. Re-selecting after an unknown outcome re-arms the same
  invoice, and then another rail, or a risen fare, offers a different one though
  the first may be paid (`PayDriver.tsx:157`); Back during a payment lets a second
  one start; a reload forgets the unknown outcome; once answered "declared", a
  later "short" is not shown. These are what `PaysOnce` excludes by `strayed`.
* **Dispatch.** A `driver_location` frame makes the server record access features
  as none (1453-1468); push subscriptions store neither access features nor
  classes; an open socket with lapsed presence gets neither frame nor push; the
  pending replay and the open list use the default radius; the women-only
  preference and admission are not enforced on the open list; needs and
  favourites are lost at a restart.
* **Admission.** `retryAfter` at a window's boundary is off by one; up to twice
  the budget passes across a window's edge; `POST /api/rides/request`, though
  signed, is limited by address (`server.js:168` says mutating traffic is limited
  per user); a 429 or a body mismatch uses the signed event up; suspensions are
  enforced nowhere, and two in flight may land reversed.
* **Disputes.** The check for a duplicate precedes an await; a late assignment
  re-opens a resolved dispute; two resolves both run their effects; "escalated"
  and "appealed" lead nowhere; an escalation publishes the accused's stake as
  forfeited though it is held; a resolution does not update `ride.stakes`, so a
  later `/complete` answers 502; the parties cannot read their dispute
  (7788-7803 look at a field it does not have). Two votes during a slash
  publish it twice; a proposal names its own threshold.
* **Direct mode.** The driver's transition, returning, writes back the task it was
  made from, over a cancel heard meanwhile (`MoveEnds`). An accept of the matched
  driver, heard again before the rendezvous closes, is answered "rejected". After
  a reload the driver's own last milestone counts as the last message heard, so
  an earlier cancel of the rider is not let through. A rider's cancel racing a
  claimed accept leaves the matched driver untold (`direct-coordination.ts:544`).
  A restart drops the stored id of a live ride (`TaskContext.tsx:324`).
* **Managed apps.** The rider's own cancel frame shows "your driver cancelled"
  and the screen stays if the answer is lost; a late answer about an older ride
  replaces a newer ride's task; a poll older than an action's answer moves the
  screen back; a ride whose answer was lost is not shown until a restart; a boot
  with a stale session task never asks for other live ones; leaving the request
  page while a request is in flight allows a second.
* **Stand-alone pages.** Rider: the retry of a failed submit meets 409; a stake
  answer arriving during a cancel creates an unwatched request; the socket is
  never reopened; a failed panic send is not retried. Driver: after going offline
  with a ride and online again all requests are ignored; a stale read after the
  stake's await can accept another ride unstaked; a start answered after a cancel
  resurrects the ride; any HTTP answer to `/arrive` counts as arrival. Both work
  only where authentication is off.
* **Ratings.** A second rating of one side is published and counted though the
  task keeps the first; one path records under the role of the tag, the other as
  "rider" or "driver"; a profile may be stale for 30 s.
* **Navigation.** At arrival `checkOffRoute` throws, so position updates reject.
  openrouteservice's steps name their place by an index, so nothing is announced,
  advanced or rerouted; OSRM's `step.distance` is the step's own length, so a
  deviation is measured against the wrong thing. A reroute answered after the
  driver moved starts behind the driver; one answered after the stop still
  assigns; a second start leaks the first session's timer; a late arrival time may
  overwrite the new route's. Nothing loads the library.
* **Shifts and push.** `ShiftIsKept` speaks of histories in which no call crosses
  a change of the shift, the endpoint or the role (`crossed`). Where one does: an
  enable still under way when the driver goes offline, or a socket's `onopen` that
  waits for the operator's info and does not look at the shift again, subscribes
  after the unsubscribe (`push.ts:284` says "the operator stops pushing to this
  device"); an unsubscribe that lands late removes the entry of the next shift; an
  endpoint that changes between being read and being listened to is missed, two
  rotations may land reversed; an answer 404 or 410 for an old endpoint removes the
  new one's entry (`push.js:132`); choosing direct mode while a shift waits to be
  resumed (`OperatorPicker.tsx:22` asks only whether it is on) leaves the entry
  at the operator, though `push.ts:291` says none learned one; off and on again
  while the watcher starts leaves two running with one handle
  (`dispatch.ts:342`); a rider's subscription with the same key replaces the
  driver's. An unsubscribe the operator did not hear is not repeated, and in a
  browser the endpoint stays good (`push.ts:299` says such an operator cannot push
  anyway). A registration that is revoked clears the phone's endpoint and says
  nothing to the driver (`push.ts:226`); a browser that changes its endpoint is not
  listened to at all. A notification's address is stored when it is shown, not
  when it is tapped (`PushStore.java:20`).

## Proofs

Each component's theorems are of its own specification, for all values of its
constants that its named `ASSUME`s admit: any number of tasks, drivers, requests
in flight, messages, invoices, and the faults of the model. An invariant a run
checks is seldom inductive; each module's invariant says what else holds.

| module | theorem | of | inductive invariant, and what it adds |
|---|---|---|---|
| `TaskManager_proofs` | `TypeCorrect`, `IndexesSound`, `TimersWaitOnEnded`, `FacadeComplete`, `EndIsKept`, `ProviderIsKept` | `TypeOK`, `IndexSound`, `RideIndexComplete`, `EndedStaysEnded`, `ProviderKept` | `IInv`, below |
| | `SnapshotsAreKept`, `QuietTaskIsSaved`, `RoomForAll` | `NothingDropped`, `QuietIsSaved` of `Snapshots` | `SnapshotInv`: what is in flight or in the outbox is of this process and is there once (`InHand`, `OneEach`); a relay as late as the last snapshot, once there is one, stays so (`LatestIsOut`) |
| `TaskStakes_proofs` | `HandlersInv`, `LockedIsPaid`, `ImplementsEscrow` | `LockedWasHeld`, `KeepsEscrow` | `StakesInv`: `InFlight` is what a handler may rely on across its awaits whatever the others do; an invoice that is fresh for one request is in nobody else's hands |
| | `CalmRecords` | `CalmIsRecorded` | `CalmInv`: what a loop has still before it is locked, not dealt with and its side's only entry (`OnItsWay`), and such a stake is held or was given back by the node (`AsRecorded`) |
| | `StakesOwn` | `StakesOwnRide` | `DriverInv`: the page's ride, and the ride of every answer under way that could become it, is `Mine` |
| | `AlwaysWatched` | `Watched` of `LegacyRider` | `RiderInv`: the page is in its watching mode during a trip only, so a late answer schedules no question after one (`Watches`) |
| `Sessions_proofs` | `RoutesAreKept`, `SessionKeepsEscrow` | `RoutedToIssuer`, `KeepsEscrow` of sessions | `SessInv`: what a handler in flight may rely on (`InFlight`), no two ask for one stake (`FreshStakes`), and on a rail that only records, where no node keeps the order, handlers do not overlap (`OneAtATime`) |
| | `FailedIsUnpaid`, `PaidOnce` | `FailedMeansUnpaid`, `PaysOnce` | `PanelInv`: a refused invoice is unpaid for good (`RefusedIsUnpaid`), at most one can still be paid (`OneInvoice`) |
| | `RailsTellTheTruth` | `SaysWhatWasDone` | `RailInv`: what a call in flight will write of a stake is true of the node whatever the node does meanwhile, for what it did of an invoice lasts (`NodeLasts`); so are the rows on their way to the store |
| | `CompletedGivesBoth`, `CompletedIsPaidBack` | `CompletedPaysBack` | `PaysBackInv`: money given back stays back, a stake on record was asked for (`AskedFor`), and the second release is asked for when the first is known to have been made (`HalfDone`) |
| | `GuidanceStaysWhole` | `GuidanceIsWhole` | `NavInv`: an instruction that was passed is one the driver has been at, and a session has at most one recalculation under way |
| `Fares_proofs` | `FareIsTheSum`, `ImplementsBoard` | `FareAddsUp`, `KeepsBoard` | `FaresInv`: a request under way has the ride to itself, a ride is started once, no waiting is charged before (`NotDriven`, `InFlight`), and none of a ride that has no driver (`Unserved`) |
| | `RidesAreAsShown` | `RecordedAsShown` | `PricesInv`: a quote that stands says what the estimate on the screen says, and a request under way for the stops on the screen carries it (`Says`, `Carries`) |
| `Settlement_proofs` | `SettlementTypes`, `OneToPay`, `VerifiedIsCovered`, `ProofsAreRecognised` | `TypeOK`, `OneInvoicePerPrice`, `VerifiedCoversFare`, `ProofIsRecognised` | `SettlementInv`: what was minted is typed, and while an invoice is being minted none is out on that rail for that amount and payee (`NothingOut`) |
| `RulingsAndOffers_proofs` | `StakesFollow`, `VotesDecideIt` | `StakesFollowRulings`, `VotesDecide` | `DisputesInv`, `GuardiansInv`: what a request has done at each stage (`Handled`), and that no other request undoes it (`Monotone`); a vote under way counts once |
| | `Offers` | `OfferedAsAsked` | `OffersInv`: who was told of a job declared what it needs and, in the head start, is a favourite (`Fit`): what the server keeps of a driver is part of what the driver declared, and what it keeps of a request is what was asked or nothing (`Declared`, `Remembers`) |
| `DirectAndDoor_proofs` | `UsedOnce`, `OthersDoNotCount` | `SingleUse`, `OthersDoNotSpend` | `AdmissionInv`: an event is remembered for as long as it can be fresh, and once forgotten it is too old (`Spent`); a limiter's entry of a person counted only that person's requests (`OwnCounted`) |
| | `OneHoldsIt`, `MilestonesAreSent` | `OneDriver`, `ShownIsSent` | `DirectInv`: the relays hold matches of one driver only (`OneMatch`); an app that could still claim shows a task without a driver, and then none was sent (`Claims`, `NotYet`) |
| | `NeverStepsBack` | `NeverOutdated` | `InOrder`: a subscription's `lastAt` is no older than what the rider sees |
| `ManagedApp_proofs` | `OwnRidesOnly`, `OverIsOver` | `OnlyOwnRides`, `SaidOverIsOver` | `AppInv`: what the app has been or will be told of a ride is old, but what it says of an end or of a driver is true for good (`Truthful`, `Mine`) |
| | `ShiftKept` | `ShiftIsKept` | `ShiftInv`: as long as nothing crossed a change, every call under way is of the shift and the endpoint there are now, what an answer will confirm is what the operator keeps, what it must forget is being taken back (`CallsInv`, `OnInv`, `OffInv`), and no start is under way beside a handle (`PartsInv`) |

**The engine.** `IndexSound` is not inductive. An eviction deletes a record without
touching the index; that is right because whatever pointed at the record was
dropped earlier, by the cancellation or by the cleanup, and nothing has pointed
at it since. `IInv` therefore adds that a task waiting for its eviction alone is
in no index (`EvictedUnindexed`), that the cleanup fires first (`CleanupFirst`,
which takes from the code that the retention timer, hours, outlasts the
five-minute cleanup), that timers wait on ended tasks, that a record with a
provider has left the initial state (`TakenIsNotInitial`, for rows and saves too,
since a restart brings those back), and that a manager's records are of its
domain. The action properties follow from `IInv` and `RecordStep`, which says
what a step does to one record.

**A completed session.** `CompletedPaysBack` says of the rider that every invoice it
was given is back. That is so when the rider is asked for one stake, which is the
hypothesis of `CompletedIsPaidBack`. Two overlapping stake requests can be given an
invoice each, and the session keeps the second; what holds then is
`CompletedReturns`: each side was given a stake back. `CompletedGivesBoth` proves that
without the hypothesis.

**Snapshots.** A publish that no relay took goes to the outbox, and a full outbox drops
its oldest entry; so `NothingDropped` and `QuietIsSaved` are proved of the behaviours
in which the outbox is not full while a publish is under way (`[]HasRoom`).
`RoomForAll` shows that this is every behaviour that makes no more snapshots than the
outbox holds, 500 in the code. Relays may refuse, miss and forget to answer as they
like. Both invariants were also checked by TLC with the bounds of the run `index`,
which asks the liveness property that rests on them (`LatestReachesRelay`).
So was `Watched` with `RiderInv`, for two rides, two fetches and a reload.
`QuietIsSaved` does not say that a process that restarts finds the snapshot: see above
for relays that missed it.

**Refinements.** `ImplementsEscrow`, `SessionKeepsEscrow` and `ImplementsBoard` map
states as the runs do (`INSTANCE ... WITH`) and show that initial states map to
initial states and every step, under the invariant, to a step or a stutter. A
step of the stakes that maps to `Claim` needs that its owner called `/cancel`,
which is what the handler's `todo` is known to say.

**Assumptions.** Null values are distinct from what they stand beside; a rider is
no driver; there are two sides and an invoice has an owner; profiles satisfy
`validateProfile` and name their states, no table leads back to the initial state
and none from an end to a state that is not one (the nine built-in profiles
satisfy this, which TLC evaluates in the runs); fares and rates are positive;
the ledger holds an entry at least; the replay cache keeps an event for at least
(2 * `Fresh` + 1) seconds, as `nip98-auth.js` does; a profile's `matched` and `enRoute` are among its states; places
lie on the road, and a road takes time. TLC evaluates each `ASSUME` on
every run that extends its module.

**Layout.** Each module states its invariant as a conjunction of named parts, then
lemmas about operators, then one lemma per action, then the step and the
theorems. A handler's step is proved for one request; that the others' locals stay
good is one lemma for all actions (`OneRequest`, `StaysHandled`, `StillSound`).

### Only model-checked

* Liveness: `LatestReachesRelay`, `FollowsInTheEnd`, `EndReachesRider`,
  `AnsweredInTheEnd`, `OverLeavesList`, `EndIsTold`, `CheckedUpon`, `DropOffEnds`,
  `CountsInTheEnd`. Temporal proofs under fairness need `ENABLED`, which the
  prover does not have.
* Recursive definitions and folds: sums, sorted sequences and the state tables'
  unions are evaluated by TLC and cited in proofs only through facts that hold of
  any value.

## Plan

1. Proofs: what the store may be behind on; that the panel's ledger and the server's
   agree.
2. Chat and trip sharing, as far as they keep state.

## Not modelled

Locations, wording, layout and HTTP are left out, except where a property
depends on them. Streaming payments, the relay mesh, commitment-stake demos,
`escrow-demo.js` and the `demo-steps` are prototypes that nothing loads; chat,
trip sharing and private itineraries are messages beside a ride's lifecycle.
Logging changes no state. What a route costs in fuel and time is left out: the
optimizer may recommend any route that is offered. Of push, who is pushed to is in `Dispatch`, and what a notification shows is left
out. In direct mode, an
app that dies in the milliseconds of a local save, and clocks that disagree, are
left out; a relay's replay within one subscription is not told apart from a
second message. Tips, trust proofs, deletion and export of ratings, evidence of
disputes and the retention settings of profiles are left out. The rest is listed,
with the reason, in `PROJECT.json`.
