# Zemen PayLink in TLA+

This directory specifies Zemen PayLink: the money path of the Go server (pay links,
checkout, reconciliation with the card gateway, captures, refunds and voids), the
delivery of notifications to integrators, and the TypeScript portal and payer pages
together with the part of the server each of them talks to (sealed channel, sessions,
lockout, gateway connections, integrations and their review). It holds TLA+ modules
written from the sources under `src/`, the configurations that model-check them with
TLC, and theorems about them that TLAPS checks for every value of the constants.
`PROJECT.json` indexes the runs, the mutants, the hazards, the theorems and the source
lines each definition stands for.

To repeat the work, inside this directory: `tlc -workers 2 -config bill.cfg MCPayLink`
for a run (section 3 names module and configuration of each), and `tlapm` on the seven
modules whose names end in `_proofs` for the proofs.

## 1. The system

PayLink is one Go server over MySQL and one Next.js application: a portal for
operators, merchants, integrators and the bank, and pages for payers. Card data never
touches it: payers pay on a page that Mastercard's gateway (MPGS) hosts, and the server
learns what happened by asking the gateway.

Paths are under `src/`; `api/` stands for `api/internal/api/`, `store/`, `auth/` and so
on for their directories in `api/internal/`, and `web/` for `web/src/`.

| Component | Sources | State | Operations | What makes it correct | Modelled by |
|---|---|---|---|---|---|
| Pay links | `domain/domain.go`, `api/link_handlers.go`, `store/links.go` | `pay_links`: terms, status, three counters | create, pause, cancel, reactivate, expire, recompute | counters equal their rows; a stored status is justified by them; a full link takes no payer | `Domain`, `PayLink` |
| Checkout | `api/public_handlers.go` | a `payments` row and a gateway session per attempt | start, refresh on return | an attempt is on record before it can be paid; a closed one takes no money | `PayLink` |
| Reconciliation | `api/reconcile.go`, `store/payments.go` | rows still `initiated`, `last_checked_at` | sweep, view, give up | every settled attempt is found, nobody's is crowded out | `PayLink`, `Sweep` |
| Money operations | `api/payment_handlers.go`, `store/payments.go` | `payments`, `payment_operations` | capture, refund, void | no record runs ahead of the gateway; the audit credits what happened | `PayLink` |
| Gateway client | `mpgs/mpgs.go` | none | session, retrieve, capture, refund, void | takes an answer for what it is | `Gateway`, `PayLink` (partly; the gateway is external) |
| Webhook queue | `api/webhooks.go`, `store/webhooks.go` | `webhook_deliveries` | queue, deliver, retry, give up | true, bounded, settled in the end | `Webhooks`, `Outbox`, `PayLink` |
| Sign-in and sessions | `api/auth_handlers.go`, `auth/auth.go`, `web/store/SessionProvider.tsx`, `web/.../Login.tsx` | session set; the browser's token and session | sign in, take over, sign out, be refused | one session of an account; the browser's token is the newest; an ended session closes the portal | `Session` |
| Session clocks | the same | idle and absolute limits on both sides | activity, ping, warn, end | the portal ends first, after a warning; the deserted ends | `SessionClock` |
| Lockout and recovery | `api/guard.go`, `api/recovery_handlers.go` | failure counters of two doors, `users.password_hash` | fail, succeed, lock, recover | a closed door is passed by few, and opens by itself; recovery ends every session | `Lockout` |
| Secure channel | `web/lib/secure.ts`, `web/lib/api.ts`, `secure/channel.go`, `api/secure_middleware.go` | channels on both sides | handshake, seal, repeat | served once at most; told what happened | `Channel` |
| Portal routing, link pages | `web/store/AppProvider.tsx`, `web/components/Shell.tsx`, `web/app/page.tsx` | the screen, the account, the link shown | navigate, open, create, pause, refresh | screens and menus of the right account; actions on the link that is shown | `Portal` |
| Link form | `web/.../CreateLink.tsx`, `web/store/AppProvider.tsx` | the form | fill in, switch type, submit | what is sent was typed for it | `LinkForm` |
| Pay page | `web/app/l/[slug]/page.tsx` | the link as read, the checkout | amount, pay, hand over | handed over with the last checkout, within the bill | `PayPage` |
| Return and receipt pages | `web/app/l/[slug]/return/page.tsx`, `web/app/r/[orderId]/page.tsx`, `api/receipt_handlers.go` | the record as last read | poll, say, redirect, print | says nothing the card contradicts; stops asking | `PayerReturn` |
| Payment panel | `web/components/PaymentActions.tsx`, `web/.../LinkDetail.tsx` | one panel over a payment | open, capture, refund, void, close | one intention moves money once; reports its own operation | `PaymentPanel` |
| Gateway credentials | `web/.../ConnectGateway.tsx`, `api/gateway_handlers.go`, `store/credentials.go` | test and live connection, which is active; the form | load, save, switch | no gateway under the other's name | `GatewayScreen` |
| Integrations screen | `web/.../Integrations.tsx`, `api/integration_portal_handlers.go` | integrations, secrets, requests | create, rotate, endpoints, request | a secret that works has been seen | `IntegrationScreen` |
| Go-live review | `web/.../AdminLiveRequests.tsx`, `store/integrations.go` | requests and decisions | list, approve, reject | decided once, told truly | `LiveReview` |
| Account screens | `web/.../Register.tsx`, `MerchantRegister.tsx` | | register | | `Portal` (as far as screens change) |

Not modelled (the reasons are in section 6): API keys, the integrators' API, merchants
and team, money parsing, receipts' layout, analytics, mail, start-up and
configuration, seed and command line tools, dashboards, developer documentation,
prototype screens, deployment.

### How the components interact

On the server everything meets in the database. A **checkout** handler checks the link,
opens a session at the gateway, inserts the attempt and counts the use. From then on the
attempt's truth is the **gateway's order**, which payers, issuers and the gateway's own
Merchant Administration move without the server hearing of it. Three kinds of process
bring the row up to date: the payer's **return page**, a **view** of the payment or its
link in the portal, and the **background sweep**. All run `applyOrderOutcome`: mirror the
order on the row in memory, `UpdatePaymentOutcome`, `RecomputeLinkTotals`, `Notify`.
**perform** (capture, refund, void) refreshes in the same way, decides on the row, counts
operations to get a transaction id, sends the operation, writes the audit row, and
applies the outcome. The **dispatcher** takes what `Notify` queued to integrators.

In the browser everything meets in a few React providers. Each call of `lib/api.ts` waits
for the one **channel** of the page, is sealed, reads the stored **token** and is sent;
its answer sets the state of whichever screen is up by then. `SessionProvider` decides
whether there is a session and why it ended, `AppProvider` which screen is shown and for
whom, and every screen keeps copies of what the server holds. Sessions, locks and
channels are kept in the server's memory, and a restart forgets them.

### What is hard

On the server there is no lock, no version column and no transaction around any of this:
each handler is a sequence of separate SQL statements and gateway calls, and any number
run at once. Outcomes may be written out of order; two operations may count the same
transaction id; a balance may move between the check and the operation; any statement may
fail (most failures are logged and forgotten), and the process may stop between any two.

In the browser every `await` is such a point: answers come late, out of order, after the
screen, the account or the session they were asked for is gone, or not at all while the
server has done what was asked. Buttons are pressed again, by mouse and by key.

`PROJECT.json` lists each hazard at its line, with the properties that address it or the
reason none does.

## 2. The modules

### The server

| Module | What it models |
|---|---|
| `Gateway` | The gateway's order: its statuses and amounts, which transactions it accepts and what they do. External, taken from how `mpgs.go` and the handlers use it. |
| `Domain` | The values and one-row decisions: `EffectiveStatus`, `AmountAllowed`, `CanCapture`, `Mirror` (what `applyOrderOutcome` does to a row), `EventFor`, the totals and the four updates of `RecomputeLinkTotals`. |
| `PayLink` | The processes and tables of the money path, and its properties. |
| `Sweep` | Which attempts a sweep or a view asks about: the batch, its order, the throttle, the horizon, and operators who disconnect. |
| `Webhooks`, `Outbox` | The dispatcher and its queue, and what it promises an integrator; the first is shown to implement the second. |
| `Lockout` | Both doors of an account with their counters of wrong answers, and the sessions that sign-in and recovery begin and end. |
| `PayLinkInv` | The inductive invariant of the money path's proofs, as formulas TLC also checks. |

`PayLink` decides what is queued and stops at `webhook_deliveries`; `Webhooks` starts from
a row of that table, and queues any delivery for an integration with a URL. `Sweep`
decides which attempt is asked about and stops there; what an answer does is in `PayLink`,
whose sweep may take any attempt.

#### Correspondence: the money path

A **process** is an HTTP handler or a worker of the sweep (four of them, over a shared
channel, in the code). `job[w]` is its locals: what it is doing, the payment it loaded
(`row`, a copy), the age decision (`old`), the amount, the transaction id, and whether its
own operation succeeded (`ok`). Its `pc` names the next call. One step is one call: a SQL
statement or transaction, or a gateway request together with the code up to the next
call.

| Code | Steps |
|---|---|
| `handleCreateLink`, `handleSetLinkStatus` | `CreateLink`, `SetLinkStatus` |
| `handlePublicCheckout` | `StartCheckout` (the checks), `OpenSession`, `CreatePayment`, `CountUse` |
| `handlePublicPaymentStatus` | `StartStatus`, then a refresh |
| `handleGetPayment`; `reconcileLink`, `reconcileScope` | `StartView`; `StartLinkView`; then a refresh as a worker does it |
| `StartReconciler`, `reconcilePending` | `StartSweep`: a worker takes an attempt |
| `reconcileOne` | `Begin` (the clock), `RetrieveOk`, `RetrieveMissing`, `RetrieveFails`, `Abandon` |
| `applyOrderOutcome` | `Save`, `Totals`, `Notify`, then `Return` to its caller |
| `perform` | `StartPerform`, a refresh, `Decide`, `Alloc`, `SendOk` or `SendFails`, `Record`, then `Save`, `Totals`, `Notify` |
| the process is killed | `Crash` |

| Table or state | Variables |
|---|---|
| `pay_links` | `terms`, `linkStatus`, `usedCount`, `paidCount`, `paidMinor`; `lapsed` is `expires_at` against the clock |
| `payments` | `payment` (`completed` and `receipt` stand for a non-null time and a non-empty reference) |
| `payment_operations`, with its unique key | `ops` |
| `webhook_deliveries`, with its unique key | `hooks`, pairs of payment and event |
| the gateway | `order`, and `txns`, the transactions it accepted from the server |
| the payer's hosted page | `page` |

Two ghosts record which writes have been lost, so that properties can say exactly when they
may fail to hold: `lost`, the links with a row written and no recomputation since, and
`untold`, the payments whose notification a fault dropped. No action reads them.

#### Correspondence: the sweep

| Code | Steps |
|---|---|
| `StartReconciler` and the query of `PendingPayments` | `StartSweep`, with `Eligible` (status, owner, throttle, horizon) and `Oldest` (order and limit) |
| `reconcileScope`, `reconcileLink` | `View`, with the smaller batch; `LeaveView` when the request is given up |
| `reconcilePending`, the loop that looks credentials up | `Resolved`: an attempt without them is dropped, unmarked |
| `reconcileOne`, `MarkPaymentChecked` | `Ask`; `AskUnheard` if the gateway is not heard, `AskUnmarked` if the mark is not written |
| `DeleteGatewayCredential`, `handleSaveCredentials` | `Disconnect`, `Connect` |
| the 14 days of `reconcileHorizon` | `HorizonPasses` |

`lately` are the attempts whose `last_checked_at` is younger than the sweep's interval. A
sweep that lasts finds some of its own marks old, so any part of `lately` may still count.
Attempts are numbered by age. All are made within one interval of the sweep, so that one
horizon does for them; by the time it passes, some 10,000 sweeps later, a sweep finds nobody
to ask about, which is the guard of `HorizonPasses`.

#### Correspondence: the dispatcher

The dispatcher is one goroutine:

| Code | Steps |
|---|---|
| `QueueWebhook` | `QueueWebhook` |
| `drain`, `DueWebhooks` | `Drain`: `batch` is what the query returned |
| `attempt`, to the call | `Lookup`: the integration and its URL, or `giveUp` |
| `attempt`, the call | `Send`: accepted and heard, accepted and not heard, refused |
| `MarkWebhookDelivered`; `fail`, `MarkWebhookRetry` | the two actions of those names, `Mark` or `MarkFails` |
| `next_attempt_at` against the clock | `WaitPasses`: the delivery joins `due`, in the order of the query |
| `handleUpdateEndpoints` | `UpdateEndpoints`: the URL is set or removed |

The copies of a row in a batch need no variable: only the dispatcher writes a queued row.
`calls`, `told` and `hopeless` are ghosts: how often an integrator was called, what he
accepted, what was given up for want of a URL.

#### Correspondence: the doors

`job[h]` is a request at either door. `Open` is `locked`, `Check` reads the account and
compares what was typed, `Fail` is `fail`. A sign-in goes on with `Succeed`,
`SessionActive`, `NoSession` or `Force`, and `Issue`; a recovery with `SetPassword`,
`RevokeUser` and `Unlock`. A lock's record is its count, the age of its first mistake and
what is left of its closure. `live` holds, for each session, the password it was signed in
with. `crossed` is a ghost: a recovery that ended the sessions while a sign-in with the
password before it was on its way.

### The browser, and what it talks to

| Module | What it models |
|---|---|
| `Channel` | One `request()` of `lib/api.ts` per call: the handshake all calls share (`secure.ts`), sealing, the fetch, the one silent repeat, the opening of the reply; the server's channels, which expire and are lost with it. |
| `Session` | The token, the session the portal shows and the reason it ended; sign-in, takeover, sign-out, restored tokens and refusals, with calls that read the token only once they are sealed; `handleLogin`'s check and issue as two steps; the same account elsewhere. |
| `SessionClock` | The portal's timer in each tab, activity, warning and pings, against the server's idle and absolute limits; a machine that sleeps. |
| `Portal` | `view`, `role` and `session` of `AppProvider`, the menus of `Shell`, and the link detail a page shows, read by calls that are answered on whichever screen is up. |
| `LinkForm` | The fields of the form pay links are made with, in both styles and all three types, and what the server makes of them. Uses `Domain`'s terms. |
| `PayPage` | The page behind a link: amount, checkout, `checkout.js`, hand-over, with others paying and the operator pausing. Uses `Domain`'s row decisions. |
| `PayerReturn` | The page after the gateway's, its polling and redirect, and the receipt in another tab. Uses `Gateway` and `Domain`. |
| `PaymentPanel` | The panel of a payment's operations over the gateway's order and its record. |
| `GatewayScreen` | The form for the two gateway connections, and `handleSaveCredentials`, `handleSetEnvironment` behind it. |
| `IntegrationScreen` | The integrator's screen and its calls; secrets are numbered as they are issued. |
| `LiveReview` | The bank's queue at several administrators' screens, and the steps of `handleReviewLiveRequest`. |

They share a form. A **call** (`call[c]`) is a record of what was asked and how far it has
come: sent, answered by the server (one action per handler, named `Serve...`), taken by the
page (`Take...`) or lost. What the page does with an answer is the code after the `await`,
whatever the page has become by then. The state variables are the `useState`s and the
server's rows; a ghost says in its comment that it is one. Where a person's patience
matters, a constant (`Hurried`) says whether anyone acts while a call is under way. Most
modules state a property the careless instance does not have and the patient one does.

Patience is a person's: it holds back what a person presses, and nothing else. A session ends
by itself, left idle, out of time or taken over elsewhere, whatever is under way
(`SessionProvider.tsx:157-170`, `80-90`; `AppProvider.tsx:407-417`). `SessionEnds` of `Portal`,
`LinkForm` and `IntegrationScreen` is therefore enabled throughout a session, and takes away the
screen with the calls it made still to be answered. The ghost `cut` remembers it: in `Portal`
that a session of somebody who waits ended over a call, until the next fresh start (a reload,
or a sign-in with nothing left under way), and until then he does not wait for what was left
behind either; in `IntegrationScreen` whose newest secret it may have taken, until the next is
issued to a screen that is there. `Workspace` runs one desk
out of `Desks`; those in `Hasty` are the desks where nobody waits.

| Code | Where it is in the model |
|---|---|
| `openChannel`, `sharedChannel` | `Channel`: `Start`, `ServeHandshake`, `Opened`, `OpeningFails` |
| `attempt` and `CHANNEL_GONE` | `Channel`: `CallStep`, `Read` |
| `signIn`, `signOut`, `refresh`, `noteRejection` | `Session`: `SignIn`, `SignOut`, `Refresh`, `Rejected` |
| the one-second interval, `pingEvery`, `noteActivity` | `SessionClock`: `Clock`, `Tick`, `Ping`, `Activity` |
| `go`, `openLink`, `generate`, `togglePause`, the session effects | `Portal`: `Go`, `Open`, `Generate`, `TogglePause`, `SignInAnswered`, `SessionEnds` |
| `staleAmounts`, `startNewLink`, `generateLive`, `handleCreateLink` | `LinkForm`: `Kept`, `StartNewLink`, `Generate`, `LinkMade` |
| `pay`, `loadScript` | `PayPage`: `Pay`, `Answer`, `ScriptFails` |
| the poll effect, `outcomeFor`, `continueTo`, `outcome` of the receipt | `PayerReturn`: `Asking`, `Tone`, `ContinueTo`, `Settled` |
| `begin`, `confirm`, `refresh` | `PaymentPanel`: `BeginAction`, `Confirm`, `OpenPanel` |
| `choose`, `submit`, `switchTo` | `GatewayScreen`: `ChooseEnvironment`, `Submit`, `SwitchTo` |
| `create`, `act`, `load`, `CredentialsPanel` | `IntegrationScreen`: `Create`, `Rotate`, `TakeLoad`, `Acknowledge`, `Done` |
| `decide`, `load`, `ReviewLiveRequest` | `LiveReview`: `Decide`, `TakeLoad`, `Record`, `MakeLive` |

### Side by side, and the instances

Three modules each put several of these side by side, with `INSTANCE`, grouped by whom they
serve: `Browser` an account and a payer (channel, sessions, clocks, lockout, pay page, return
page, and the sweep that a view of the portal starts), `Workspace` the operator's portal and
its form, `Screens` the screens that change what the server holds. The modules in a group
share no state, so that a product of them would only multiply states, and a behaviour
therefore runs one of them, chosen in `Init`. What a property of a group says is the
conjunction of its parts, each of them guarded by the part that runs. A constant that differs
between parts is a function of the part (`FaultsOf`, `CallsOf`, `RolesOf`); the proofs are
about any such functions that fit.

`MCBrowser`, `MCPortal` and `MCScreens` give the groups their constants, as `MCPayLink`,
`MCWebhooks` and `MCSweep` give theirs to one module each.

### Abstractions and assumptions

* On the money path time is three events: a link expires, a hosted page times out, and the
  clock read by `reconcileOne`. `PageTimesOut` stands for the session's end *and* the
  passing of `abandonAfter` (45 minutes): the code relies on the first coming "well inside"
  the second (`reconcile.go:17`), and so does `ClosedIsFinal`. In `SessionClock` a unit is
  15 seconds of the code's numbers, in `Lockout` a window of 15 minutes is one or two ticks.
* An order in a status the code does not know is `PENDING`. `FAILED`, `CANCELLED` and
  `EXPIRED` orders move no more, as the code assumes (`Order.Terminal`, `mpgs.go`).
* A refusal by the gateway is an HTTP error, and a transaction id is accepted once per
  order (`mpgs.go`, the comment above `Capture`). Both are what the code relies on.
* One integrator per link: `hooked` says whether a link was made through an integration
  with a webhook. Payloads are left out; events and their order are not.
* Amounts are minor units. A field of a form holds a figure, nothing, or text that is no
  figure. Keys, nonces and signatures are the number of the channel they belong to,
  passwords the number of the time they were set, tokens the number of their session.
* `Lockout` leaves out the rate limits beside it, which only refuse sooner; a closed door is
  looked up by `Open` and the wait it tells is not kept.
* `PaymentPanel` takes an operation of the server as one step; `PayLink` takes it apart.
* Links and payments are never deleted, as in the code.

## 3. The runs

Deadlock is not checked: payers, operators and bounded counters may all come to rest, as
they do in the system.

| Run | Module | Instance | Shows |
|---|---|---|---|
| `bill` | `MCPayLink` | one link (split bill of 2, at most 2 uses, expiring; or a one-time link), two attempts, two handlers, an operator who cancels and reactivates, refunds in Merchant Administration | `TotalsExact`, `StatusJustified`, `FullLinkRefuses` |
| `authorize` | `MCPayLink` | one reserved payment of 2, two handlers that capture, refund and void, Merchant Administration doing the same | `RecordIsPast`, `CompletedExactly`, `HooksTruthful`, `UseReturnedOnlyByRelease` |
| `faults` | `MCPayLink` | the same with one operation and two faults anywhere | `TypeOK`, `IndInv`, `ClosedIsFinal`, `AuditTruthful`, `HooksFollowRow` |
| `recovery` | `MCPayLink` | one handler, one sweep worker, one crash or failed statement, late receipts, under fairness | `PaidIsSeen`, `AbandonedIsClosed` |
| `webhooks` | `MCWebhooks` | three deliveries, two waits, two rows a drain, a URL that comes and goes, one fault, under fairness | `DeliveryInv`, `CallsBounded`, `KeepsPromise`, `Settles` |
| `browser` | `MCBrowser` | the calls of one channel with three faults; two calls and two sessions; one tab; a door of three mistakes and both doors of two, with a recovery; a shared bill, a fixed price and a bill without disturbance; a return page of five polls; two attempts and a batch of one | `TypeOK`, `CallsTrue`, `SessionsTrue`, `DoorsHold`, `ClocksAgree`, `PayPageTrue`, `ReturnTrue`, `ReasonKept`, `AccountSettles`, `PayerSettles` |
| `portal` | `MCPortal` | two links; three desks: an operator who hurries with two reads, an operator and an administrator who wait, an integrator who waits; sessions that end by themselves; the form filled in twice | `TypeOK`, `RoleFits`, `CopyMatchesShown`, `PatientSeesTrue`, `FormTrue` |
| `screens` | `MCScreens` | two calls under way; two panels and two intentions; an operator who crosses calls and one who types; an integrator who hurries and one who waits, each with sessions that end by themselves; one administrator and two | `TypeOK`, `MovesOnce`, `PanelTruthful`, `ConnectTrue`, `KeysTrue`, `ReviewTrue`, `ScreensSettle` |
| `overpaid` | `MCPayLink` | two payers, one bill, no faults | violates `NeverOverpaid` |
| `double_submit` | `MCPayLink` | two operations, no faults | violates `DecidedOnCurrentBalance` |
| `starved` | `MCSweep` | three attempts of two operators, a batch of two, one operator who disconnects | violates `NothingMissed` |
| `landing` | `PayerReturn` | a payer who has paid, no faults | violates `FailureTrue` |

### Bounds

Two handlers suffice for every race the hazards of the money path name: each is between two
processes over one payment, or over one link. Two attempts make a bill that two payers
finish, overfill, or reopen by a refund; amounts 1 and 2 of a total of 2 make "part", "rest"
and "too much" distinct. Two operations (`MaxOps`) let one be decided while another is under
way and let ids collide. Two faults (`MaxFaults`) let a crash or lost response be followed by
a failure in the recovery from it. One link: links share nothing but the code. `bill`
includes neither operations by the server nor faults, and `authorize` no faults, to keep each
within minutes; `faults` puts them together on one payment, and the theorems lift the bounds
altogether.

Three deliveries and two rows a drain let a drain leave one over, and let a delivery that is
retried go behind one that waits. Two waits make a first, a last and an exhausted attempt.

Two calls under way are what a person can make of two presses; a race in a page is between
two answers, or an answer and a press. The channel has three faults because two are needed
before a call fails for want of one, and a third shows that nothing worse comes. Two sessions
make an old token and a new one. Each wait of a screen is crossed by whatever else can
happen; second panels, second forms and second requests are there because what the first one
leaves behind is what goes wrong. The clocks run with the server's own configuration in
units of 15 seconds. A limit of two or three mistakes has a first, a last and, with two
handlers, one too many. In the sweep two attempts and a batch of one make an attempt that
must wait for another.

`Symmetry` permutes handlers and attempts (`MCPayLink`), links and the hurried desk's reads (`MCPortal`), in
safety runs only; every property and action treats them alike.

### Fairness

Fairness is what the server's and the browser's own loops give.

* On the server a process under way takes its next step: Go runs its goroutines and every
  call has a timeout. The sweep picks an attempt that is pending again and again: the ticker
  runs every two minutes for as long as the server does (`main.go:69`). Strong fairness of a
  retrieve's success says that a gateway that is asked again and again sometimes answers; and
  a hosted page times out. Nothing is assumed of payers, operators, Merchant Administration or
  the order of outcomes. Faults are bounded, so the server is eventually up.
* That the sweep comes to every attempt is an assumption in `PayLink` and a result in `Sweep`,
  where only the ticker, the workers and the window for paying are fair and the batch is
  filled with the oldest. The result has an exception: while some operator is without
  credentials it need not hold, and `starved` shows that it does not. `PaidIsSeen` is therefore
  to be read with that exception.
* The dispatcher's ticker drains the queue every 20 seconds (`main.go:74`), and a drain has
  nothing to wait for but calls of at most 15 seconds (`webhooks.go:49`). `WaitPasses` is fair
  because time is. Nothing is assumed of the integrator: `Settles` holds if he never answers.
* In the browser a call that was made goes on: the event loop runs what is due, and `fetch`
  ends with an answer or an error. Losing an answer is a fault, and bounded. People are not
  assumed to do anything, with one exception: in `Session`, whoever works in the portal goes
  on making calls (strong fairness of `Work`), since an ended session is noticed by nothing
  else. `Tick` of `Lockout` is fair because time is.
* `PayPage` settles in the instance where `checkout.js` loads; where it does not,
  `TryAgainWorks` fails, as said below.

### Where code and documents disagree

Four runs show a step of the code that a document or comment rules out.

* `overpaid`: "Overpaying is impossible" (`api/README.md:371`). The remaining balance is
  compared and nothing reserved; two payers let through on the same balance may both pay. The
  same document says contributions in flight are not reserved, and that "the loser is told
  what is really left": that is so only of a payer who starts after the other's payment is on
  record.
* `double_submit`: "A double submit ... is caught here" (`api/README.md:416`). The order is
  read several calls before the operation is sent. The gateway's balance and ids are the real
  guard.
* `starved`: "oldest first so a bounded sweep eventually covers everything"
  (`store/payments.go:168`). Attempts whose operator has disconnected are skipped and not
  marked (`reconcile.go:71-74`), so that they stay at the head of the batch for as long as they
  are younger than 14 days. With 48 of them the sweep asks about nobody: other operators'
  attempts wait for up to 14 days, and those made in the same interval pass the horizon
  unasked, which is what the run finds, with a batch of two.
* `landing`: a payer who has paid reads "Payment not completed" and "No money has been taken"
  until the first answer comes (`return/page.tsx:93`), of which the comment at line 36 says
  that it "must never read like a failure".

The following were met in the same way, and found violated by TLC in the instances described.
Their formulas are in the modules, with the code they quote; they are not kept as runs.
`NoRollback`, `AuditComplete`, `GivenUpForCause` and `RetriedOnSchedule` are of the server,
the rest of the browser or of both.

| Formula | Said | Done |
|---|---|---|
| `PayLink!AuditComplete` | "Every attempt - including failures - ... is written to `payment_operations`" (`api/README.md:421`) | two operations count the same id; the one that moved money may break the unique key and is only logged |
| `PayLink!NoRollback` | "replaying this is harmless" (`public_handlers.go:435`) | an outcome read earlier and written later takes a capture or refund off the record |
| `Webhooks!GivenUpForCause` | "the failures no retry can fix" (`webhooks.go:159`) | a read of the integration that fails for any reason ends the delivery |
| `Webhooks!RetriedOnSchedule` | "retried after 30s, 2m, 10m, 1h, 6h and 24h" (`INTEGRATION.md:319`) | the sixth call is the last; the wait of 24 hours is never waited |
| `Lockout!LockHolds` | "how long it stays closed" (`guard.go:231`) | a wrong answer under way, counted once the window has passed, starts a new record and opens the door early |
| `Lockout!RecoveredIsIn` | "should keep the rightful owner out" (`recovery_handlers.go:333`) | the sign-in lock is cleared for the username, not for the e-mail address typed as a name |
| `Lockout!RecoveredIsOut`, `Session!OneSession` without their exceptions | "Reset ends every session" (`api/README.md:156`), "One account, one session" (`auth_handlers.go:222`) | a sign-in between its check and its issue is not seen by a recovery or another sign-in |
| `Session!SignOutRevokes` | "Tell the server first" (`SessionProvider.tsx:205`) | the call reads the token once it is sealed, when it has been cleared: the session lives on |
| `Session!NoNoticeAfterSignOut` | "no notice to show on the way out" (211) | that call is then refused, and a refusal leaves a notice |
| `Session!SessionHasToken` | "signs the person out here" (206) | a restored token's answer that comes after it shows the session again, without a token |
| `Session!RefusalMeansEnded` | "it ended somewhere else" (78) | the refusal of an older session's call closes the new one |
| `SessionClock!PortalEndsFirst` with two tabs | the portal's clock runs out before the server's | each tab has its own clocks, and one that ends takes the other's token |
| `Channel!AnswerIsShown` | "a single silent re-handshake and retry is the right answer" (`api.ts:430`) | a reply is opened with the channel of the moment, which another call's handshake may have replaced |
| `Portal!ScreenNeedsSession` without its exception | everything else "is sent back to the sign-in page" (`AppProvider.tsx:142`) | a creation's late answer sets a screen after the session has ended (504-516): for whoever hurries, and for whoever waits when the session ends by itself over it (`SessionProvider.tsx:157-170`, `80-90`) |
| `Portal!CreatedIsShared` | "a real one once a link has actually been created" (551) | a detail read late replaces the link just made |
| `Portal!OpenedIsShown` | "what lands here is the real outcome" (957) | two links opened after each other are answered in either order |
| `Portal!InventedHidden` | invented figures "are hidden from a live session" (1075) | an integrator's way out of the gateway page leads to the operator's dashboard and its example figures |
| `Portal!RecoveryAsked` | "it is asked for on the way in" (390) | once the gateway is connected, its page leads past it |
| `LinkForm!LeftAmountsDiscarded` | "discards the amounts belonging to the type being left" (330) | the minimum, which two types read, is kept |
| `LinkForm!LimitShown`, `AmountShown` | the new link's page repeats what was asked for | it shows other fields of the form |
| `LinkForm!PricedAsShown` | "would price a link in the wrong currency" (`AppProvider.tsx:216`) | a bill's select does not offer every currency that is kept, and shows its first instead |
| `PaymentPanel!RetryCaught` | "caught here instead of moving money twice" (`payment_handlers.go:147`) | when the answer is lost, a part captured or refunded is taken again |
| `PaymentPanel!SettledSaid` | "this payment is settled" (`PaymentActions.tsx:336`) | said of attempts that are open or failed |
| `PayPage!TryAgainWorks` | "Please try again." (`page.tsx:97`) | the failed script element is found again, and its events have passed |
| `PayerReturn!WayForward` | "never be left on a page with no way forward" (`return/page.tsx:271`) | after the last poll a record still open, or a call that failed, offers nothing |
| `PayerReturn!ReservedTrue` | "False when nothing has actually left" (`api.ts:642`) | false of a payment that was charged and refunded |
| `GatewayScreen!ProfilesApart` | the toggle does not carry "the other one's details across" (`ConnectGateway.tsx:45`) | a late load changes the gateway the form is for, and keeps the password typed |
| `GatewayScreen!DoneNames`, `PortalMode` | the page names the gateway that was connected; the portal "reads the environment off the session" (76) | the toggle may be moved while a save is under way; a save does not refresh the session's environment |
| `IntegrationScreen!PanelStays`, `CopiedIsShown` | "hard to dismiss by accident" (`Integrations.tsx:23`), "I have copied all three" (96) | a list read meanwhile takes the panel with its card, and the session's own end takes panel, tick and all, with the only copy of a secret nobody has ticked off; the tick outlives the secret it was made for |
| `IntegrationScreen!OneOpenRequest` | "stops an integrator queuing the same request" (`store/integrations.go:211`) | the check and the insert are separate |
| `IntegrationScreen!RejectionShown` | "Not approved: ..." (`Integrations.tsx:255`) | the view looks for a pending request only, so that a rejection is never shown |
| `LiveReview!ApprovedIsLive` | "Approved - live credentials issued" (`AdminLiveRequests.tsx:132`) | a write that fails after the decision is recorded leaves it without |
| `LiveReview!ListIsOfTab` | each tab lists its own requests (254) | loads of two tabs are answered in either order |

`INTEGRATION.md:320` also says that a delivery given up "can be replayed". `ReplayWebhook` is
there, but nothing calls it, so the model has no such step. `CreateLink.tsx:343` repeats that
a bill "can never be overpaid".

What does hold, in spite of these: none of them makes a record claim more than the gateway
did, and the counters follow the rows, right or late.

## 4. The proofs

Everything below holds for every value of the constants: any number of links, attempts,
handlers, workers, operations, calls, accounts, administrators, sessions and faults. The
assumptions are the ones the modules name: those of `PayLink` (finitely many attempts,
positive amounts, terms that `handleCreateLink` accepts, and the values standing for "no
link" and "no payment" being neither), those of `Webhooks`, and, for the three groups of the
browser's modules, `ConstantsFit`: that each part's constants are what its module calls for,
chiefly that what stands for "none" is no account, call or figure, that limits are numbers
and positive, and that sets to be counted are finite. TLC evaluates all of them. Where a
property has a condition (one tab, no lost answer, whoever waits), the property states it.

### The money path

**The inductive invariant** (`PayLinkInv`, theorem `Invariance`). None of the safety
properties is inductive: what a process will write depends on when it read. `IndInv`
therefore speaks of every copy of a record, in the table or in a job, and says the same of
each: it *was* true of its order (`RecordOK`), and orders only move on (`Advances`), so it
stays an underestimate. Around that: which steps of a process have an inserted row
(`LocalOK`), that nobody else holds an attempt not yet inserted (`Exclusive`), that a process
about to give up on an attempt has no order and no page to fear (the `abandon` clause), and
that an order's amounts agree with its status (`OrderOK`). The proof has one lemma per
action; `RecordSurvives`, `MirrorRecord` and `AfterAdvances` carry the argument, and
`JobsStep`, `LocalStep`, `RowWrite` and `OrderMoves` the framing.

**From it in one state**: `TypeCorrect`, `RecordsArePast`, `ClosedStaysClosed`,
`CompletionTimes`.

**`TotalsAlwaysExact`** is an induction of its own. A link is `Stale` while some process
stands between the row and the recomputation, or after a recomputation was lost. A step that
writes a row leaves its link stale (`SaveTotals`); a recomputation makes it exact, *for all
processes at once*, since it derives the counters from the rows (`TotalsTotals`); and the one
step that writes a row without recomputing, giving an attempt up, is harmless because a
payment without an order never counted (`AbandonTotals`). In the initial state the sum over no
rows that count is zero, which needs an induction over finite sets, done with a minimal
element (`SumOfZeros`). `FullLinksRefuse` follows from it.

**`StatusAlwaysJustified`** goes by the four updates of `RecomputeLinkTotals`
(`RecomputedJustified`), the only code besides an operator that writes the status.

**`AuditAlwaysTruthful`** adds that a process which heard its operation succeed finds it among
the gateway's transactions when it writes the audit row (`AuditInv`).

**`PayLinkHooks_proofs`** is about integrators and uses. What `Notify` will queue is decided by
the outcome a handler holds, long after it read the order. `ToldInv` adds to `IndInv` what
cannot cease to be so: a record that says "failed" has a failed order, one that says
"refunded" an order with a refund (`HooksAlwaysTruthful`). `FollowInv` says of each outcome on
record that it has been told, is about to be by the process that wrote it, or was lost to a
fault (`HooksAlwaysFollow`; the process on its way carries the status that is on record).
`UseReturned` is an action property: a counter is never above what the rows say unless
something was released (`UseInv`), so a recomputation that lowers it has a release behind it.

### The notification queue

`DeliveryInvariance` ties the batch, the queue and the table together: what the dispatcher
holds is due, what is due is pending, nothing is listed twice, and each call is on the row's
count, is the one under way, or was lost to a fault. The steps that take a delivery out of the
queue need `WithoutPlace` and `WithoutOne`, about a sequence without one element.
`CallsAreBounded` is read off it. `PromiseKept` is the refinement: every step is one of
`Outbox` or changes nothing it can see. The assumptions are that each delivery has an
integration and that there is at least one wait and one row in a batch.

### The browser

Three theorem modules, one for each group: `Browser_proofs`, `Workspace_proofs` and
`Screens_proofs`. Each proves, action by action, that the invariant of every part is kept
(`IInv` of the part's module), and from these that the group's `Inv` is (`Inductive`): a step
of one part leaves the others' variables alone. `Typed` and the properties of the run are
read off it. The properties of an instance must be proved of that instance, since a proof
cannot be cited through one that has a parameter; names there are therefore long
(`Door(who)!Counted`). What makes the parts inductive is, nearly everywhere, a statement about
the calls under way: what an answer not yet taken will do.

`Browser_proofs`:

* `Channel`. That a call is served once at most, and that one fault is never enough to leave
  it without a channel, are facts about the *number* of faults. `Counted` says how many lie
  behind each state a call can be in: a renewed call has seen one, a call sealed with a dead
  channel for the second time two. A channel may die before it is handed over, which
  `StillBorn` counts, and a held one later, which is `HeldLives`; `Quiet` is the state of the
  whole page while nothing has gone wrong. `CallsAreTrue` follows.
* `Session`. `SessionsTrue` is that one session lives unless two sign-ins crossed, and that
  the browser's token is the newest it was given. `OneSignIn` (this browser has one sign-in
  under way) and `ProvedAlone` (between the check and the issue of a sign-in there is no
  session, unless somebody crossed it) make it inductive. `ReasonIsKept` is an action
  property and needs no invariant.
* `Lockout`. That a closed door is passed by few is a counting argument: past the limit, each
  further mistake was one of the answers under way when the door closed, so that the failures
  and the answers that may still turn out wrong are together fewer than limit and handlers
  (`Counted`). A handler that records its failure leaves the set, which makes the sum stay
  where it was. That recovery ends every session needs which password a handler has read
  (`PasswordRead`) and that one which is past the door with an old password crossed the change
  (`PassedKnown`).
* `SessionClock`. `Within` relates the age the server counts to what each tab has counted, on
  both sides of a run of the timer (`due`); `Warns` does so for the warning, and `Pings` says
  that a tab with something to tell has told it within an interval. `ClocksDoAgree` holds for
  every limit and interval, under the conditions it states: one tab for the first property,
  an interval between pings that fits into the limit, and no ping lost.
* `PayPage`. Between the press and the hand-over the checkout in hand is the last one started
  (`InHand`), however late `checkout.js` comes.
* `PayerReturn`. Pages and receipts show old records; `Past` is what stays true of one: it
  shows no more money than there is, taken money stays touched, and an order that came to
  nothing stays so. `AskingTrue` and `SentOn` relate the page's polling and its redirect to
  what it has read.
* `Sweep`: types only; its other properties are liveness.

`Workspace_proofs`:

* `Portal`. `RoleFits` could fail through the prototype's own switch of roles, which a page
  for the bank offers: `NoBankPages` says that nobody with a session is led to one. The reads
  of a link need no patience (`CopiesMatch`, with any number under way). What whoever waits
  sees needs `Waited`: there is one kind of call under way at a time, each pins the screen it
  was made from, and a read is of the link that was opened. The converse of "a screen needs a
  session", that a session has no screen of a visitor, is part of it. `Waited` is an invariant
  while `cut` is false, and so is `PatientSeesTrue`: after a session has ended by itself over a
  call, a creation's answer may still put a screen up where nobody is signed in. With nothing
  left under way a sign-in makes `Waited` true again, and a reload always does.
* `LinkForm`. A figure that would be sent was typed under the type it is sent with: a type's
  own fields alone are on screen, so each field was typed into under a type that reads it
  (`TypedWhereRead`), and `staleAmounts` clears what the next type does not read.

`Screens_proofs`:

* `GatewayScreen`. That no gateway is held under the other's name (`HeldUnderItsName`) rests
  on the server alone, which checks host and password of the gateway it is told; that the
  portal's gate is honest (`GateHonest`) needs what an answered save promises (`SavedHeld`),
  however the form was toggled since.
* `LiveReview`. One decision of each request: the write is conditional, so of the calls that
  carry one, at most one has gone past it (`OneDecision`), and while none has the request is
  open (`OpenIsOpen`). What an administrator was told stands (`ToldStands`), and what is live
  was approved (`LiveIsApproved`).
* `PaymentPanel`, for the case that no answer is lost (`Unheard = FALSE`): with lost answers
  the property is false, as `RetryCaught` in the module says. While an operation is under way
  nothing else can be confirmed in the panel that made it (`OneCall`, `Waits`), and an
  intention that is still to be confirmed has moved nothing (`Unmoved`, `Ready`).
* `IntegrationScreen`. For an integrator who lets one call end before the next and loses none,
  `PatientInv` follows a secret from its issue to the hand: through the answer that carries
  it, the panel that shows it, and the list and the acknowledgement that could take it away.
  The session's own end takes it too, and there is no second copy: `SecretInHand` excepts the
  integrations in `cut`, and only those, until the next secret is issued. While the screen is
  away, the calls that would bring a secret are of integrations in `cut` (`AwayCut`), which is
  what keeps every other one accounted for. The buttons' honesty holds for everybody.

The invariants were checked by TLC on the runs' instances before they were proved.

### Only model-checked

`PaidIsSeen`, `AbandonedIsClosed`, `Settles`, `AccountSettles`, `PayerSettles` and
`ScreensSettle`, since liveness under fairness and `ENABLED` are beyond the prover. Every
invariant and every action property of a passing run is proved. What the runs that find a
violation refute is of course not. No module uses `RECURSIVE`: sums are folds, whose values
the prover knows only through their definition.

## 5. What could follow

1. `Ledger`: the abstract promise of the money path (an attempt's money at the gateway, the
   record following it), and `PayLink` shown to implement it.
2. Credentials as a dimension of `PayLink`: the host and password a request is made with, and
   what a 400 then means.
3. `Nonces`: the freshness window of `secure/channel.go` and `secure/apikey.go` and the memory
   of what was seen.
4. `Money`: parsing and formatting against a reference definition.

## 6. Not modelled

* **API keys and the integrators' API** (`secure/apikey.go`, `integration_middleware.go`,
  `integration_handlers.go`): a signature checked on each call, and handlers that go the way of
  the portal's own. Cryptography is taken as sound wherever it is used.
* **Merchants, team and accounts**: single-statement writes of one row by one administrator.
  An invitation used twice at once would be a property of two such statements.
* **Money parsing and display**: a pure conversion without state.
* **Receipts' layout, analytics, dashboards, developer documentation**: reads and text.
* **Mail**: I/O whose outcome changes no state.
* **Start-up, routing, configuration, seeding, command line tools, deployment**: run by hand or
  once.
* **The prototype's screens, its role switcher and its top menu**: invented figures of the
  design the portal grew from. `Portal` says which of them can still be reached.
* Rate limits, and the memory of nonces: they only refuse what would otherwise go on.
* Within modelled parts: the notes of components in `PROJECT.json` name what is left out of
  each, and its hazards without a property say why none covers them.
