# A TLA+ model of the MikHMon micro-services

The repository is a voucher and billing back office for MikroTik hotspots: NestJS
services (`auth-node-service`, `payment-service`, `erp-node-service`, the BFF
`main-node-service`), a Go service that talks to the routers
(`mikrotik-go-service`), a Python service with the Telegram bots and the
notifications (`bot-py-service`) and a React frontend. Services own a database
each, call each other over gRPC, and pass events through Redis streams.

This directory models the parts in which money, vouchers and suspensions depend on
the order in which several actors take their steps. `PROJECT.json` ties every
definition to its lines, lists the runs, the mutants that show each property can
fail, the hazards and the theorems.

## 1. Inventory

| component | state | operations | interacts with |
|---|---|---|---|
| Voucher orders (`voucher-order.service.ts`) | `voucher_orders`, `payhook_callback_logs` | checkout, PayHook webhook, manual verification, reconciliation, QR regeneration, settlement; expiry and pruning every 60 s | router (gRPC), outbox (same transaction) |
| Payment outbox (`payment-service/src/redis`) | `payment_outbox` | enqueue, flush on a timer (flushes may overlap) | Redis streams |
| Bot consumer (`redis_consumer.py`) | group cursor and pending list in Redis | read, reclaim, handle, acknowledge | WhatsApp gateway, Telegram |
| Voucher batches and ERP outbox (`erp-node-service`) | `voucher_batches`, `outbox_events` | create, delete with router, mark used, flush | Redis streams, router |
| Batch consumer (`consumer.go`, `main.go`) | group cursor, pending list, dead-letter stream | read, reclaim, provision, dead-letter, acknowledge | router |
| Billing (`billing/*.ts`) | customers, invoices | daily sweep (generate, remind, flag, suspend, notify), pay, manual panel operations | router, Redis |
| Collector cash (`billing.service.ts`) | `unsettledCash` of customers, settlements | credit a payment, submit and verify a settlement; every save of a customer | panel, sweep |
| Reseller bots (`tg_bot.py`, `reseller_service.py`, `tg_config_service.py`) | `bot_resellers`, `topup_logs`, `telegram_topup_requests`, polling offset in memory | buy, ask for a top-up, approve, reject; panel top-up, edit, toggle, delete | Telegram, router, BFF |
| Bot configurations, polling threads, daily report (`tg_config_service.py`, `tg_bot.py`, `tg_daily_report.py`) | `telegram_configs`, a flag per bot in memory | save, delete, start and end of a thread; send once a day, mark as sent | Telegram, both panels |
| Users, mobile tokens (`auth-node-service`) | `users`, `mobile_tokens` | CRUD with the last-admin rule, login, verify, revoke | all services |
| Router sessions, RouterOS client, reports (`mikrotik-go-service`) | `router_sessions` | CRUD, request and answer | routers |
| QRIS builder (`qris.service.ts`) | none | TLV, amount, CRC | voucher orders |
| React frontend (`frontend/src`), old panel (`main-node-service/public`) | per page: rows, busy flag, notice; the selected router | load, switch router, act on a row, reload | all services through the BFF |
| BFF, nginx, scripts | sessions in Redis | forwarding | everything |

What is hard here: every Node service interleaves requests at each `await`, the bots
are threads, and most writes are read-modify-write of a whole entity. Router calls
meet deadlines after the router has acted. The panels' calls overtake each other while
the operator chooses another router. Events are published at least once and
consumed at least once. Any process may die between two statements. `hazards` in
`PROJECT.json` lists, line by line, where this bites.

What makes each component correct:

* **Orders**: one settlement at a time; sold once; a paid order has a working voucher
  and both its events; paid is final; no order stays `processing`.
* **Events**: an entry is acknowledged only after its messages were sent, whatever was
  published twice, and every event is handled in the end.
* **Batches**: an acknowledged batch is on the router or in the dead letters; a used
  voucher stays used, and its user is spared when the batch is deleted.
* **Billing**: one reminder a day, suspension only when late, payment is final, a late
  invoice is flagged.
* **Users**: an active administrator remains; a user has one mobile token.
* **Collectors**: what a collector holds is what was paid to him less what he settled.
* **Bots**: a delivered voucher is paid, balance and ledger agree, no press is lost; one
  thread polls for a bot, a disabled bot stops, one report a day.
* **Panels**: a page at rest shows the selected router and what was done from it; an act
  goes to the router whose rows were on screen; waiting ends.

## 2. Modules

| module | models | proofs in |
|---|---|---|
| `VoucherOrders` (+ `MCVoucherOrders`) | the QRIS orders of payment-service | `VoucherOrdersProofs` |
| `EventDelivery` | abstract: an event is accepted, dealt with, closed, in that order and never back | |
| `PaymentEvents` | payment outbox relay, stream, bot consumer; implements `EventDelivery` | `PaymentServiceProofs` |
| `CollectorCash` (+ MC) | cash of collectors under payments, settlements and saves of customers | `PaymentServiceProofs` |
| `BatchProvisioning` (+ MC) | ERP batches, relay, stream, Go consumer, router; implements `EventDelivery` | `BatchProvisioningProofs` |
| `BillingSweep` | invoices and one subscriber under sweep, payment and panel | `BillingSweepProofs` |
| `UserAccounts` | users and mobile tokens of auth-node-service | `UserAccountsProofs` |
| `ResellerBot` (+ MC) | two bots and the panel on one reseller's balance | `BotServiceProofs` |
| `BotSettings` | bot configurations, the polling threads and the daily report that depend on them | `BotServiceProofs` |
| `VoucherBatches` (+ MC) | used marks, synchronisation, import and deletion of voucher batches | `VoucherBatchesProofs` |
| `PanelPages`, `Panels` | what tells one page of a panel from another; the machine that runs any of them | `PanelsProofs` |

`CollectorCash` has its own names for what `PaymentEvents` names too (`CashSpec`, `customer`,
`failures`, ...), and `BotSettings` for what `ResellerBot` names too (`SettingsSpec`, `BotIds`,
`failures`, ...), so that one module can extend both of them.

An action is what runs without another actor being able to interfere: one SQL
statement or transaction, one Redis command, one router or Telegram call, together
with the code up to the next one. A request or thread in progress is a record whose
`pc` names what it waits for. A crash resets those records and keeps what was
committed; it counts against a bound.

### VoucherOrders

`req[r]` is a request in `processAppWebhook`, `verifyManually`, `reconcileCallback` or
`regenerateQr`; from `pc = "claim"` on it is inside `settleOrder`, shared by the first
three. `Claim` is the conditional UPDATE, `RouterAdds`/`RouterFails` the gRPC call
(a taken name is a success, a deadline may come after the router acted), `Commit` the
transaction with the two outbox rows, `Undo` the write back to `pending`.
`SaveQr` writes status and credentials read before the await, as TypeORM's `save`
writes every column that differs from the row it finds. The clock is three ages of an
order: live, lapsed (`expiresAt` passed), aged (retention passed). `status` has the
extra values `creating` (open checkout transaction), `none` and `deleted`.

Expiry takes an order out of `processing` under a running settlement; from then on
the lock that the claim is no longer holds. `OneSettlerAtATime` and `SoldOnce` are
therefore stated for orders that have not lapsed and that no QR save has overwritten:
that is exactly as far as the code guarantees them.

### PaymentEvents and BatchProvisioning

Both follow a row from its outbox to the acknowledgement. In payment-service flushes
overlap (no guard on the timer); in erp-node-service `running` prevents that. The two
consumers differ too: the Go consumer parks an entry in a dead-letter stream after
`MaxDeliveries` attempts, the bot retries for ever. One stream is modelled; other topics
run the same code. `AddHotspotUser` and `ListHotspotUsers` are external and may
succeed, fail, or act and fail. Docker compose sets `USE_REDIS_STREAMS=true`; the
pub/sub fallback is not modelled. Deleting a batch removes its users by name and
leaves its event in the outbox.

`EventDelivery` is what both promise: `open -> accepted -> dealt -> closed` forwards
only. Its refinement is checked as the property `DeliveryPromise`, with the stage of an event
computed from outbox, stream, pending list and what was sent. In payment-service an event is
dealt with once both messages were sent (`Served`): WhatsApp for customers with a phone number,
Telegram for the administrator.

### BillingSweep

One customer and one invoice at a time suffice for the properties: the sweep treats
customers one after the other and invoices share nothing. Workers are the sweep
(`0`) and the panel's requests. The mark `__claim__:<day>:<token>` is `Token(w, d)`,
the date that replaces it `Sent(d)`. Entities read by a worker are kept in its record
and written back whole, so stale saves appear as they do in the code. As in the
code, the overdue publication does not depend on a claim being granted
(`if (!claimed)` tests an object).

### ResellerBot

A bot has the offset `last`, the batch it fetched and the handler's position. Offsets
live in memory: a restart fetches every unconfirmed update again. An exception in a handler ends the batch;
the rest is fetched again, the failing update is not. Approve and reject buttons are shown in the
chat of the bot the request came through. The balance is changed by a conditional UPDATE
(purchases) and by writes of a value computed earlier (top-ups, the toggle).
`balanceBefore` and `balanceAfter` of a ledger row are not kept: a row is its kind, what
it is for and its amount. `BalanceFollowsLedger` is an action property: every step moves the balance
and the sum of the ledger alike, with two exceptions that the code has and the property names:

* `StaleWrite`: a top-up or a toggle writes a balance computed from an older one.
* `Emptied`: the panel's edit of a reseller (`PanelEdit`) sets the balance to 0 and leaves no ledger row.
  `saveBrs` sends `saldo: undefined` (app.js:4515), the gRPC message defaults it to 0, `UpsertReseller`
  copies every field and `upsert` writes it (reseller_service.py:82-86). The comment of the form says the
  opposite, "saldo only on create" (app.js:4491).

### UserAccounts

`req[r]` is a request in `UserService` or `MobileTokenService`; `entity` is the row it
will save, fixed when it has read. `Loaded` is the read with the first half of
`assertKeepsAtLeastOneActiveAdmin`, `Count` the second half, `Save` and `DeleteRow` the
write, `RevokeOld` and `Issue` the two statements of `generate`, `Touch` the save of a
verified token. An id is the millisecond of its creation, so two creations may draw the
same one. `overtaken` marks a request after whose read another one has written to the
same table; the properties that hold of every step that is not overtaken are exactly
what check and write in two statements give.

### CollectorCash

`customer` is the part of `billing_customers` that matters, `req[r].rows` the entities a request
has read and will save. `payInvoice` saves the invoice, finds every customer that bears the
payer's name and saves each with more cash; `verifySettlement` does the same with one
customer and less. Suspension, re-enabling, import and the edit form save customers they
have read, cash included. `account` is a history variable with what the cash should be; it becomes
`Unknown` for a row that was saved from an overtaken copy, that two requests changed for one invoice
or settlement, or that a fault left half done. `CashIsAccounted` says that nothing else
spoils a row.

### BotSettings

`flag[b]` is the bot's `polling` state in memory, `thread[b]` counts its threads by the point they
have reached, `report` is the one scheduler thread. A disabled bot ends at its next poll, so
it can be enabled and started again while the old thread still waits for Telegram: the flag makes
the two one (`OnePoller`). Marking a report as sent calls `save_config` with an id alone, which resets
every other column (`Wiped`): the bot loses its token and its thread ends. The mark itself goes to a
column that no configuration has, so `Due` never sees it; a report is sent once a day because it is due
in one minute of the day. `stop_all` runs when the process shuts down and is part of `Restart`.

### VoucherBatches

A request copies rows, awaits router or database and writes the rows back whole. `kept` is
history: the marks that were written while no other request worked on a copy of the batch. Those stay
(`UsedIsSpared`). The others may be lost with the save of an older copy. The automatic synchronisation
marks a username in one batch only, although several may hold it: the deletion of another one
removes the user while a customer is using it. Neither is promised otherwise by the code.
The names of the vouchers of the import's batch are those the router lists; the update of
`syncUsedFromMikrotik` does not insert a deleted row, the other saves do.

### PanelPages and Panels

The 54 pages of the two panels do the same few things in different ways. `PanelPages` names the
differences as a record per page and per act: what a listing is keyed by, whether old rows are
cleared, whether an answer that was overtaken is ignored, whether a failed call still clears the
busy flag, and so on. `Panels` runs one page, chosen by `Init`, with the calls it has in flight.
React and the old panel differ in how a switch works: a React page loads in an effect on the selected router
and its handlers keep the router they were rendered with; the old panel sets the global `CS` at once,
waits for `POST /session/router` and only then leaves the page, and its handlers read `CS` when they run.

Each property says how far the pages guarantee it. What they do not guarantee is in the model too:

* Only the interface traffic page ignores overtaken answers (`requestRef`). On the others a switch
  during a load may leave the former router's rows on screen (`raced`).
* In React the buttons of a router's page are disabled while it is busy, with one exception: the file input
  of the billing page (BillingPage.tsx:142). As that page keeps its old rows too, an import may be
  started while the load of the new router runs, and go to the new router with the old rows on screen.
  `Protected` leaves out what is pressed on this page during a load. A load sent before the import
  may also be answered after its reload and hide what was imported: the page is not among those of
  which `RowsFollowActs` speaks, whose acts all lock them.
* Hotspot users, hotspot profiles, billing and the tables `App` renders keep their rows when
  the router changes; if the next load fails, the buttons act on the new router with the old names.
  The old panel shows such rows between the choice and the dashboard (`Protected` lists the cases).
* In the old panel most pages show an empty table when a load fails; hotspot profiles and payment settings
  keep the old rows (`drops`), and so do resellers, billing, invoices, users and bot resellers when the answer is an error
  and no list (`keeps`).
* A bare `fetch` of the old panel rejects before `hideL`: the overlay stays until the panel is reloaded
  (`stuck`, for example app.js:4163). `loadDashboard` ends with `hideL` whatever page is open by then
  (app.js:820), and `bulkDelHs` hides the overlay while its reload runs.
* On a router slower than its timer the interface traffic page ignores every answer and stays busy.

## 3. Runs

| run | bounds | shows |
|---|---|---|
| `voucher_orders` | 1 order, 3 requests, one event id, one amount | three requests of any kind race on an order, through expiry, QR saves, failures and crashes |
| `payment_events` | 1 row, 2 flushes, 2 faults | overlapping flushes, restarts of either side, redelivery |
| `batch_provisioning` | 1 batch of 2 vouchers, 2 faults, 2 attempts | provisioning stops half way, is claimed again, is dead-lettered; the batch is deleted meanwhile |
| `billing_sweep` | 3 days, 2 panel requests, 1 fault | sweep and panel on one invoice: remind day 1, late on day 2 |
| `reseller_bot` | 2 bots, 2 presses, 1 request, 2 vouchers, 1 panel request, 2 faults | purchases compete for a balance worth one voucher; an approval is interrupted and delivered again; a top-up or a toggle writes a stale balance, an edit empties it |
| `user_accounts` | 2 usernames, 3 requests, ids 1 to 3, 1 restart | changes of users, logins and token verifications interleave; two requests overtake each other while a third creates the second administrator |
| `collector_cash` | 2 customers, 2 names, 1 invoice, 1 settlement, 3 requests, 1 fault | a payment credits two customers of one name while a settlement or a stale save meets them |
| `bot_settings` | 1 bot and the empty id, a day of 2 minutes, 3 minutes, 2 saves, 1 fault | a bot is disabled, enabled and started again; a report is sent, marked and its bot wiped; midnight passes during a report |
| `panels` | every page, 2 routers, 2 calls in flight, 2 acts, 1 switch | calls overtake each other around a switch, an import goes on after it, any call fails |
| `voucher_batches` | 1 batch and the import's, sharing 2 usernames, 2 requests | marks, synchronisations, imports and a deletion on copies of each other's rows |
| `voucher_event_twice`, `billing_overdue_retry` | as small as the counterexample allows | a sentence of the repository that the code does not keep (`findings`) |

Why these bounds: the interactions are between a small number of actors on one row;
three requests allow claim, competing claim and interference by a third; one order
suffices for the order properties, since orders share only the unique amount (the run
about event ids has two orders); two faults allow a crash during the recovery from
another. In the panel one switch suffices, since a call belongs to the router before or after it;
two acts give one that is in flight while the other reloads. Acts are counted where a property needs the
count, on the pages whose loads lock them (`Counted`). A day of two minutes has a minute in
which a report is due and one in which it is not. Every run
disables the deadlock check: a system whose customers have stopped asking rests.

Fairness is what timers and loops give: `setInterval` in the relays and
sweeps, the consumers' and bots' endless loops, supervised restarts; in `BotSettings` the polling
and report threads; in `Panels` that of the calls in flight some call is answered. Requests,
operators and customers are never forced to act. The clock advances where a timer depends on it.
Faults are bounded, so "eventually" means: once they stop.

## 4. Proofs

Every safety property of a passing run is a theorem: it holds for every value of the constants,
whatever the bounds of the run. The assumptions are those the modules
state by name: bounds are naturals, null values are not values, deliveries are well formed. Each
proof has the same shape: an inductive invariant that TLC has checked first, one lemma per action (or per
group of actions that move alike), and the property as a consequence.

**Orders** (`VoucherOrdersProofs`)

* `Typing`: a request's fields depend on its `pc`, so the invariant is `TypeInv`: `TypeOK` and the
  shape of every request.
* `ExclusiveSettlement`, `SoldAtMostOnce`: `OneSettlerAtATime` and `SoldOnce` are not
  inductive. `ExclusionInv` adds that an undisturbed order with a settler is
  `processing`, that a committed one is `paid`, and that these exclude each other; the
  claim's guard `status = "pending"` then does the work. `LateInv` says that only an
  order past its expiry is `expired`, which keeps reconciliation (which turns `expired`
  into `pending`) away from undisturbed orders.
* `PaidVoucherExists`: `RouterInv` adds that the user of a request that has passed its
  router call, and waits to commit, is on the router.
* `PaidAndAnnounced` (`PaidIsAnnounced`): the status and both outbox rows come from one
  transaction, and no outbox row is taken back. `PaidStaysPaid` is the action property `PaidIsFinal`.

**Events** (`PaymentServiceProofs`, `BatchProvisioningProofs`)

* `EventsTyping`, `ProvisioningTyping`: `GroupInv` relates the consumer group to the stream: what was
  delivered lies between the start of the group and `last`, what is in hand is pending. Without it, neither
  the index of the entry in hand nor that of the next one is known to be one of the stream.
* `EventsDelivered`, `BatchesDelivered`: the refinement of `EventDelivery`. Initial states map to
  initial states; a step that touches an event moves its stage forwards or not at all, and the others
  stutter. The argument about acknowledgement is `ServedInv` (`DealtInv`): at the await
  before the acknowledgement everything that has to be sent is sent, and so it was for every
  entry acknowledged so far. This covers safety; that every event is closed in the end is TLC's.
* `ClosedComplete`: an acknowledged batch has every user on the router, unless it is in the dead letters or
  a deletion withdrew a name. `RouterInv` carries it from `ListHotspotUsers` through the loop of `add`.
* `ParkedLate`: a batch in the dead letters was delivered more than `MaxDeliveries` times (`RetriesInv`).

**Batches** (`VoucherBatchesProofs`): `BatchTyping` by `TypeInv`; `UsedSpared` (`UsedIsSpared`) by
`CopiesAgree`: a copy that a request may still write back carries every mark that is kept.

**Billing** (`BillingSweepProofs`): `BillingTyping`; `OneReminderPerDay` by `ReminderInv`: a reminder
published today has left a mark on the invoice, and the sweep publishes under a claim of a day on which it
has published nothing; `SuspendedLate` by `WorkersInv`: whoever is about to block the subscriber has found the
invoice late, or an operator has asked; `PaidInvoiceFinal` is the action property `PaidIsFinal`.

**Collectors** (`PaymentServiceProofs`): `CashTyping` and `CashAccounted` (`CashIsAccounted`). That property
alone allows any value while a request is on its way, so the invariant says what such a request
will do. `Sound` says of every request that the copies nobody has overtaken are what the table holds, and that
it passed its check of the invoice or settlement as long as nobody else has. `Accounted` says of a
customer whose account is known that the row holds it; or one request will make it so; or a request
works on a copy that is overtaken, or will be by another one, and the account becomes unknown when it saves.

**Users** (`UserAccountsProofs`)

* `AccountTyping`: by `TypeInv`, which adds the shape of a request at each await.
* `LastAdminSafe`: the action property `LastAdminLeavesByRace`. `AdminInv` says that a
  request that may write and was not overtaken still finds what it has checked: its row
  is not that of an active administrator it would drop, or there is another one.
* `OneToken`: `OneTokenPerUser`. `TokenInv` adds that before a login that was not
  overtaken inserts its token the user has none.

**Bots** (`BotServiceProofs`)

* `SettingsTyping`; `AtMostOnePoller` (`OnePoller`) by `FlagStands`: a bot that is polled for has its flag
  set; `OneReport` (`OneReportPerDay`).
* `ResellerTyping`; `VouchersPaid` (`DeliveredIsPaid`) by `VoucherInv`: no two bots work on one
  voucher, and the debit's ledger row is there before the voucher is shown; `RequestsTruthful`
  (`StatusTellsCredit`) by `RequestInv`: a claimed request belongs to one bot, which knows whether it was credited.
* `LedgerFollowed`: the action property `BalanceFollowsLedger`, with its two exceptions. The sum of a finite set of rows is a
  recursive function over its subsets; that adding a row adds its amount is shown by way of a closed
  form (the number of rows of each kind times its amount) and a smallest counterexample.

**Panels** (`PanelsProofs`). What the argument needs to know of a page is `PageFacts`, shown of each of the 54 pages
(`EveryPage`); after that a page is known by these facts alone. Among them: a React page that keeps its
old rows over a switch is busy until the load that replaces them; on a page of the old panel whose loads cover
the rows of a router, all acts lock it and reload it, or none locks it.

* `PanelsTyping` (`TypeOK`). That no version exceeds its type needs `ActsCounted`: the acts a store has had
  and those still outstanding, the rest of a loop included, are no more than were pressed.
* `ActsHitRows` (`ActsHitTheRowsSeen`) by `SeenRows`: an act carries the router whose rows were seen, and a
  loop of the old panel, which goes on with `CS`, that of `CS`, since no switch goes past a dialog. That rows of
  another router cannot be pressed takes three things. `StaleReact`: such rows are on a page that is busy with no
  act in flight, provided that all its acts lock it. `StaleOld`: they are covered by the overlay, and no act
  that would take it off is in flight. `OnTheWay`: the load that replaces them is in flight, which settles the React
  page whose import locks nothing. Where that load has failed, `Protected` promises nothing.
* `RestingPage` (`RestingPageIsTrue`). For the rows, `OnTheWay`: when no call was overtaken, rows of another
  router have the load that replaces them in flight, or it failed; `GuardedRows` says the same
  of the page that ignores overtaken answers, switches or not. For the acts, `OneCall` and `Fresh`: where
  loads and acts all lock the page it has one call in flight, so the listing that is
  served last has every act; on a page without acts nothing is ever done (`Untouched`).

What proving corrected in the models, beyond what the runs had shown:

* `ClosedIsComplete` is false of two batches that share a name, one of which is deleted. The code removes
  users by name, whichever batch they came from. The property now exempts names that a withdrawn batch also
  holds. A two-batch instance was checked with TLC as well, the run keeps one batch.
* `ParkedAfterRetries` is false for `MaxDeliveries = 1`, where an entry is parked at its first delivery: the first
  attempt already reaches the limit. The property says so now.
* `RowsFollowActs` (of `RestingPageIsTrue`) left out pages whose overlay stayed after a bare fetch rejected. Its
  proof does not need that: a panel that is stuck shows what was done all the same.
* `Panels` takes at least one router and one slot for calls: without them there is no page.
* The arms of the `CASE` that computes an event's stage overlapped; they are nested `IF`s now, in the order meant.

Model-checked only:

* Liveness (`ProcessingEnds`, `EventuallyDelivered`, `EventuallyClosed`, `LateIsFlagged`, `PressesAnswered`,
  `DisabledStops`, `WaitingEnds`): fairness is defined by ENABLED, which the prover does not handle.
* The two findings, which are counterexamples.

No module declares a RECURSIVE operator.

## 5. Not modelled

* The legacy administrator, signing and verification of tokens, validation of signatures: one row, or
  no state.
* Router sessions of the Go service: CRUD of one row per router, whose only concurrency is a
  check before an insert that the primary key repeats.
* The RouterOS client, reports and schedulers: one connection per call to an external device. At this
  commit the Go server embeds the generated unimplemented handlers for `AddHotspotUser` and
  `ListHotspotUsers`: the router is modelled as its callers see it, as calls that may succeed,
  fail, or act and fail.
* The QRIS payload builder, a pure function over strings, and the payment configuration, a row whose
  values are constants of `VoucherOrders`.
* Voucher types, profile metadata and the gRPC clients of erp-node-service, the proxy and session store
  of the BFF: requests passed on, or single rows.
* Of the panels: rendering, search, charts, printing, parsing of import files, the login, pages whose
  calls have no listing, and pages open side by side. Opening and leaving a React page happen between
  its calls: React ignores what an unmounted page is told.
* Of the bots: creating a reseller in the panel (another row), dialogues, registration, `/hapus` and the read-only commands; pub/sub mode and the other notification
  topics. The bot's consumer thread ends when Redis is unreachable at start; the model starts it
  when Redis answers.
* Wording, rendering and amounts beyond equality (except balances), and the choice of the unique code.

## 6. Plan

1. Done: the modules above.
2. Next for the models: the reseller's registration and dialogue, the bot's other topics,
   prices and contact data of billing customers.
3. Abstract specifications worth stating: an account that credits and debits, which `ResellerBot` and
   `CollectorCash` implement as long as no absolute write interferes (`BalanceFollowsLedger` and
   `CashIsAccounted` say so of their own state).
4. Theorems: every safety property is proved; liveness stays with TLC (section 4).
