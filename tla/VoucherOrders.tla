---------------------------- MODULE VoucherOrders ----------------------------
(***************************************************************************)
(* The QRIS voucher orders of payment-service: checkout, the PayHook       *)
(* webhook, manual verification, reconciliation of late payments, QR       *)
(* regeneration and the expiry sweep, over the tables voucher_orders,      *)
(* payhook_callback_logs and payment_outbox and the users of the router.   *)
(*                                                                         *)
(* One Node.js process serves every request; a request runs alone up to    *)
(* its next await, so each action below is one awaited database statement, *)
(* transaction or gRPC call together with the code that follows it.  A     *)
(* request that is waiting is the record req[r], its pc the await it is    *)
(* at.  Request r writes at most one row of payhook_callback_logs, logs[r].*)
(***************************************************************************)
EXTENDS Integers, FiniteSets

CONSTANTS
  MaxOrders,    \* bound: orders ever created, numbered in createdAt order
  MaxRequests,  \* bound: requests ever received, numbered in order of arrival
  Amounts,      \* unique amounts price + uniqueCode that createOrder can draw
  NoAmount,     \* normalizeAmount's null
  Events,       \* PayHook event ids
  NoEvent,      \* a callback that carries no event_id
  Deliveries,   \* payloads PayHook may deliver, each any number of times
  Users,        \* voucher usernames randomStr can draw
  NoUser        \* voucherUsername is null

ASSUME BoundsAssumption == MaxOrders \in Nat /\ MaxRequests \in Nat
ASSUME NullsAssumption ==
  NoAmount \notin Amounts /\ NoEvent \notin Events /\ NoUser \notin Users
ASSUME DeliveriesAssumption ==
  Deliveries \subseteq [event : Events \cup {NoEvent},
                        amount : Amounts \cup {NoAmount}]

Orders == 1 .. MaxOrders
NoOrder == 0
Requests == 1 .. MaxRequests
NoRequest == 0

VARIABLES
  status,       \* voucher_orders.status; "none" and "deleted" have no row
  amount,       \* voucher_orders.uniqueAmount
  creds,        \* voucher_orders.voucherUsername
  age,          \* expiresAt and the retention window against the clock
  logs,         \* payhook_callback_logs, by the request that wrote the row
  outbox,       \* payment_outbox rows
  router,       \* hotspot users that exist on the MikroTik router
  req,          \* requests in progress
  sweeping,     \* the sweep has expired orders and not yet pruned them
  overwritten   \* history: orders a QR save wrote stale columns over

vars == <<status, amount, creds, age, logs, outbox, router, req, sweeping,
          overwritten>>

Topics == {"ORDER_SETTLED", "ORDER_PAID"}

OrderStatus == {"none", "creating", "pending", "processing", "paid",
                "expired", "deleted"}

NoLog == [event |-> NoEvent, amount |-> NoAmount, order |-> NoOrder,
          rec |-> "absent", note |-> "received"]

LogRow == [event : Events \cup {NoEvent}, amount : Amounts \cup {NoAmount},
           order : Orders \cup {NoOrder},
           rec : {"absent", "none", "candidate", "reconciled"},
           note : {"received", "settled", "failed", "routerFailed"}]

OutboxRow == [topic : Topics, order : Orders, user : Users, by : Requests]

\* The await a request is at.
Awaits == {"new", "lookup", "matchExpired", "saveUnmatched", "read", "claim",
           "refetch", "router", "commit", "undo", "settled", "failed",
           "routerFailed", "saveQr", "done"}

Request == [kind : {"none", "webhook", "manual", "reconcile", "regenerate"},
            pc : Awaits,
            order : Orders \cup {NoOrder},
            event : Events \cup {NoEvent},
            amount : Amounts \cup {NoAmount},
            log : Requests \cup {NoRequest},
            user : Users \cup {NoUser},
            rec : {"none", "candidate"}]

NewRequest == [kind |-> "none", pc |-> "new", order |-> NoOrder,
               event |-> NoEvent, amount |-> NoAmount, log |-> NoRequest,
               user |-> NoUser, rec |-> "none"]

TypeOK ==
  /\ status \in [Orders -> OrderStatus]
  /\ amount \in [Orders -> Amounts \cup {NoAmount}]
  /\ creds \in [Orders -> Users \cup {NoUser}]
  /\ age \in [Orders -> {"live", "lapsed", "aged"}]
  /\ logs \in [Requests -> LogRow]
  /\ outbox \subseteq OutboxRow
  /\ router \subseteq Users
  /\ req \in [Requests -> Request]
  /\ sweeping \in BOOLEAN
  /\ overwritten \subseteq Orders

Init ==
  /\ status = [o \in Orders |-> "none"]
  /\ amount = [o \in Orders |-> NoAmount]
  /\ creds = [o \in Orders |-> NoUser]
  /\ age = [o \in Orders |-> "live"]
  /\ logs = [r \in Requests |-> NoLog]
  /\ outbox = {}
  /\ router = {}
  /\ req = [r \in Requests |-> NewRequest]
  /\ sweeping = FALSE
  /\ overwritten = {}

-----------------------------------------------------------------------------
(* Queries *)

InFlight(r) == req[r].pc \notin {"new", "done"}

\* Orders a payment of amount a can match: pending and expiresAt > now.
LivePending(a) ==
  {o \in Orders : status[o] = "pending" /\ amount[o] = a /\ age[o] = "live"}

ExpiredWith(a) == {o \in Orders : status[o] = "expired" /\ amount[o] = a}

Row(o) == status[o] \notin {"none", "creating", "deleted"}

IsPaid(o) == status[o] = "paid" /\ creds[o] # NoUser

\* A redelivered event whose row is matched to a paid order.
AlreadyProcessed(e) ==
  /\ e # NoEvent
  /\ \E l \in Requests :
       /\ logs[l].event = e
       /\ logs[l].order # NoOrder
       /\ status[logs[l].order] = "paid"

\* The unique index on eventId admits a row for event e.
Insertable(e) == e = NoEvent \/ \A l \in Requests : logs[l].event # e

\* Requests are numbered as they arrive.
Arrives(r) == /\ req[r].pc = "new"
              /\ \A q \in Requests : q < r => req[q].pc # "new"

Goto(r, pc) == req' = [req EXCEPT ![r].pc = pc]

\* The request answers; nothing of it is kept.
Answer(r) == req' = [req EXCEPT ![r] = [NewRequest EXCEPT !.pc = "done"]]

\* Mutant: after a refused router call the order is "failed", a status no
\* request and no sweep takes it out of.
StoredAsFailed(o, s) ==
  [status EXCEPT ![o] = IF s = "pending" THEN "failed" ELSE s]

\* UPDATE voucher_orders SET status WHERE id: no row, no effect.
Stored(o, s) == IF status[o] = "deleted" THEN status
                ELSE [status EXCEPT ![o] = s]

\* logRepo.save of a new row; on a duplicate eventId the save throws.
SaveLog(r, e, a, o, rec, note) ==
  logs' = IF Insertable(e)
          THEN [logs EXCEPT ![r] = [event |-> e, amount |-> a, order |-> o,
                                    rec |-> rec, note |-> note]]
          ELSE logs

-----------------------------------------------------------------------------
(* Checkout.  The clash check and the insert are separate statements of a  *)
(* READ COMMITTED transaction; the check sees committed pending orders.    *)

BeginCreate(o, a) ==
  /\ status[o] = "none"
  /\ \A p \in Orders : p < o => status[p] # "none"
  /\ LivePending(a) = {}
  /\ status' = [status EXCEPT ![o] = "creating"]
  /\ amount' = [amount EXCEPT ![o] = a]
  /\ UNCHANGED <<creds, age, logs, outbox, router, req, sweeping, overwritten>>

InsertOrder(o) ==
  /\ status[o] = "creating"
  /\ status' = [status EXCEPT ![o] = "pending"]
  /\ UNCHANGED <<amount, creds, age, logs, outbox, router, req, sweeping,
                 overwritten>>

-----------------------------------------------------------------------------
(* The PayHook webhook, up to the call of settleOrder. *)

ReceiveWebhook(r, d) ==
  /\ Arrives(r)
  /\ ~AlreadyProcessed(d.event)
  /\ IF d.amount = NoAmount
     THEN /\ Answer(r)
          /\ SaveLog(r, d.event, NoAmount, NoOrder, "none", "received")
     ELSE /\ req' = [req EXCEPT ![r] =
                       [NewRequest EXCEPT !.kind = "webhook", !.pc = "lookup",
                                          !.event = d.event,
                                          !.amount = d.amount]]
          /\ UNCHANGED logs
  /\ UNCHANGED <<status, amount, creds, age, outbox, router, sweeping,
                 overwritten>>

\* The oldest live pending order of that amount, if there is one.
Lookup(r) ==
  /\ req[r].pc = "lookup"
  /\ LET live == LivePending(req[r].amount)
     IN  IF live = {}
         THEN Goto(r, "matchExpired")
         ELSE \E o \in live :
                /\ \A p \in live : o <= p
                /\ req' = [req EXCEPT ![r] = [@ EXCEPT !.pc = "claim", !.order = o]]
  /\ UNCHANGED <<status, amount, creds, age, logs, outbox, router, sweeping,
                 overwritten>>

MatchExpired(r) ==
  /\ req[r].pc = "matchExpired"
  /\ LET rec == IF \E o \in Orders : ExpiredWith(req[r].amount) = {o}
                THEN "candidate" ELSE "none"
     IN  req' = [req EXCEPT ![r] = [@ EXCEPT !.pc = "saveUnmatched",
                                            !.rec = rec]]
  /\ UNCHANGED <<status, amount, creds, age, logs, outbox, router, sweeping,
                 overwritten>>

SaveUnmatched(r) ==
  /\ req[r].pc = "saveUnmatched"
  /\ SaveLog(r, req[r].event, req[r].amount, NoOrder, req[r].rec,
             "received")
  /\ Answer(r)
  /\ UNCHANGED <<status, amount, creds, age, outbox, router, sweeping,
                 overwritten>>

-----------------------------------------------------------------------------
(* Reconciliation of a late payment and manual verification, up to the     *)
(* call of settleOrder.  A request refused before it writes changes        *)
(* nothing and is not a step.                                              *)

BeginReconcile(r, l, o) ==
  /\ Arrives(r)
  /\ logs[l].rec = "candidate"
  /\ logs[l].order = NoOrder
  /\ status[o] = "expired"
  /\ amount[o] = logs[l].amount
  /\ ExpiredWith(logs[l].amount) = {o}
  /\ logs' = [logs EXCEPT ![l].order = o, ![l].rec = "reconciled"]
  /\ status' = [status EXCEPT ![o] = "pending"]
  /\ req' = [req EXCEPT ![r] =
               [NewRequest EXCEPT !.kind = "reconcile", !.pc = "read",
                                  !.order = o, !.log = l]]
  /\ UNCHANGED <<amount, creds, age, outbox, router, sweeping, overwritten>>

\* getOrder after the transaction; a missing order is refused without the
\* compensation of FinishReconcile.
ReadReconciled(r) ==
  /\ req[r].pc = "read"
  /\ LET o == req[r].order
     IN  IF Row(o)
         THEN Goto(r, IF IsPaid(o) THEN "settled" ELSE "claim")
         ELSE Answer(r)
  /\ UNCHANGED <<status, amount, creds, age, logs, outbox, router, sweeping,
                 overwritten>>

VerifyManually(r, o) ==
  /\ Arrives(r)
  /\ Row(o)
  /\ req' = [req EXCEPT ![r] =
               [NewRequest EXCEPT !.kind = "manual", !.order = o,
                  !.pc = IF IsPaid(o) THEN "settled" ELSE "claim"]]
  /\ UNCHANGED <<status, amount, creds, age, logs, outbox, router, sweeping,
                 overwritten>>

-----------------------------------------------------------------------------
(* settleOrder *)

\* Mutant: the claim only looks for an order that is not paid yet.
UnpaidIsClaimable(o) == status[o] \notin {"paid", "deleted"}

Claimable(o) == status[o] = "pending"

\* UPDATE ... SET processing WHERE id AND status = pending, then fresh
\* random credentials for the router call.
Claim(r) ==
  /\ req[r].pc = "claim"
  /\ LET o == req[r].order
     IN  \/ /\ Claimable(o)
            /\ status' = [status EXCEPT ![o] = "processing"]
            /\ \E u \in Users :
                 req' = [req EXCEPT ![r] = [@ EXCEPT !.pc = "router", !.user = u]]
         \/ /\ ~Claimable(o)
            /\ Goto(r, "refetch")
            /\ UNCHANGED status
  /\ UNCHANGED <<amount, creds, age, logs, outbox, router, sweeping,
                 overwritten>>

Refetch(r) ==
  /\ req[r].pc = "refetch"
  /\ Goto(r, IF IsPaid(req[r].order) THEN "settled" ELSE "failed")
  /\ UNCHANGED <<status, amount, creds, age, logs, outbox, router, sweeping,
                 overwritten>>

\* AddHotspotUser succeeds, or the name is taken, which the client takes for
\* success.
RouterAdds(r) ==
  /\ req[r].pc = "router"
  /\ router' = router \cup {req[r].user}
  /\ Goto(r, "commit")
  /\ UNCHANGED <<status, amount, creds, age, logs, outbox, sweeping,
                 overwritten>>

\* Mutant: the result of the router call is not looked at.
RouterFailureIgnored(r) ==
  /\ req[r].pc = "router"
  /\ Goto(r, "commit")
  /\ UNCHANGED <<status, amount, creds, age, logs, outbox, router, sweeping,
                 overwritten>>

\* The call is refused or meets its deadline; the router may have created
\* the user before the deadline.
RouterFails(r) ==
  /\ req[r].pc = "router"
  /\ router' \in {router, router \cup {req[r].user}}
  /\ Goto(r, "undo")
  /\ UNCHANGED <<status, amount, creds, age, logs, outbox, sweeping,
                 overwritten>>

\* Mutant: only the sale is enqueued.
SaleRow(o, u, r) ==
  [topic : {"ORDER_SETTLED"}, order : {o}, user : {u}, by : {r}]

\* The two rows settleOrder enqueues for order o, user u.
SettlementRows(o, u, r) == [topic : Topics, order : {o}, user : {u}, by : {r}]

\* The transaction that marks the order paid and enqueues both events.
Commit(r) ==
  /\ req[r].pc = "commit"
  /\ LET o == req[r].order
         u == req[r].user
     IN  /\ status' = Stored(o, "paid")
         /\ creds' = IF status[o] = "deleted" THEN creds
                     ELSE [creds EXCEPT ![o] = u]
         /\ outbox' = outbox \cup SettlementRows(o, u, r)
  /\ Goto(r, "settled")
  /\ UNCHANGED <<amount, age, logs, router, sweeping, overwritten>>

\* The router refused: the order is put back, whatever its status is now.
Undo(r) ==
  /\ req[r].pc = "undo"
  /\ status' = Stored(req[r].order, "pending")
  /\ Goto(r, "routerFailed")
  /\ UNCHANGED <<amount, creds, age, logs, outbox, router, sweeping,
                 overwritten>>

\* A statement of settleOrder throws and has no effect.
DatabaseError(r) ==
  /\ req[r].pc \in {"claim", "commit", "undo"}
  /\ Goto(r, "failed")
  /\ UNCHANGED <<status, amount, creds, age, logs, outbox, router, sweeping,
                 overwritten>>

-----------------------------------------------------------------------------
(* What the caller of settleOrder does with its outcome. *)

\* Success and failure both save the matched row; when the save throws the
\* catch block saves again and throws again.
FinishWebhook(r) ==
  /\ req[r].kind = "webhook"
  /\ req[r].pc \in {"settled", "failed", "routerFailed"}
  /\ SaveLog(r, req[r].event, req[r].amount, req[r].order, "none", req[r].pc)
  /\ Answer(r)
  /\ UNCHANGED <<status, amount, creds, age, outbox, router, sweeping,
                 overwritten>>

FinishManual(r) ==
  /\ req[r].kind = "manual"
  /\ \/ /\ req[r].pc = "settled"
        /\ SaveLog(r, NoEvent, amount[req[r].order], req[r].order, "none",
                   "settled")
     \/ /\ req[r].pc \in {"failed", "routerFailed"}
        /\ UNCHANGED logs
  /\ Answer(r)
  /\ UNCHANGED <<status, amount, creds, age, outbox, router, sweeping,
                 overwritten>>

\* The callback rows once row l, if order o holds it, is given back.
Released(l, o) ==
  IF logs[l].order = o /\ logs[l].rec = "reconciled"
  THEN [logs EXCEPT ![l].order = NoOrder, ![l].rec = "candidate"]
  ELSE logs

\* On failure one transaction releases the candidate and expires the order
\* if nobody else has taken it.
FinishReconcile(r) ==
  /\ req[r].kind = "reconcile"
  /\ LET o == req[r].order
         l == req[r].log
     IN  \/ /\ req[r].pc = "settled"
            /\ UNCHANGED <<logs, status>>
         \/ /\ req[r].pc \in {"failed", "routerFailed"}
            /\ logs' = Released(l, o)
            /\ status' = IF status[o] = "pending"
                         THEN [status EXCEPT ![o] = "expired"]
                         ELSE status
  /\ Answer(r)
  /\ UNCHANGED <<amount, creds, age, outbox, router, sweeping, overwritten>>

-----------------------------------------------------------------------------
(* regenerateQr reads the order, awaits the QR image and saves the entity. *)
(* TypeORM's save compares the entity with the row as it is by then and    *)
(* writes every column that differs: the status and voucher it read come   *)
(* back, and a deleted row is inserted again.                              *)

BeginRegenerate(r, o) ==
  /\ Arrives(r)
  /\ status[o] = "pending"
  /\ req' = [req EXCEPT ![r] =
               [NewRequest EXCEPT !.kind = "regenerate", !.pc = "saveQr",
                                  !.order = o, !.user = creds[o]]]
  /\ UNCHANGED <<status, amount, creds, age, logs, outbox, router, sweeping,
                 overwritten>>

SaveQr(r) ==
  /\ req[r].pc = "saveQr"
  /\ LET o == req[r].order
     IN  /\ status' = [status EXCEPT ![o] = "pending"]
         /\ creds' = [creds EXCEPT ![o] = req[r].user]
         /\ overwritten' = IF status[o] = "pending" THEN overwritten
                           ELSE overwritten \cup {o}
  /\ Answer(r)
  /\ UNCHANGED <<amount, age, logs, outbox, router, sweeping>>

-----------------------------------------------------------------------------
(* The sweep (every 60 s, one at a time), the clock and crashes. *)

\* Mutants: the sweep expires whatever is past its expiry, or only what is
\* pending.
Unpruned(o) == status[o] \in {"pending", "processing", "paid"}
PendingOnly(o) == status[o] = "pending"

Expirable(o) == status[o] \in {"pending", "processing"}

ExpireStaleOrders ==
  /\ ~sweeping
  /\ status' = [o \in Orders |->
                  IF Expirable(o) /\ age[o] # "live"
                  THEN "expired" ELSE status[o]]
  /\ sweeping' = TRUE
  /\ UNCHANGED <<amount, creds, age, logs, outbox, router, req, overwritten>>

\* Nothing is deleted when the retention is switched off or the DELETE fails.
PruneOldUnpaidOrders ==
  /\ sweeping
  /\ \/ UNCHANGED status
     \/ status' = [o \in Orders |->
                     IF status[o] = "expired" /\ age[o] = "aged"
                     THEN "deleted" ELSE status[o]]
  /\ sweeping' = FALSE
  /\ UNCHANGED <<amount, creds, age, logs, outbox, router, req, overwritten>>

\* expiresAt passes.
Lapse(o) ==
  /\ Row(o)
  /\ age[o] = "live"
  /\ age' = [age EXCEPT ![o] = "lapsed"]
  /\ UNCHANGED <<status, amount, creds, logs, outbox, router, req, sweeping,
                 overwritten>>

\* The retention window passes.  It is days long, the sweep runs every
\* minute, the expiry is at most an hour and a request lives at most a
\* minute: by that moment the sweep has seen o and no request is in flight
\* on it (a reconciliation may start on o afterwards).
AgeOut(o) ==
  /\ status[o] \in {"expired", "paid"}
  /\ age[o] = "lapsed"
  /\ \A r \in Requests : InFlight(r) => req[r].order # o
  /\ age' = [age EXCEPT ![o] = "aged"]
  /\ UNCHANGED <<status, amount, creds, logs, outbox, router, req, sweeping,
                 overwritten>>

\* The process dies and restarts: requests in flight are gone, what they
\* committed stays, an open checkout transaction rolls back.
Crash ==
  /\ \/ \E r \in Requests : InFlight(r)
     \/ sweeping
     \/ \E o \in Orders : status[o] = "creating"
  /\ status' = [o \in Orders |-> IF status[o] = "creating" THEN "none"
                                 ELSE status[o]]
  /\ req' = [r \in Requests |-> IF InFlight(r)
                                THEN [NewRequest EXCEPT !.pc = "done"]
                                ELSE req[r]]
  /\ sweeping' = FALSE
  /\ UNCHANGED <<amount, creds, age, logs, outbox, router, overwritten>>

-----------------------------------------------------------------------------

RequestStep(r) ==
  \/ \E d \in Deliveries : ReceiveWebhook(r, d)
  \/ \E l \in Requests, o \in Orders : BeginReconcile(r, l, o)
  \/ \E o \in Orders : VerifyManually(r, o)
  \/ \E o \in Orders : BeginRegenerate(r, o)
  \/ Lookup(r) \/ MatchExpired(r) \/ SaveUnmatched(r) \/ ReadReconciled(r)
  \/ Claim(r) \/ Refetch(r) \/ RouterAdds(r) \/ RouterFails(r)
  \/ Commit(r) \/ Undo(r) \/ DatabaseError(r)
  \/ FinishWebhook(r) \/ FinishManual(r) \/ FinishReconcile(r)
  \/ SaveQr(r)

Next ==
  \/ \E o \in Orders, a \in Amounts : BeginCreate(o, a)
  \/ \E o \in Orders : InsertOrder(o)
  \/ \E r \in Requests : RequestStep(r)
  \/ ExpireStaleOrders
  \/ PruneOldUnpaidOrders
  \/ \E o \in Orders : Lapse(o) \/ AgeOut(o)
  \/ Crash

Spec == Init /\ [][Next]_vars

\* The clock advances and the sweep's timer fires, in this process or in the
\* one that replaces it after a crash.
Fairness ==
  /\ WF_vars(ExpireStaleOrders)
  /\ WF_vars(PruneOldUnpaidOrders)
  /\ \A o \in Orders : WF_vars(Lapse(o))

FairSpec == Spec /\ Fairness

-----------------------------------------------------------------------------
(* Properties *)

\* Requests between their claim on order o and its commit or undo.
Settlers(o) == {r \in Requests : /\ req[r].order = o
                                 /\ req[r].pc \in {"router", "commit", "undo"}}

\* Settlements of order o that were committed.
SettledBy(o) == {r \in Requests : \E u \in Users :
                   [topic |-> "ORDER_SETTLED", order |-> o, user |-> u,
                    by |-> r] \in outbox}

\* The order is past its expiry, or a QR save wrote over its row.
Disturbed(o) == age[o] # "live" \/ o \in overwritten

\* Until it is disturbed, an order has at most one settlement in progress,
\* of any mix of webhooks, manual verifications and reconciliations, and
\* none once it is paid: the conditional UPDATE of settleOrder is the lock.
OneSettlerAtATime ==
  \A o \in Orders : ~Disturbed(o) =>
    /\ \A r, s \in Settlers(o) : r = s
    /\ status[o] = "paid" => Settlers(o) = {}

\* Until it is disturbed, an order is sold at most once (one voucher is
\* handed to the outbox), and once sold it is paid.
SoldOnce ==
  \A o \in Orders : ~Disturbed(o) =>
    /\ \A r, s \in SettledBy(o) : r = s
    /\ SettledBy(o) # {} => status[o] = "paid"

\* Whatever expiry, failure or crash did, the voucher of a paid order, and
\* of every event handed to the outbox, exists on the router.
VoucherIsOnRouter ==
  /\ \A o \in Orders : status[o] = "paid" => creds[o] \in router
  /\ \A row \in outbox : row.user \in router

\* A paid order and its two outbox rows are committed together: neither
\* event is missing for a paid order, and neither row is there alone.
PaidIsAnnounced ==
  /\ \A o \in Orders : status[o] = "paid" =>
       \E row \in outbox : row.order = o /\ row.user = creds[o]
  /\ \A row \in outbox, t \in Topics : [row EXCEPT !.topic = t] \in outbox

\* Nothing but a settlement or a QR save already under way takes an order
\* out of "paid": the sweep, a new webhook, a reconciliation and a crash
\* leave it alone.
PaidIsFinal ==
  [][\A o \in Orders :
       /\ status[o] = "paid"
       /\ Settlers(o) = {}
       /\ \A r \in Requests : req[r].pc = "saveQr" => req[r].order # o
       => status'[o] = "paid"]_vars

\* An order does not stay "processing": if its request dies, the sweep
\* expires it.
ProcessingEnds ==
  \A o \in Orders : (status[o] = "processing") ~> (status[o] # "processing")

(* A claim of the repository's text that the code does not keep.           *)

\* "PayHook callbacks use event_id as a unique idempotency key"
\* (PAYMENT-RELIABILITY.md): deliveries of one event never settle two orders.
EventSettlesOneOrder ==
  \A r, s \in Requests :
    /\ req[r].event # NoEvent /\ req[r].event = req[s].event
    /\ {req[r].pc, req[s].pc} \subseteq {"router", "commit", "settled"}
    => req[r].order = req[s].order
=============================================================================
