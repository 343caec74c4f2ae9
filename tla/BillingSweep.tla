----------------------------- MODULE BillingSweep -----------------------------
(***************************************************************************)
(* Monthly billing in payment-service: the sweep of BillingSchedulerService *)
(* (every minute, one at a time) and the operator's requests of            *)
(* BillingController on one subscriber and one monthly invoice, with the   *)
(* router that blocks the subscriber and the Redis events that tell him.   *)
(* The subscriber has a Telegram id and a router user and autoDisable is   *)
(* on; other subscribers and invoices only add awaits in between.          *)
(*                                                                         *)
(* A worker is the sweep or a request; its pc is the await it is at.       *)
(* TypeORM's save writes every column in which the entity differs from the *)
(* row as it is by then, so a save puts back the whole invoice a worker    *)
(* read (worker[w].read), except where the read locked the row.            *)
(***************************************************************************)
EXTENDS Integers, FiniteSets

CONSTANTS
  MaxDay,        \* bound: days the model lasts
  ReminderDays,  \* days on which daysLeft is one of reminderDays
  LateDay,       \* first day on which daysLate >= graceDays
  MaxRequests,   \* bound: requests of operators, numbered as they arrive
  MaxFaults      \* bound: crashes, lost answers and database errors

Days == 1 .. MaxDay

ASSUME DaysAssumption ==
  /\ MaxDay \in Nat \ {0}
  /\ ReminderDays \subseteq Days
  /\ LateDay \in Nat
ASSUME BoundsAssumption == MaxRequests \in Nat /\ MaxFaults \in Nat

Sweep == 0
Requests == 1 .. MaxRequests
Workers == {Sweep} \cup Requests

VARIABLES
  day,        \* the calendar
  invoice,    \* the row of billing_invoices
  customer,   \* billing_customers.status
  blocked,    \* the router has disabled the subscriber
  worker,     \* the sweep and the requests in progress
  published,  \* history: publications of the sweep, by the day of the claim
  told,       \* history: billing.invoice.overdue was published
  ordered,    \* history: an operator asked for a suspension
  faults

vars == <<day, invoice, customer, blocked, worker, published, told, ordered,
          faults>>

\* An entry of reminderSent or overdueNotificationSent: the timestamp of a
\* message sent, or the claim token of a worker.
Nobody == -1
Mark == [day : Days, by : {Nobody} \cup Workers]
Token(w, d) == [day |-> d, by |-> w]
Sent(d) == Token(Nobody, d)
NoToken == Sent(1)

Invoice == [status : {"none", "unpaid", "overdue", "paid"},
            reminders : SUBSET Mark, overdueMarks : SUBSET Mark]
NoInvoice == [status |-> "none", reminders |-> {}, overdueMarks |-> {}]

Standing == {"active", "suspended"}

\* The await a worker is at.
Awaits == {"idle", "done", "generate", "listReminders", "claimReminder",
           "publishReminder", "confirmReminder", "rollbackReminder",
           "listOverdue", "flag", "disable", "saveSuspended", "claimOverdue",
           "saveClaim", "publishOverdue", "settleOverdue", "saveSettled",
           "savePaid", "readCustomer", "enable", "saveActive"}

Worker == [pc : Awaits, read : Invoice, standing : Standing, token : Mark,
           accepted : BOOLEAN]
Idle == [pc |-> "idle", read |-> NoInvoice,
         standing |-> "active", token |-> NoToken, accepted |-> FALSE]

TypeOK ==
  /\ day \in Days
  /\ invoice \in Invoice
  /\ customer \in Standing
  /\ blocked \in BOOLEAN
  /\ worker \in [Workers -> Worker]
  /\ published \in [Days -> Nat]
  /\ told \in BOOLEAN
  /\ ordered \in BOOLEAN
  /\ faults \in 0 .. MaxFaults

Init ==
  /\ day = 1
  /\ invoice = NoInvoice
  /\ customer = "active"
  /\ blocked = FALSE
  /\ worker = [w \in Workers |-> Idle]
  /\ published = [d \in Days |-> 0]
  /\ told = FALSE
  /\ ordered = FALSE
  /\ faults = 0

At(w, pc) == worker[w].pc = pc
Goto(w, pc) == worker' = [worker EXCEPT ![w].pc = pc]

\* The worker has saved the invoice it read, and goes on.
Saved(w, pc) == worker' = [worker EXCEPT ![w].pc = pc, ![w].read = NoInvoice]

\* The worker is finished: the sweep waits for its timer, a request is over.
Ended(w) == IF w = Sweep THEN Idle ELSE [Idle EXCEPT !.pc = "done"]
End(w) == worker' = [worker EXCEPT ![w] = Ended(w)]

Fault == faults < MaxFaults /\ faults' = faults + 1

\* An action on worker w that changes no history and meets no fault.
Plain == UNCHANGED <<day, published, told, ordered, faults>>

-----------------------------------------------------------------------------
(* The sweep begins; it generates the month's invoice, once per period.    *)

StartSweep ==
  /\ At(Sweep, "idle")
  /\ worker' = [worker EXCEPT ![Sweep] =
                  [Idle EXCEPT !.pc = "generate"]]
  /\ UNCHANGED <<invoice, customer, blocked>> /\ Plain

GenerateInvoice ==
  /\ At(Sweep, "generate")
  /\ invoice' = IF invoice.status = "none" /\ customer = "active"
                THEN [invoice EXCEPT !.status = "unpaid"] ELSE invoice
  /\ Goto(Sweep, "listReminders")
  /\ UNCHANGED <<customer, blocked>> /\ Plain

-----------------------------------------------------------------------------
(* Reminders: claim, publish, confirm or roll back.                        *)

\* getRemindableInvoices looks at timestamps only, not at claims.
Remindable == /\ invoice.status = "unpaid"
              /\ day \in ReminderDays
              /\ Sent(day) \notin invoice.reminders

ListReminders ==
  /\ At(Sweep, "listReminders")
  /\ Goto(Sweep, IF Remindable THEN "claimReminder" ELSE "listOverdue")
  /\ UNCHANGED <<invoice, customer, blocked>> /\ Plain

\* Mutant: claims of today do not count.
NotSentToday == Sent(day) \notin invoice.reminders

\* Neither a timestamp nor a claim of today.
Unclaimed == \A m \in invoice.reminders : m.day # day

\* claimReminder: a transaction that locks the row.  What follows when the
\* claim is not given: the sweep goes on, send-reminder answers.
ClaimReminder(w) ==
  /\ At(w, "claimReminder")
  /\ IF Unclaimed
     THEN /\ invoice' = [invoice EXCEPT !.reminders = @ \cup {Token(w, day)}]
          /\ worker' = [worker EXCEPT
               ![w].token = Token(w, day),
               ![w].pc = IF w = Sweep THEN "publishReminder"
                         ELSE "confirmReminder"]
     ELSE /\ IF w = Sweep THEN Goto(w, "listOverdue") ELSE End(w)
          /\ UNCHANGED invoice
  /\ UNCHANGED <<customer, blocked>> /\ Plain

PublishReminder(w) ==
  /\ At(w, "publishReminder")
  /\ published' = IF w = Sweep
                  THEN [published EXCEPT ![worker[w].token.day] = @ + 1]
                  ELSE published
  /\ Goto(w, IF w = Sweep THEN "confirmReminder" ELSE "claimReminder")
  /\ UNCHANGED <<day, invoice, customer, blocked, told, ordered, faults>>

\* publish returns false.  The event may have been added and the answer
\* lost, which nothing here tells apart.
ReminderFails(w) ==
  /\ At(w, "publishReminder")
  /\ IF w = Sweep THEN Goto(w, "rollbackReminder") ELSE End(w)
  /\ UNCHANGED <<invoice, customer, blocked>> /\ Plain

RemindersDone == worker' = [worker EXCEPT ![Sweep].pc = "listOverdue",
                                          ![Sweep].token = NoToken]

\* The token becomes the timestamp of the day it is by now; a token that is
\* gone is left.
ConfirmReminder(w) ==
  /\ At(w, "confirmReminder")
  /\ LET t == worker[w].token
     IN  invoice' = IF t \in invoice.reminders
                    THEN [invoice EXCEPT
                            !.reminders = (@ \ {t}) \cup {Sent(day)}]
                    ELSE invoice
  /\ IF w = Sweep THEN RemindersDone ELSE End(w)
  /\ UNCHANGED <<customer, blocked>> /\ Plain

RollbackReminder ==
  /\ At(Sweep, "rollbackReminder")
  /\ invoice' = [invoice EXCEPT !.reminders = @ \ {worker[Sweep].token}]
  /\ RemindersDone
  /\ UNCHANGED <<customer, blocked>> /\ Plain

-----------------------------------------------------------------------------
(* Overdue invoices: flag, disable on the router, save, notify.            *)

\* Mutants: the grace period is not awaited; the status is not looked at.
UnpaidIsLate == invoice.status = "unpaid"
WhateverIsLate == invoice.status # "none" /\ day >= LateDay

Late == invoice.status = "unpaid" /\ day >= LateDay

\* getOverdueCustomers reads the subscribers and the unpaid invoices.
ListOverdue(w) ==
  /\ At(w, "listOverdue")
  /\ IF Late
     THEN worker' = [worker EXCEPT ![w].pc = "flag", ![w].read = invoice,
                                   ![w].standing = customer]
     ELSE End(w)
  /\ UNCHANGED <<invoice, customer, blocked>> /\ Plain

\* It saves each of them as "overdue", as it was read.
FlagOverdue(w) ==
  /\ At(w, "flag")
  /\ invoice' = [worker[w].read EXCEPT !.status = "overdue"]
  /\ IF worker[w].standing = "active" THEN Saved(w, "disable")
     ELSE IF w = Sweep THEN Saved(w, "claimOverdue") ELSE End(w)
  /\ UNCHANGED <<customer, blocked>> /\ Plain

Disable(w) ==
  /\ At(w, "disable")
  /\ blocked' = TRUE
  /\ Goto(w, "saveSuspended")
  /\ UNCHANGED <<invoice, customer>> /\ Plain

\* The router refuses, or has done it and the answer is late.
DisableFails(w) ==
  /\ At(w, "disable")
  /\ \/ UNCHANGED <<blocked, faults>>
     \/ Fault /\ blocked' = TRUE
  /\ End(w)
  /\ UNCHANGED <<day, invoice, customer, published, told, ordered>>

\* Mutant: a status that nothing in the controller or the sweep looks for.
SaveDisabled(w) ==
  /\ At(w, "saveSuspended")
  /\ customer' = "disabled"
  /\ End(w)
  /\ UNCHANGED <<invoice, blocked>> /\ Plain

SaveSuspended(w) ==
  /\ At(w, "saveSuspended")
  /\ customer' = "suspended"
  /\ IF w = Sweep THEN Goto(w, "claimOverdue") ELSE End(w)
  /\ UNCHANGED <<invoice, blocked>> /\ Plain

\* claimOverdueNotification reads without a lock; a claim of today does not
\* keep it from claiming.  Without a claim the sweep publishes as well.
ClaimOverdue ==
  /\ At(Sweep, "claimOverdue")
  /\ IF invoice.status = "overdue" /\ Sent(day) \notin invoice.overdueMarks
     THEN worker' = [worker EXCEPT ![Sweep].pc = "saveClaim",
                                   ![Sweep].read = invoice,
                                   ![Sweep].token = Token(Sweep, day)]
     ELSE worker' = [worker EXCEPT ![Sweep].pc = "publishOverdue",
                                   ![Sweep].token = NoToken]
  /\ UNCHANGED <<invoice, customer, blocked>> /\ Plain

SaveClaim ==
  /\ At(Sweep, "saveClaim")
  /\ invoice' = [worker[Sweep].read EXCEPT
                   !.overdueMarks = @ \cup {worker[Sweep].token}]
  /\ Saved(Sweep, "publishOverdue")
  /\ UNCHANGED <<customer, blocked>> /\ Plain

\* With no token, confirm and rollback return at once.
AfterPublish(ok) ==
  IF worker[Sweep].token = NoToken THEN End(Sweep)
  ELSE worker' = [worker EXCEPT ![Sweep].pc = "settleOverdue",
                                ![Sweep].accepted = ok]

PublishOverdue ==
  /\ At(Sweep, "publishOverdue")
  /\ told' = TRUE
  /\ AfterPublish(TRUE)
  /\ UNCHANGED <<day, invoice, customer, blocked, published, ordered, faults>>

OverdueFails ==
  /\ At(Sweep, "publishOverdue")
  /\ \/ UNCHANGED <<told, faults>>
     \/ Fault /\ told' = TRUE
  /\ AfterPublish(FALSE)
  /\ UNCHANGED <<day, invoice, customer, blocked, published, ordered>>

\* confirmOverdueNotification and rollbackOverdueNotification read the
\* invoices that are overdue, and save the one that holds the token.
SettleOverdue ==
  /\ At(Sweep, "settleOverdue")
  /\ IF /\ invoice.status = "overdue"
        /\ worker[Sweep].token \in invoice.overdueMarks
     THEN worker' = [worker EXCEPT ![Sweep].pc = "saveSettled",
                                   ![Sweep].read = invoice]
     ELSE End(Sweep)
  /\ UNCHANGED <<invoice, customer, blocked>> /\ Plain

SaveSettled ==
  /\ At(Sweep, "saveSettled")
  /\ invoice' = [worker[Sweep].read EXCEPT
                   !.overdueMarks = (@ \ {worker[Sweep].token}) \cup
                     IF worker[Sweep].accepted THEN {Sent(day)} ELSE {}]
  /\ End(Sweep)
  /\ UNCHANGED <<customer, blocked>> /\ Plain

-----------------------------------------------------------------------------
(* The operator's requests. *)

Begin(r, request) ==
  /\ At(r, "idle")
  /\ \A q \in Requests : q < r => ~At(q, "idle")
  /\ worker' = [worker EXCEPT ![r] = request]
  /\ UNCHANGED <<invoice, customer, blocked>>

\* payInvoice reads the invoice and refuses one that is paid.
PayInvoice(r) ==
  /\ invoice.status \in {"unpaid", "overdue"}
  /\ Begin(r, [Idle EXCEPT !.pc = "savePaid", !.read = invoice]) /\ Plain

SavePaid(r) ==
  /\ At(r, "savePaid")
  /\ invoice' = [worker[r].read EXCEPT !.status = "paid"]
  /\ Saved(r, "readCustomer")
  /\ UNCHANGED <<customer, blocked>> /\ Plain

\* A suspended subscriber is enabled again.
ReadCustomer(r) ==
  /\ At(r, "readCustomer")
  /\ IF customer = "suspended" THEN Goto(r, "enable") ELSE End(r)
  /\ UNCHANGED <<invoice, customer, blocked>> /\ Plain

Enable(r) ==
  /\ At(r, "enable")
  /\ blocked' = FALSE
  /\ Goto(r, "saveActive")
  /\ UNCHANGED <<invoice, customer>> /\ Plain

EnableFails(r) ==
  /\ At(r, "enable")
  /\ \/ UNCHANGED <<blocked, faults>>
     \/ Fault /\ blocked' = FALSE
  /\ End(r)
  /\ UNCHANGED <<day, invoice, customer, published, told, ordered>>

SaveActive(r) ==
  /\ At(r, "saveActive")
  /\ customer' = "active"
  /\ End(r)
  /\ UNCHANGED <<invoice, blocked>> /\ Plain

\* send-reminder publishes first and claims afterwards.
SendReminder(r) ==
  /\ invoice.status \in {"unpaid", "overdue"}
  /\ Begin(r, [Idle EXCEPT !.pc = "publishReminder"]) /\ Plain

RunOverdue(r) == Begin(r, [Idle EXCEPT !.pc = "listOverdue"]) /\ Plain

ReEnable(r) == Begin(r, [Idle EXCEPT !.pc = "enable"]) /\ Plain

SuspendCustomer(r) ==
  /\ Begin(r, [Idle EXCEPT !.pc = "disable"])
  /\ ordered' = TRUE
  /\ UNCHANGED <<day, published, told, faults>>

-----------------------------------------------------------------------------
(* Errors, crashes and the calendar. *)

DatabaseAwaits ==
  {"generate", "listReminders", "claimReminder", "confirmReminder",
   "rollbackReminder", "listOverdue", "flag", "saveSuspended",
   "claimOverdue", "saveClaim", "settleOverdue", "saveSettled", "savePaid",
   "readCustomer", "saveActive"}

\* Mutant: the sweep is not marked as finished when it fails.
StaysRunning(w) ==
  /\ worker[w].pc \in DatabaseAwaits
  /\ Fault
  /\ Goto(w, "done")
  /\ UNCHANGED <<day, invoice, customer, blocked, published, told, ordered>>

\* A statement throws: a request fails, the sweep ends, except that it goes
\* on after a failed generation.
DatabaseError(w) ==
  /\ worker[w].pc \in DatabaseAwaits
  /\ Fault
  /\ IF At(w, "generate") THEN Goto(w, "listReminders") ELSE End(w)
  /\ UNCHANGED <<day, invoice, customer, blocked, published, told, ordered>>

Crash ==
  /\ \E w \in Workers : worker[w].pc \notin {"idle", "done"}
  /\ Fault
  /\ worker' = [w \in Workers |-> IF At(w, "idle") THEN Idle ELSE Ended(w)]
  /\ UNCHANGED <<day, invoice, customer, blocked, published, told, ordered>>

NextDay ==
  /\ day < MaxDay
  /\ day' = day + 1
  /\ UNCHANGED <<invoice, customer, blocked, worker, published, told,
                 ordered, faults>>

-----------------------------------------------------------------------------

WorkerStep(w) ==
  \/ ClaimReminder(w) \/ PublishReminder(w) \/ ReminderFails(w)
  \/ ConfirmReminder(w) \/ ListOverdue(w) \/ FlagOverdue(w)
  \/ Disable(w) \/ DisableFails(w) \/ SaveSuspended(w)

SweepStep ==
  \/ StartSweep \/ GenerateInvoice \/ ListReminders \/ RollbackReminder
  \/ ClaimOverdue \/ SaveClaim \/ PublishOverdue \/ OverdueFails
  \/ SettleOverdue \/ SaveSettled
  \/ WorkerStep(Sweep)

RequestStep(r) ==
  \/ PayInvoice(r) \/ SavePaid(r) \/ ReadCustomer(r) \/ Enable(r)
  \/ EnableFails(r) \/ SaveActive(r) \/ SendReminder(r) \/ RunOverdue(r)
  \/ ReEnable(r) \/ SuspendCustomer(r)
  \/ WorkerStep(r)

Next == \/ SweepStep
        \/ \E r \in Requests : RequestStep(r)
        \/ \E w \in Workers : DatabaseError(w)
        \/ Crash
        \/ NextDay

Spec == Init /\ [][Next]_vars

\* The days pass, the timer fires and every await of the sweep ends; the
\* router and Redis, tried again and again, answer in the end.
Fairness == /\ WF_vars(NextDay)
            /\ WF_vars(SweepStep)
            /\ SF_vars(Disable(Sweep))
            /\ SF_vars(PublishOverdue)

FairSpec == Spec /\ Fairness

-----------------------------------------------------------------------------
(* Properties *)

\* While an invoice is unpaid the sweep publishes at most one reminder a day
\* that Redis confirms: neither a crash between claim and confirmation nor an
\* operator's reminder lets it publish a second one.  (A payment or a flag
\* that puts back the marks it read wipes a claim out; a sweep that listed
\* the invoice before may then remind of it again.)
ReminderOncePerDay ==
  invoice.status = "unpaid" => \A d \in Days : published[d] <= 1

\* Unless the operator asked for it, nobody is suspended or blocked before
\* the grace period of an unpaid invoice is over.
SuspendedOnlyWhenLate ==
  (blocked \/ customer = "suspended") /\ ~ordered => day >= LateDay

\* A paid invoice stays paid, unless a worker that read it before the
\* payment still has its save to do.
PaidIsFinal ==
  [][/\ invoice.status = "paid"
     /\ \A w \in Workers :
          worker[w].pc \in {"flag", "saveClaim", "saveSettled"}
            => worker[w].read.status = "paid"
     => invoice'.status = "paid"]_vars

\* An invoice that stays unpaid is flagged once it is late, whatever fails.
LateIsFlagged ==
  (invoice.status = "unpaid" /\ LateDay <= MaxDay) ~> (invoice.status # "unpaid")

\* "the customer is already suspended and must still be eligible for
\* notification retry on the next sweep" (billing-scheduler.service.ts): a
\* subscriber the sweep has suspended is told, unless he pays before.
OverdueNotificationRetried ==
  (At(Sweep, "publishOverdue") /\ invoice.status = "overdue")
    ~> (told \/ invoice.status = "paid")
=============================================================================
