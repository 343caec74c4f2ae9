----------------------------- MODULE CollectorCash -----------------------------
(***************************************************************************)
(* The cash collectors hold for payment-service: BillingService adds every *)
(* payment to unsettledCash of the customers that bear the payer's name,   *)
(* and a verified settlement takes it off again.  unsettledCash is a       *)
(* column of billing_customers, which panel and sweep save as a whole.     *)
(*                                                                         *)
(* A request's pc is the await it is at; rows are the customers it read    *)
(* and has still to save.  Entities reach the database by TypeORM's save,  *)
(* which writes every column in which the entity differs from the row of   *)
(* that moment, and inserts the row again when it is gone.                 *)
(*                                                                         *)
(* What PaymentEvents names too has another name here: the two are         *)
(* reasoned about in one module, PaymentServiceProofs.                     *)
(***************************************************************************)
EXTENDS Integers, FiniteSets

CONSTANTS
  Customers,     \* ids of billing_customers
  Names,         \* names of customers
  Invoices,      \* ids of billing_invoices
  Settlements,   \* ids of billing_settlements
  Amounts,       \* amounts of invoices and settlements
  MaxRequests,   \* bound: requests, numbered as they arrive
  MaxFailures,   \* bound: crashes and database errors
  NoId, NoName

ASSUME AmountsAssumption == Amounts \subseteq Nat \ {0}
ASSUME BoundsAssumption == MaxRequests \in Nat /\ MaxFailures \in Nat
ASSUME NullAssumption == NoId \notin Customers /\ NoName \notin Names

Requests == 1 .. MaxRequests

VARIABLES
  customer,    \* billing_customers: name and unsettledCash
  fresh,       \* ids not drawn yet
  invoice,     \* billing_invoices: amount, paid or not
  settlement,  \* billing_settlements
  req,         \* the requests in progress
  account,     \* history: what unsettledCash should be, while that is known
  failures

cashVars == <<customer, fresh, invoice, settlement, req, account, failures>>

Row == [name : Names, cash : Nat]
NoRow == [name |-> NoName, cash |-> 0]

\* The account of a row that a race or a fault has spoilt, or that is gone.
Unknown == -1

Settlement == [status : {"none", "pending", "verified"},
               id : Customers \cup {NoId}, name : Names \cup {NoName},
               amount : Nat]
NoSettlement == [status |-> "none", id |-> NoId, name |-> NoName, amount |-> 0]

\* rows maps the customers to save to the entity read; stale are those whose
\* row another request has written since; overtaken says that the invoice or
\* settlement has been saved by another request since it was checked, first
\* that this request's own save was the one that closed it.
Idle == [pc |-> "idle", subject |-> NoId, name |-> NoName, rows |-> <<>>,
         stale |-> {}, overtaken |-> FALSE, first |-> FALSE]

Done == [Idle EXCEPT !.pc = "done"]

Pcs == {"idle", "done", "savePaid", "findCollectors", "credit",
        "saveVerified", "findCollector", "deduct", "rewrite", "edit"}

Present == {c \in Customers : customer[c] # NoRow}
Pending(r) == DOMAIN req[r].rows

CashTypeOK ==
  /\ customer \in [Customers -> Row \cup {NoRow}]
  /\ fresh \subseteq Customers
  /\ invoice \in [Invoices -> [amount : Amounts, paid : BOOLEAN]]
  /\ settlement \in [Settlements -> Settlement]
  /\ account \in [Customers -> Nat \cup {Unknown}]
  /\ failures \in 0 .. MaxFailures
  /\ \A r \in Requests :
       /\ req[r].pc \in Pcs
       /\ req[r].stale \subseteq Pending(r)
       /\ \A c \in Pending(r) : c \in Customers /\ req[r].rows[c] \in Row

CashInit ==
  /\ customer \in [Customers -> {NoRow} \cup [name : Names, cash : {0}]]
  /\ fresh = Customers \ Present
  /\ invoice \in [Invoices -> [amount : Amounts, paid : {FALSE}]]
  /\ settlement = [s \in Settlements |-> NoSettlement]
  /\ req = [r \in Requests |-> Idle]
  /\ account = [c \in Customers |-> 0]
  /\ failures = 0

Awaits(r, pc) == req[r].pc = pc
Failure == failures < MaxFailures /\ failures' = failures + 1
NotBelowZero(n) == IF n < 0 THEN 0 ELSE n

Begin(r, request) ==
  /\ Awaits(r, "idle")
  /\ \A q \in Requests : q < r => ~Awaits(q, "idle")
  /\ req' = [req EXCEPT ![r] = request]

\* Some rows have been saved, and others know nothing of it.
Outdated(q, saved) == [q EXCEPT !.stale = @ \cup (saved \cap DOMAIN q.rows)]

Spoil(C) ==
  account' = [c \in Customers |-> IF c \in C THEN Unknown ELSE account[c]]

\* Request r saves the entity e of customer c.
SaveRow(r, c, e) ==
  LET left == Pending(r) \ {c}
      next == IF left = {} THEN Done
              ELSE [req[r] EXCEPT !.rows = [d \in left |-> req[r].rows[d]],
                                  !.stale = @ \ {c}]
  IN  /\ customer' = [customer EXCEPT ![c] = e]
      /\ IF c \in req[r].stale THEN Spoil({c}) ELSE UNCHANGED account
      /\ req' = [q \in Requests |->
                   IF q = r THEN next ELSE Outdated(req[q], {c})]
      /\ UNCHANGED <<fresh, invoice, settlement, failures>>

\* The request has found the rows to change: from here on the account counts
\* the payment or settlement, once.
Found(r, found, pc, change(_)) ==
  /\ req' = [req EXCEPT
       ![r] = IF found = {} THEN Done
              ELSE [@ EXCEPT !.rows = [c \in found |-> customer[c]], !.pc = pc]]
  /\ IF req[r].overtaken THEN Spoil(found)
     ELSE account' = [c \in Customers |->
                        IF c \in found /\ req[r].first /\ account[c] # Unknown
                        THEN change(account[c]) ELSE account[c]]
  /\ UNCHANGED <<customer, fresh, invoice, settlement, failures>>

\* The row of the subject (invoice or settlement) is saved; requests that
\* have checked it are overtaken.
Subject(r, pc, first) ==
  req' = [q \in Requests |->
            IF q = r THEN [req[r] EXCEPT !.pc = pc, !.first = first]
            ELSE IF Awaits(q, req[r].pc) /\ req[q].subject = req[r].subject
                 THEN [req[q] EXCEPT !.overtaken = TRUE] ELSE req[q]]

-----------------------------------------------------------------------------
(* Payments. *)

\* Mutant: the status is not looked at.
WhateverStatus(i) == i \in Invoices

Payable(i) == ~invoice[i].paid

\* payInvoice reads the invoice; paidBy defaults to "Admin", a name as well.
PayInvoice(r, i, n) ==
  /\ Payable(i)
  /\ Begin(r, [Idle EXCEPT !.pc = "savePaid", !.subject = i, !.name = n])
  /\ UNCHANGED <<customer, fresh, invoice, settlement, account, failures>>

SavePaid(r) ==
  /\ Awaits(r, "savePaid")
  /\ Subject(r, "findCollectors", ~invoice[req[r].subject].paid)
  /\ invoice' = [invoice EXCEPT ![req[r].subject].paid = TRUE]
  /\ UNCHANGED <<customer, fresh, settlement, account, failures>>

\* trackCollectorCash credits every customer of that name.
FindCollectors(r) ==
  LET Added(n) == n + invoice[req[r].subject].amount
  IN  /\ Awaits(r, "findCollectors")
      /\ Found(r, {c \in Present : customer[c].name = req[r].name}, "credit", Added)

Credit(r, c) ==
  /\ Awaits(r, "credit") /\ c \in Pending(r)
  /\ LET e == req[r].rows[c]
     IN  SaveRow(r, c, [e EXCEPT !.cash = @ + invoice[req[r].subject].amount])

-----------------------------------------------------------------------------
(* Settlements. *)

\* A collector named by his id must exist; the name alone is taken as it is.
SubmitSettlement(s, id, n, amount) ==
  /\ settlement[s].status = "none"
  /\ id # NoId \/ n # NoName
  /\ id # NoId => id \in Present
  /\ settlement' = [settlement EXCEPT
       ![s] = [status |-> "pending", id |-> id, name |-> n, amount |-> amount]]
  /\ UNCHANGED <<customer, fresh, invoice, req, account, failures>>

\* A settlement that is verified already is answered with true.
VerifySettlement(r, s) ==
  /\ settlement[s].status = "pending"
  /\ Begin(r, [Idle EXCEPT !.pc = "saveVerified", !.subject = s])
  /\ UNCHANGED <<customer, fresh, invoice, settlement, account, failures>>

SaveVerified(r) ==
  /\ Awaits(r, "saveVerified")
  /\ Subject(r, "findCollector", settlement[req[r].subject].status = "pending")
  /\ settlement' = [settlement EXCEPT ![req[r].subject].status = "verified"]
  /\ UNCHANGED <<customer, fresh, invoice, account, failures>>

\* The collector by id, or else some customer of the name.
CollectorOf(s) ==
  IF settlement[s].id \in Present THEN {settlement[s].id}
  ELSE {c \in Present : customer[c].name = settlement[s].name}

FindCollector(r) ==
  LET s == req[r].subject
      Taken(n) == NotBelowZero(n - settlement[s].amount)
  IN  /\ Awaits(r, "findCollector")
      /\ IF CollectorOf(s) = {} THEN Found(r, {}, "deduct", Taken)
         ELSE \E c \in CollectorOf(s) : Found(r, {c}, "deduct", Taken)

\* Mutant: a settlement larger than the cash makes it negative.
DeductAll(r, c) ==
  /\ Awaits(r, "deduct") /\ c \in Pending(r)
  /\ LET e == req[r].rows[c]
     IN  SaveRow(r, c, [e EXCEPT !.cash = @ - settlement[req[r].subject].amount])

Deduct(r, c) ==
  /\ Awaits(r, "deduct") /\ c \in Pending(r)
  /\ LET e == req[r].rows[c]
         a == settlement[req[r].subject].amount
     IN  SaveRow(r, c, [e EXCEPT !.cash = NotBelowZero(@ - a)])

-----------------------------------------------------------------------------
(* Customers are saved for other reasons. *)

CreateCustomer(c, n) ==
  /\ c \in fresh
  /\ fresh' = fresh \ {c}
  /\ customer' = [customer EXCEPT ![c] = [name |-> n, cash |-> 0]]
  /\ UNCHANGED <<invoice, settlement, req, account, failures>>

\* saveCustomer of an edited form: the columns the form lacks are those of
\* the row it finds.
EditCustomer(r, c, n) ==
  /\ c \in Present
  /\ Begin(r, [Idle EXCEPT !.pc = "edit",
                           !.rows = [d \in {c} |-> [customer[d] EXCEPT !.name = n]]])
  /\ UNCHANGED <<customer, fresh, invoice, settlement, account, failures>>

SaveEdited(r, c) ==
  /\ Awaits(r, "edit") /\ c \in Pending(r)
  /\ SaveRow(r, c, req[r].rows[c])

\* suspend, re-enable, the re-enabling after a payment and run-overdue read
\* customers, call the router and save them as they were read but for the
\* status; import-users does so with all of them.
RewriteCustomers(r, C) ==
  /\ C # {} /\ C \subseteq Present
  /\ Begin(r, [Idle EXCEPT !.pc = "rewrite", !.rows = [c \in C |-> customer[c]]])
  /\ UNCHANGED <<customer, fresh, invoice, settlement, account, failures>>

\* saveCustomer throws when the row is gone.
SaveRewritten(r, c) ==
  /\ Awaits(r, "rewrite") /\ c \in Pending(r)
  /\ \/ c \in Present /\ SaveRow(r, c, req[r].rows[c])
     \/ /\ c \notin Present
        /\ req' = [req EXCEPT ![r] = Done]
        /\ UNCHANGED <<customer, fresh, invoice, settlement, account, failures>>

DeleteCustomer(c) ==
  /\ c \in Present
  /\ customer' = [customer EXCEPT ![c] = NoRow]
  /\ req' = [q \in Requests |-> Outdated(req[q], {c})]
  /\ Spoil({c})
  /\ UNCHANGED <<fresh, invoice, settlement, failures>>

-----------------------------------------------------------------------------

\* Rows that request r has still to change: those it has read, or would find.
Owed(r) ==
  CASE req[r].pc \in {"credit", "deduct"} -> Pending(r)
    [] Awaits(r, "findCollectors") -> {c \in Present : customer[c].name = req[r].name}
    [] Awaits(r, "findCollector") -> CollectorOf(req[r].subject)
    [] OTHER -> {}

\* The process dies, or a statement throws: what is saved stays saved.
Interrupted(R) ==
  /\ Failure
  /\ Spoil(UNION {Owed(r) : r \in R})
  /\ req' = [r \in Requests |-> IF r \in R THEN Done ELSE req[r]]
  /\ UNCHANGED <<customer, fresh, invoice, settlement>>

Active == {r \in Requests : ~Awaits(r, "idle") /\ ~Awaits(r, "done")}

DatabaseError == \E r \in Active : Interrupted({r})
Crash == Active # {} /\ Interrupted(Active)

RequestStep(r) ==
  \/ \E i \in Invoices, n \in Names : PayInvoice(r, i, n)
  \/ SavePaid(r) \/ FindCollectors(r)
  \/ \E s \in Settlements : VerifySettlement(r, s)
  \/ SaveVerified(r) \/ FindCollector(r)
  \/ \E C \in SUBSET Customers : RewriteCustomers(r, C)
  \/ \E c \in Customers :
       \/ Credit(r, c) \/ Deduct(r, c)
       \/ SaveEdited(r, c) \/ SaveRewritten(r, c)
       \/ \E n \in Names : EditCustomer(r, c, n)

CashNext ==
  \/ \E r \in Requests : RequestStep(r)
  \/ \E s \in Settlements, id \in Customers \cup {NoId},
        n \in Names \cup {NoName}, amount \in Amounts :
        SubmitSettlement(s, id, n, amount)
  \/ \E c \in Customers, n \in Names : CreateCustomer(c, n)
  \/ \E c \in Customers : DeleteCustomer(c)
  \/ DatabaseError
  \/ Crash

CashSpec == CashInit /\ [][CashNext]_cashVars

-----------------------------------------------------------------------------
(* Properties *)

\* What a collector holds is what was paid to him less what he has settled:
\* each payment is credited once and each settlement deducted once, whatever
\* requests run at the same time on other rows.  A row is given up when a
\* request saves it from a copy another request has overtaken, when two
\* requests passed the check of one invoice or settlement together, and when
\* a request breaks off between its two saves.
CashIsAccounted ==
  \A c \in Present :
    \/ account[c] = Unknown
    \/ customer[c].cash = account[c]
    \/ \E r \in Requests : c \in Pending(r) /\ req[r].pc \in {"credit", "deduct"}
=============================================================================
