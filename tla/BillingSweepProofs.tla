------------------------- MODULE BillingSweepProofs -------------------------
(***************************************************************************)
(* Proofs about BillingSweep, for every calendar, every set of days with a *)
(* reminder, every number of requests and every bound on faults.           *)
(***************************************************************************)
EXTENDS BillingSweep, TLAPS

(* A worker that flags has read an unpaid invoice, one that saves a claim    *)
(* or its outcome an overdue one; whoever is about to block the subscriber   *)
(* has found the invoice late, or an operator has asked.                     *)
WorkersInv == \A w \in Workers :
  /\ worker[w].pc = "flag" => worker[w].read.status = "unpaid"
  /\ worker[w].pc \in {"saveClaim", "saveSettled"} => worker[w].read.status = "overdue"
  /\ ~ordered /\ worker[w].pc \in {"flag", "disable", "saveSuspended"} => day >= LateDay

(* Today's reminder is claimed or sent. *)
Marked == \E m \in invoice.reminders : m.day = day

(* Until the invoice is flagged or paid, a reminder that was published today *)
(* has left a mark, and the sweep publishes under a claim of a day on which  *)
(* it has published nothing.                                                 *)
ReminderInv ==
  invoice.status \in {"none", "unpaid"} =>
    /\ \A d \in Days : published[d] <= 1 /\ (d > day => published[d] = 0)
    /\ published[day] > 0 => Marked
    /\ At(Sweep, "publishReminder") =>
         /\ published[worker[Sweep].token.day] = 0
         /\ worker[Sweep].token.day <= day
         /\ worker[Sweep].token.day = day => Marked
    /\ At(Sweep, "rollbackReminder") => published[worker[Sweep].token.day] = 0

Inv == TypeOK /\ WorkersInv /\ ReminderInv /\ SuspendedOnlyWhenLate

-----------------------------------------------------------------------------
(* Workers *)

LEMMA WorkerNames ==
  /\ Sweep \in Workers /\ Sweep \notin Requests /\ Requests \subseteq Workers
  BY BoundsAssumption DEF Workers, Sweep, Requests

LEMMA Tokens ==
  /\ \A d \in Days : Sent(d) \in Mark /\ Sent(d).day = d
  /\ \A w \in Workers, d \in Days : Token(w, d) \in Mark /\ Token(w, d).day = d
  /\ NoToken \in Mark
<1>1. 1 \in Days
  BY DaysAssumption DEF Days
<1>2. \A w \in {Nobody} \cup Workers, d \in Days : Token(w, d) \in Mark /\ Token(w, d).day = d
  BY DEF Token, Mark
<1> QED
  BY <1>1, <1>2 DEF Sent, NoToken

LEMMA IdleIsWorker ==
  /\ NoInvoice \in Invoice
  /\ Idle \in Worker /\ Idle.pc = "idle"
  /\ \A w \in Workers : Ended(w) \in Worker /\ Ended(w).pc \in {"idle", "done"}
<1>1. NoInvoice \in Invoice
  BY DEF NoInvoice, Invoice
<1>2. Idle \in Worker /\ Idle.pc = "idle"
  BY <1>1, Tokens DEF Idle, Worker, Awaits, Standing
<1>3. [Idle EXCEPT !.pc = "done"] \in Worker /\ [Idle EXCEPT !.pc = "done"].pc = "done"
  BY <1>2 DEF Worker, Awaits
<1> QED
  BY <1>1, <1>2, <1>3 DEF Ended

(* A worker put in the place of another. *)
LEMMA PutEffect ==
  ASSUME TypeOK, NEW w \in Workers, NEW x \in Worker, worker' = [worker EXCEPT ![w] = x]
  PROVE  /\ worker' \in [Workers -> Worker] /\ worker'[w] = x
         /\ \A q \in Workers \ {w} : worker'[q] = worker[q]
  BY DEF TypeOK

LEMMA GotoEffect ==
  ASSUME TypeOK, NEW w \in Workers, NEW pc \in Awaits, Goto(w, pc)
  PROVE  /\ worker' \in [Workers -> Worker]
         /\ worker'[w].pc = pc /\ worker'[w].token = worker[w].token
         /\ worker'[w].read = worker[w].read
         /\ \A q \in Workers \ {w} : worker'[q] = worker[q]
<1> DEFINE x == [worker[w] EXCEPT !.pc = pc]
<1>1. worker[w] \in Worker
  BY DEF TypeOK
<1>2. /\ x \in Worker /\ x.pc = pc /\ x.token = worker[w].token
      /\ x.read = worker[w].read
  BY <1>1 DEF Worker
<1>3. worker' = [worker EXCEPT ![w] = x]
  BY DEF Goto, TypeOK
<1> HIDE DEF x
<1> QED
  BY <1>2, <1>3, PutEffect

LEMMA SavedEffect ==
  ASSUME TypeOK, NEW w \in Workers, NEW pc \in Awaits, Saved(w, pc)
  PROVE  /\ worker' \in [Workers -> Worker] /\ worker'[w].pc = pc
         /\ \A q \in Workers \ {w} : worker'[q] = worker[q]
<1> DEFINE x == [worker[w] EXCEPT !.pc = pc, !.read = NoInvoice]
<1>1. worker[w] \in Worker
  BY DEF TypeOK
<1>2. x \in Worker /\ x.pc = pc
  BY <1>1, IdleIsWorker DEF Worker
<1>3. worker' = [worker EXCEPT ![w] = x]
  BY DEF Saved, TypeOK
<1> HIDE DEF x
<1> QED
  BY <1>2, <1>3, PutEffect

LEMMA EndEffect ==
  ASSUME TypeOK, NEW w \in Workers, End(w)
  PROVE  /\ worker' \in [Workers -> Worker] /\ worker'[w].pc \in {"idle", "done"}
         /\ \A q \in Workers \ {w} : worker'[q] = worker[q]
  BY IdleIsWorker, PutEffect DEF End

(* The sweep keeps a token over its publication. *)
LEMMA TokenEffect ==
  ASSUME TypeOK, NEW w \in Workers, NEW pc \in Awaits, NEW token \in Mark,
         worker' = [worker EXCEPT ![w].pc = pc, ![w].token = token]
  PROVE  /\ worker' \in [Workers -> Worker]
         /\ worker'[w].pc = pc /\ worker'[w].token = token
         /\ \A q \in Workers \ {w} : worker'[q] = worker[q]
<1> DEFINE x == [worker[w] EXCEPT !.pc = pc, !.token = token]
<1>1. worker[w] \in Worker
  BY DEF TypeOK
<1>2. x \in Worker /\ x.pc = pc /\ x.token = token
  BY <1>1 DEF Worker
<1>3. worker' = [worker EXCEPT ![w] = x]
  BY DEF TypeOK
<1> HIDE DEF x
<1> QED
  BY <1>2, <1>3, PutEffect

(* What a step on worker w has to keep for the invariant to hold after it.   *)
LEMMA StepKeeps ==
  ASSUME Inv, NEW w \in Workers,
         worker' \in [Workers -> Worker],
         \A q \in Workers \ {w} : worker'[q] = worker[q],
         UNCHANGED <<day, published, ordered>>,
         invoice' \in Invoice, told' \in BOOLEAN, faults' \in 0 .. MaxFaults,
         customer' \in Standing, blocked' \in BOOLEAN,
         invoice'.status \in {"none", "unpaid"} => invoice.status \in {"none", "unpaid"},
         Marked /\ (w # Sweep \/ published[day] > 0)
           => Marked' \/ invoice'.status \notin {"none", "unpaid"},
         blocked' => blocked \/ ordered \/ day >= LateDay,
         customer' = "suspended" => customer = "suspended" \/ ordered \/ day >= LateDay,
         worker'[w].pc = "flag" => worker'[w].read.status = "unpaid",
         worker'[w].pc \in {"saveClaim", "saveSettled"} => worker'[w].read.status = "overdue",
         worker'[w].pc \in {"flag", "disable", "saveSuspended"} => ordered \/ day >= LateDay,
         w = Sweep /\ worker'[w].pc = "rollbackReminder"
           => \/ published[worker'[w].token.day] = 0
              \/ invoice'.status \notin {"none", "unpaid"},
         w = Sweep /\ worker'[w].pc = "publishReminder"
           => /\ published[worker'[w].token.day] = 0 \/ invoice'.status \notin {"none", "unpaid"}
              /\ worker'[w].token.day <= day
              /\ Marked'
  PROVE  Inv'
<1> USE DEF Inv
<1>1. TypeOK'
  BY DEF TypeOK
<1>2. WorkersInv'
  BY DEF WorkersInv
<1>3. SuspendedOnlyWhenLate'
  BY DEF SuspendedOnlyWhenLate
<1>4. ReminderInv'
  <2> SUFFICES ASSUME invoice'.status \in {"none", "unpaid"}
               PROVE  /\ \A d \in Days : published[d] <= 1 /\ (d > day => published[d] = 0)
                      /\ published[day] > 0 => Marked'
                      /\ worker'[Sweep].pc = "publishReminder" =>
                           /\ published[worker'[Sweep].token.day] = 0
                           /\ worker'[Sweep].token.day <= day
                           /\ worker'[Sweep].token.day = day => Marked'
                      /\ worker'[Sweep].pc = "rollbackReminder" =>
                           published[worker'[Sweep].token.day] = 0
    BY DEF ReminderInv, At
  <2>1. /\ \A d \in Days : published[d] <= 1 /\ (d > day => published[d] = 0)
        /\ published[day] > 0 => Marked
        /\ worker[Sweep].pc = "publishReminder" =>
             /\ published[worker[Sweep].token.day] = 0
             /\ worker[Sweep].token.day <= day
             /\ worker[Sweep].token.day = day => Marked
        /\ worker[Sweep].pc = "rollbackReminder" =>
             published[worker[Sweep].token.day] = 0
    BY DEF ReminderInv, At
  <2>2. published[day] > 0 => Marked'
    BY <2>1
  <2>3. CASE w = Sweep
    BY <2>1, <2>2, <2>3
  <2>4. CASE w # Sweep
    <3>1. worker'[Sweep] = worker[Sweep] /\ (Marked => Marked')
      BY <2>4, WorkerNames
    <3> QED
      BY <2>1, <2>2, <3>1
  <2> QED
    BY <2>3, <2>4
<1> QED
  BY <1>1, <1>2, <1>3, <1>4

LEMMA PlainTypes ==
  ASSUME TypeOK
  PROVE  /\ Plain => UNCHANGED <<day, published, ordered>> /\ told' \in BOOLEAN
                      /\ faults' \in 0 .. MaxFaults
         /\ faults' = faults \/ Fault => faults' \in 0 .. MaxFaults
  BY BoundsAssumption DEF TypeOK, Plain, Fault

LEMMA SameMarks ==
  ASSUME invoice'.reminders = invoice.reminders, day' = day
  PROVE  Marked => Marked'
  BY DEF Marked

-----------------------------------------------------------------------------
(* The steps that leave the invoice alone *)

(* The worker goes to an await that asks nothing of what it has read.        *)
LEMMA QuietStep ==
  ASSUME Inv, NEW w \in Workers,
         worker' \in [Workers -> Worker],
         \A q \in Workers \ {w} : worker'[q] = worker[q],
         worker'[w].pc \notin {"flag", "saveClaim", "saveSettled", "disable",
                              "saveSuspended", "rollbackReminder", "publishReminder"},
         UNCHANGED <<day, published, ordered, invoice, customer>>,
         told' \in BOOLEAN, faults' \in 0 .. MaxFaults, blocked' \in BOOLEAN,
         blocked' => blocked \/ ordered \/ day >= LateDay
  PROVE  Inv'
<1>1. Marked => Marked'
  BY SameMarks
<1>2. invoice' \in Invoice /\ customer' \in Standing
  BY DEF Inv, TypeOK
<1> QED
  BY <1>1, <1>2, StepKeeps

LEMMA ListRemindersStep ==
  ASSUME Inv, ListReminders PROVE Inv'
<1>1. /\ Goto(Sweep, "claimReminder") \/ Goto(Sweep, "listOverdue")
      /\ UNCHANGED <<invoice, customer, blocked>> /\ Plain
  BY DEF ListReminders
<1>2. TypeOK /\ {"claimReminder", "listOverdue"} \subseteq Awaits
  BY DEF Inv, Awaits
<1>3. /\ worker' \in [Workers -> Worker]
      /\ worker'[Sweep].pc \in {"claimReminder", "listOverdue"}
      /\ \A q \in Workers \ {Sweep} : worker'[q] = worker[q]
  BY <1>1, <1>2, WorkerNames, GotoEffect
<1> QED
  BY <1>1, <1>2, <1>3, WorkerNames, PlainTypes, QuietStep DEF TypeOK

LEMMA StartSweepStep ==
  ASSUME Inv, StartSweep PROVE Inv'
<1> DEFINE x == [Idle EXCEPT !.pc = "generate"]
<1>1. worker' = [worker EXCEPT ![Sweep] = x] /\ UNCHANGED <<invoice, customer, blocked>> /\ Plain
  BY DEF StartSweep
<1>2. x \in Worker /\ x.pc = "generate"
  BY IdleIsWorker DEF Worker, Awaits
<1>3. TypeOK
  BY DEF Inv
<1> HIDE DEF x
<1>4. /\ worker' \in [Workers -> Worker] /\ worker'[Sweep] = x
      /\ \A q \in Workers \ {Sweep} : worker'[q] = worker[q]
  BY <1>1, <1>2, <1>3, WorkerNames, PutEffect
<1> QED
  BY <1>1, <1>2, <1>3, <1>4, WorkerNames, PlainTypes, QuietStep DEF TypeOK

LEMMA ListOverdueStep ==
  ASSUME Inv, NEW w \in Workers, ListOverdue(w) PROVE Inv'
<1>0. TypeOK /\ UNCHANGED <<invoice, customer, blocked>> /\ Plain
  BY DEF Inv, ListOverdue
<1>1. CASE ~Late
  <2>1. End(w)
    BY <1>1 DEF ListOverdue
  <2>2. /\ worker' \in [Workers -> Worker] /\ worker'[w].pc \in {"idle", "done"}
        /\ \A q \in Workers \ {w} : worker'[q] = worker[q]
    BY <1>0, <2>1, EndEffect
  <2> QED
    BY <1>0, <2>2, PlainTypes, QuietStep DEF TypeOK
<1>2. CASE Late
  <2> DEFINE x == [worker[w] EXCEPT !.pc = "flag", !.read = invoice, !.standing = customer]
  <2>1. worker[w] \in Worker /\ invoice \in Invoice /\ customer \in Standing
    BY <1>0 DEF TypeOK
  <2>2. x \in Worker /\ x.pc = "flag" /\ x.read = invoice
    BY <2>1 DEF Worker, Awaits
  <2>3. worker' = [worker EXCEPT ![w] = x]
    BY <1>0, <1>2 DEF ListOverdue, TypeOK
  <2> HIDE DEF x
  <2>4. /\ worker' \in [Workers -> Worker] /\ worker'[w] = x
        /\ \A q \in Workers \ {w} : worker'[q] = worker[q]
    BY <1>0, <2>2, <2>3, PutEffect
  <2>5. invoice.status = "unpaid" /\ day >= LateDay
    BY <1>2 DEF Late
  <2>6. /\ UNCHANGED <<day, published, ordered>> /\ told' \in BOOLEAN
        /\ faults' \in 0 .. MaxFaults /\ blocked' \in BOOLEAN
        /\ (Marked => Marked')
    BY <1>0, PlainTypes, SameMarks DEF TypeOK
  <2> QED
    BY <1>0, <2>1, <2>2, <2>4, <2>5, <2>6, StepKeeps
<1> QED
  BY <1>1, <1>2

LEMMA DisableStep ==
  ASSUME Inv, NEW w \in Workers, Disable(w) \/ DisableFails(w) PROVE Inv'
<1>1. TypeOK /\ (ordered \/ day >= LateDay)
  BY DEF Inv, WorkersInv, Disable, DisableFails, At
<1>2. /\ worker' \in [Workers -> Worker]
      /\ \A q \in Workers \ {w} : worker'[q] = worker[q]
      /\ worker'[w].pc \in {"saveSuspended", "idle", "done"}
  <2>1. Goto(w, "saveSuspended") \/ End(w)
    BY DEF Disable, DisableFails
  <2>2. "saveSuspended" \in Awaits
    BY DEF Awaits
  <2> QED
    BY <1>1, <2>1, <2>2, GotoEffect, EndEffect
<1>3. /\ UNCHANGED <<day, published, ordered, invoice, customer>>
      /\ told' \in BOOLEAN /\ faults' \in 0 .. MaxFaults /\ blocked' \in BOOLEAN
  <2>1. CASE Disable(w)
    BY <1>1, <2>1, PlainTypes DEF Disable, TypeOK
  <2>2. CASE DisableFails(w)
    BY <1>1, <2>2, PlainTypes DEF DisableFails, TypeOK
  <2> QED
    BY <2>1, <2>2
<1>4. (Marked => Marked') /\ invoice' \in Invoice /\ customer' \in Standing
  BY <1>1, <1>3, SameMarks DEF TypeOK
<1> QED
  BY <1>1, <1>2, <1>3, <1>4, StepKeeps

LEMMA SaveSuspendedStep ==
  ASSUME Inv, NEW w \in Workers, SaveSuspended(w) PROVE Inv'
<1>1. TypeOK /\ (ordered \/ day >= LateDay)
  BY DEF Inv, WorkersInv, SaveSuspended, At
<1>2. Goto(w, "claimOverdue") \/ End(w)
  BY DEF SaveSuspended
<1>3. "claimOverdue" \in Awaits
  BY DEF Awaits
<1>4. /\ worker' \in [Workers -> Worker]
      /\ \A q \in Workers \ {w} : worker'[q] = worker[q]
      /\ worker'[w].pc \in {"claimOverdue", "idle", "done"}
  BY <1>1, <1>2, <1>3, GotoEffect, EndEffect
<1>5. /\ UNCHANGED <<day, published, ordered, invoice, blocked>>
      /\ told' \in BOOLEAN /\ faults' \in 0 .. MaxFaults
      /\ customer' \in Standing
  BY <1>1, PlainTypes DEF SaveSuspended, Standing
<1>6. (Marked => Marked') /\ invoice' \in Invoice /\ blocked' \in BOOLEAN
  BY <1>1, <1>5, SameMarks DEF TypeOK
<1> QED
  BY <1>1, <1>4, <1>5, <1>6, StepKeeps
-----------------------------------------------------------------------------
(* The steps that write the marks of the invoice *)

LEMMA GenerateInvoiceStep ==
  ASSUME Inv, GenerateInvoice PROVE Inv'
<1>1. TypeOK /\ Goto(Sweep, "listReminders") /\ UNCHANGED <<customer, blocked>> /\ Plain
  BY DEF Inv, GenerateInvoice
<1>2. "listReminders" \in Awaits
  BY DEF Awaits
<1>3. /\ worker' \in [Workers -> Worker] /\ worker'[Sweep].pc = "listReminders"
      /\ \A q \in Workers \ {Sweep} : worker'[q] = worker[q]
  BY <1>1, <1>2, WorkerNames, GotoEffect
<1>4. /\ invoice' \in Invoice /\ invoice'.reminders = invoice.reminders
      /\ invoice'.status \in {"none", "unpaid"} => invoice.status \in {"none", "unpaid"}
  <2>1. CASE invoice' = invoice
    BY <1>1, <2>1 DEF TypeOK
  <2>2. CASE invoice.status = "none" /\ invoice' = [invoice EXCEPT !.status = "unpaid"]
    BY <1>1, <2>2 DEF TypeOK, Invoice
  <2> QED
    BY <2>1, <2>2 DEF GenerateInvoice
<1>5. /\ UNCHANGED <<day, published, ordered>> /\ told' \in BOOLEAN
      /\ faults' \in 0 .. MaxFaults /\ blocked' \in BOOLEAN /\ customer' \in Standing
  BY <1>1, PlainTypes DEF TypeOK
<1>6. Marked => Marked'
  BY <1>4, <1>5, SameMarks
<1> QED
  BY <1>1, <1>3, <1>4, <1>5, <1>6, WorkerNames, StepKeeps

(* A step that only writes reminders, leaving a mark of today in place. *)
LEMMA RemindersWritten ==
  ASSUME TypeOK, NEW marks \in SUBSET Mark,
         invoice' = [invoice EXCEPT !.reminders = marks]
  PROVE  /\ invoice' \in Invoice /\ invoice'.status = invoice.status
         /\ invoice'.reminders = marks
  BY DEF TypeOK, Invoice

(* Today's claim is given only when nothing was published under it. *)
LEMMA ClaimReminderStep ==
  ASSUME Inv, NEW w \in Workers, ClaimReminder(w) PROVE Inv'
<1>1. /\ TypeOK /\ ReminderInv /\ UNCHANGED <<customer, blocked>> /\ Plain
      /\ day \in Days
  BY DEF Inv, TypeOK, ClaimReminder
<1>2. /\ UNCHANGED <<day, published, ordered>> /\ told' \in BOOLEAN
      /\ faults' \in 0 .. MaxFaults /\ blocked' \in BOOLEAN /\ customer' \in Standing
  BY <1>1, PlainTypes DEF TypeOK
<1>3. CASE ~Unclaimed
  <2>1. (Goto(w, "listOverdue") \/ End(w)) /\ UNCHANGED invoice
    BY <1>3 DEF ClaimReminder
  <2>2. "listOverdue" \in Awaits
    BY DEF Awaits
  <2>3. /\ worker' \in [Workers -> Worker]
        /\ worker'[w].pc \in {"listOverdue", "idle", "done"}
        /\ \A q \in Workers \ {w} : worker'[q] = worker[q]
    BY <1>1, <2>1, <2>2, GotoEffect, EndEffect
  <2> QED
    BY <1>1, <1>2, <2>1, <2>3, QuietStep
<1>4. CASE Unclaimed
  <2> DEFINE token == Token(w, day)
             pc == IF w = Sweep THEN "publishReminder" ELSE "confirmReminder"
  <2>1. /\ invoice' = [invoice EXCEPT !.reminders = @ \cup {token}]
        /\ worker' = [worker EXCEPT ![w].pc = pc, ![w].token = token]
    BY <1>1, <1>4 DEF ClaimReminder, TypeOK
  <2>2. token \in Mark /\ token.day = day /\ pc \in Awaits
    BY <1>1, Tokens DEF Awaits
  <2>3. pc = "publishReminder" \/ (w # Sweep /\ pc = "confirmReminder")
    OBVIOUS
  <2> HIDE DEF token, pc
  <2>4. /\ worker' \in [Workers -> Worker]
        /\ worker'[w].pc = pc /\ worker'[w].token = token
        /\ \A q \in Workers \ {w} : worker'[q] = worker[q]
    BY <1>1, <2>1, <2>2, TokenEffect
  <2>5. invoice.reminders \cup {token} \in SUBSET Mark
    BY <1>1, <2>2 DEF TypeOK, Invoice
  <2>6. /\ invoice' \in Invoice /\ invoice'.status = invoice.status
        /\ invoice'.reminders = invoice.reminders \cup {token}
    BY <1>1, <2>1, <2>5, RemindersWritten
  <2>7. Marked'
    BY <1>2, <2>2, <2>6 DEF Marked
  <2>8. invoice.status \in {"none", "unpaid"} => published[day] = 0
    <3>1. ~Marked
      BY <1>4 DEF Unclaimed, Marked
    <3>2. published[day] \in Nat
      BY <1>1 DEF TypeOK
    <3> QED
      BY <1>1, <3>1, <3>2 DEF ReminderInv
  <2>9. day <= day
    BY <1>1 DEF Days
  <2> QED
    BY <1>1, <1>2, <2>2, <2>3, <2>4, <2>6, <2>7, <2>8, <2>9, StepKeeps
<1> QED
  BY <1>3, <1>4

LEMMA ReminderFailsStep ==
  ASSUME Inv, NEW w \in Workers, ReminderFails(w) PROVE Inv'
<1>1. /\ TypeOK /\ ReminderInv /\ UNCHANGED <<invoice, customer, blocked>> /\ Plain
      /\ At(w, "publishReminder")
  BY DEF Inv, ReminderFails
<1>2. /\ UNCHANGED <<day, published, ordered>> /\ told' \in BOOLEAN
      /\ faults' \in 0 .. MaxFaults /\ blocked' \in BOOLEAN /\ customer' \in Standing
      /\ invoice' \in Invoice
  BY <1>1, PlainTypes DEF TypeOK
<1>3. Marked => Marked'
  BY <1>1, <1>2, SameMarks
<1>4. CASE w = Sweep
  <2>1. Goto(w, "rollbackReminder") /\ "rollbackReminder" \in Awaits
    BY <1>4 DEF ReminderFails, Awaits
  <2>2. /\ worker' \in [Workers -> Worker]
        /\ worker'[w].pc = "rollbackReminder" /\ worker'[w].token = worker[w].token
        /\ \A q \in Workers \ {w} : worker'[q] = worker[q]
    BY <1>1, <2>1, GotoEffect
  <2>3. invoice.status \in {"none", "unpaid"} => published[worker[Sweep].token.day] = 0
    BY <1>1, <1>4 DEF ReminderInv
  <2> QED
    BY <1>1, <1>2, <1>3, <1>4, <2>2, <2>3, StepKeeps
<1>5. CASE w # Sweep
  <2>1. End(w)
    BY <1>5 DEF ReminderFails
  <2>2. /\ worker' \in [Workers -> Worker] /\ worker'[w].pc \in {"idle", "done"}
        /\ \A q \in Workers \ {w} : worker'[q] = worker[q]
    BY <1>1, <2>1, EndEffect
  <2> QED
    BY <1>1, <1>2, <2>2, QuietStep
<1> QED
  BY <1>4, <1>5

(* The sweep's one publication of the day its claim is of. *)
LEMMA PublishReminderStep ==
  ASSUME Inv, NEW w \in Workers, PublishReminder(w) PROVE Inv'
<1>1. /\ TypeOK /\ ReminderInv /\ At(w, "publishReminder")
      /\ UNCHANGED <<day, invoice, customer, blocked, told, ordered, faults>>
  BY DEF Inv, PublishReminder
<1>2. Goto(w, "confirmReminder") \/ Goto(w, "claimReminder")
  BY DEF PublishReminder
<1>3. {"confirmReminder", "claimReminder"} \subseteq Awaits
  BY DEF Awaits
<1>4. /\ worker' \in [Workers -> Worker]
      /\ worker'[w].pc \in {"confirmReminder", "claimReminder"}
      /\ \A q \in Workers \ {w} : worker'[q] = worker[q]
  BY <1>1, <1>2, <1>3, GotoEffect
<1>5. CASE w # Sweep
  <2>1. published' = published
    BY <1>5 DEF PublishReminder
  <2> QED
    BY <1>1, <1>4, <2>1, QuietStep DEF TypeOK
<1>6. CASE w = Sweep
  <2> DEFINE t == worker[Sweep].token.day
  <2>1. t \in Days /\ published[t] \in Nat
    BY <1>1, WorkerNames DEF TypeOK, Worker, Mark
  <2>2. published' = [published EXCEPT ![t] = @ + 1]
    BY <1>6 DEF PublishReminder
  <2> HIDE DEF t
  <2>3. published' \in [Days -> Nat]
    BY <1>1, <2>1, <2>2 DEF TypeOK
  <2>4. TypeOK'
    BY <1>1, <1>4, <2>3 DEF TypeOK
  <2>5. WorkersInv'
    BY <1>1, <1>4 DEF Inv, WorkersInv
  <2>6. SuspendedOnlyWhenLate'
    BY <1>1 DEF Inv, SuspendedOnlyWhenLate
  <2>7. ReminderInv'
    <3> SUFFICES ASSUME invoice.status \in {"none", "unpaid"}
                 PROVE  /\ \A d \in Days : published'[d] <= 1 /\ (d > day => published'[d] = 0)
                        /\ published'[day] > 0 => Marked
      BY <1>1, <1>4, <1>6 DEF ReminderInv, At, Marked
    <3>1. /\ \A d \in Days : published[d] <= 1 /\ (d > day => published[d] = 0)
          /\ published[day] > 0 => Marked
          /\ published[t] = 0 /\ t <= day /\ (t = day => Marked)
      BY <1>1, <1>6 DEF ReminderInv, t
    <3>2. published'[t] = 1 /\ \A d \in Days \ {t} : published'[d] = published[d]
      BY <1>1, <2>1, <2>2, <3>1 DEF TypeOK
    <3>3. day \in Int /\ \A d \in Days : d \in Int
      BY <1>1 DEF TypeOK, Days
    <3>4. ASSUME NEW d \in Days PROVE published'[d] <= 1 /\ (d > day => published'[d] = 0)
      BY <2>1, <3>1, <3>2, <3>3
    <3>5. published'[day] > 0 => Marked
      BY <1>1, <3>1, <3>2 DEF TypeOK
    <3> QED
      BY <3>4, <3>5
  <2> QED
    BY <2>4, <2>5, <2>6, <2>7 DEF Inv
<1> QED
  BY <1>5, <1>6

LEMMA RemindersDoneEffect ==
  ASSUME TypeOK, RemindersDone
  PROVE  /\ worker' \in [Workers -> Worker] /\ worker'[Sweep].pc = "listOverdue"
         /\ \A q \in Workers \ {Sweep} : worker'[q] = worker[q]
<1>1. "listOverdue" \in Awaits
  BY DEF Awaits
<1> QED
  BY <1>1, WorkerNames, Tokens, TokenEffect DEF RemindersDone

(* A confirmed claim becomes a mark of today. *)
LEMMA ConfirmReminderStep ==
  ASSUME Inv, NEW w \in Workers, ConfirmReminder(w) PROVE Inv'
<1>1. TypeOK /\ UNCHANGED <<customer, blocked>> /\ Plain /\ day \in Days
  BY DEF Inv, TypeOK, ConfirmReminder
<1>2. /\ UNCHANGED <<day, published, ordered>> /\ told' \in BOOLEAN
      /\ faults' \in 0 .. MaxFaults /\ blocked' \in BOOLEAN /\ customer' \in Standing
  BY <1>1, PlainTypes DEF TypeOK
<1>3. /\ worker' \in [Workers -> Worker]
      /\ worker'[w].pc \in {"listOverdue", "idle", "done"}
      /\ \A q \in Workers \ {w} : worker'[q] = worker[q]
  BY <1>1, RemindersDoneEffect, EndEffect DEF ConfirmReminder
<1>4. invoice' \in Invoice /\ invoice'.status = invoice.status /\ (Marked => Marked')
  <2>1. CASE invoice' = invoice
    BY <1>1, <1>2, <2>1 DEF TypeOK, Marked
  <2>2. CASE invoice' # invoice
    <3> DEFINE marks == (invoice.reminders \ {worker[w].token}) \cup {Sent(day)}
    <3>1. invoice' = [invoice EXCEPT !.reminders = marks]
      BY <2>2 DEF ConfirmReminder
    <3>2. marks \in SUBSET Mark /\ Sent(day) \in marks /\ Sent(day).day = day
      BY <1>1, Tokens DEF TypeOK, Invoice
    <3> HIDE DEF marks
    <3>3. /\ invoice' \in Invoice /\ invoice'.status = invoice.status
          /\ invoice'.reminders = marks
      BY <1>1, <3>1, <3>2, RemindersWritten
    <3> QED
      BY <1>2, <3>2, <3>3 DEF Marked
  <2> QED
    BY <2>1, <2>2
<1> QED
  BY <1>1, <1>2, <1>3, <1>4, StepKeeps

(* A claim that is rolled back is of a day on which nothing was published. *)
LEMMA RollbackReminderStep ==
  ASSUME Inv, RollbackReminder PROVE Inv'
<1> DEFINE token == worker[Sweep].token
           marks == invoice.reminders \ {token}
<1>1. /\ TypeOK /\ ReminderInv /\ UNCHANGED <<customer, blocked>> /\ Plain
      /\ At(Sweep, "rollbackReminder") /\ RemindersDone
      /\ invoice' = [invoice EXCEPT !.reminders = marks]
  BY DEF Inv, RollbackReminder
<1>2. /\ UNCHANGED <<day, published, ordered>> /\ told' \in BOOLEAN
      /\ faults' \in 0 .. MaxFaults /\ blocked' \in BOOLEAN /\ customer' \in Standing
  BY <1>1, PlainTypes DEF TypeOK
<1>3. /\ worker' \in [Workers -> Worker] /\ worker'[Sweep].pc = "listOverdue"
      /\ \A q \in Workers \ {Sweep} : worker'[q] = worker[q]
  BY <1>1, RemindersDoneEffect
<1>4. marks \in SUBSET Mark
  BY <1>1 DEF TypeOK, Invoice
<1>5. /\ invoice' \in Invoice /\ invoice'.status = invoice.status
      /\ invoice'.reminders = marks
  BY <1>1, <1>4, RemindersWritten
<1>6. invoice.status \in {"none", "unpaid"} /\ published[day] > 0 => token.day # day
  BY <1>1 DEF ReminderInv
<1>7. Marked /\ published[day] > 0
        => Marked' \/ invoice'.status \notin {"none", "unpaid"}
  BY <1>2, <1>5, <1>6 DEF Marked
<1> QED
  BY <1>1, <1>2, <1>3, <1>5, <1>7, WorkerNames, StepKeeps
-----------------------------------------------------------------------------
(* The steps that save the invoice as it was read: flagged, or paid.        *)

LEMMA SettlingStep ==
  ASSUME Inv, NEW w \in Workers,
         worker' \in [Workers -> Worker],
         \A q \in Workers \ {w} : worker'[q] = worker[q],
         worker'[w].pc \notin {"flag", "saveClaim", "saveSettled", "saveSuspended",
                              "rollbackReminder", "publishReminder"},
         worker'[w].pc = "disable" => ordered \/ day >= LateDay,
         NEW read \in Invoice, NEW status \in {"overdue", "paid"}, NEW marks \in SUBSET Mark,
         invoice' = [read EXCEPT !.status = status, !.overdueMarks = marks],
         UNCHANGED <<customer, blocked>>, Plain
  PROVE  Inv'
<1>1. invoice' \in Invoice /\ invoice'.status \notin {"none", "unpaid"}
  BY DEF Invoice
<1>2. /\ UNCHANGED <<day, published, ordered>> /\ told' \in BOOLEAN
      /\ faults' \in 0 .. MaxFaults /\ blocked' \in BOOLEAN /\ customer' \in Standing
  BY PlainTypes DEF Inv, TypeOK
<1> QED
  BY <1>1, <1>2, StepKeeps

LEMMA FlagOverdueStep ==
  ASSUME Inv, NEW w \in Workers, FlagOverdue(w) PROVE Inv'
<1> DEFINE read == worker[w].read
<1>1. /\ TypeOK /\ UNCHANGED <<customer, blocked>> /\ Plain
      /\ ordered \/ day >= LateDay
  BY DEF Inv, WorkersInv, FlagOverdue, At
<1>2. read \in Invoice /\ read.overdueMarks \in SUBSET Mark
  BY <1>1 DEF TypeOK, Worker, Invoice
<1>3. invoice' = [read EXCEPT !.status = "overdue", !.overdueMarks = read.overdueMarks]
  BY <1>2 DEF FlagOverdue, Invoice
<1>4. Saved(w, "disable") \/ Saved(w, "claimOverdue") \/ End(w)
  BY DEF FlagOverdue
<1>5. {"disable", "claimOverdue"} \subseteq Awaits
  BY DEF Awaits
<1>6. /\ worker' \in [Workers -> Worker]
      /\ worker'[w].pc \in {"disable", "claimOverdue", "idle", "done"}
      /\ \A q \in Workers \ {w} : worker'[q] = worker[q]
  BY <1>1, <1>4, <1>5, SavedEffect, EndEffect
<1> HIDE DEF read
<1> QED
  BY <1>1, <1>2, <1>3, <1>6, SettlingStep

LEMMA SavePaidStep ==
  ASSUME Inv, NEW r \in Requests, SavePaid(r) PROVE Inv'
<1> DEFINE read == worker[r].read
<1>1. TypeOK /\ r \in Workers /\ UNCHANGED <<customer, blocked>> /\ Plain
  BY WorkerNames DEF Inv, SavePaid
<1>2. read \in Invoice /\ read.overdueMarks \in SUBSET Mark
  BY <1>1 DEF TypeOK, Worker, Invoice
<1>3. invoice' = [read EXCEPT !.status = "paid", !.overdueMarks = read.overdueMarks]
  BY <1>2 DEF SavePaid, Invoice
<1>4. Saved(r, "readCustomer") /\ "readCustomer" \in Awaits
  BY DEF SavePaid, Awaits
<1>5. /\ worker' \in [Workers -> Worker] /\ worker'[r].pc = "readCustomer"
      /\ \A q \in Workers \ {r} : worker'[q] = worker[q]
  BY <1>1, <1>4, SavedEffect
<1> HIDE DEF read
<1> QED
  BY <1>1, <1>2, <1>3, <1>5, SettlingStep

(* The claim, and later its outcome, is saved over an invoice read overdue. *)
LEMMA SaveClaimStep ==
  ASSUME Inv, SaveClaim PROVE Inv'
<1> DEFINE read == worker[Sweep].read
           marks == read.overdueMarks \cup {worker[Sweep].token}
<1>1. TypeOK /\ UNCHANGED <<customer, blocked>> /\ Plain /\ read.status = "overdue"
  BY WorkerNames DEF Inv, WorkersInv, SaveClaim, At
<1>2. read \in Invoice /\ marks \in SUBSET Mark
  BY <1>1, WorkerNames DEF TypeOK, Worker, Invoice
<1>3. invoice' = [read EXCEPT !.status = "overdue", !.overdueMarks = marks]
  BY <1>1, <1>2 DEF SaveClaim, Invoice
<1>4. Saved(Sweep, "publishOverdue") /\ "publishOverdue" \in Awaits
  BY DEF SaveClaim, Awaits
<1>5. /\ worker' \in [Workers -> Worker] /\ worker'[Sweep].pc = "publishOverdue"
      /\ \A q \in Workers \ {Sweep} : worker'[q] = worker[q]
  BY <1>1, <1>4, WorkerNames, SavedEffect
<1> HIDE DEF read, marks
<1> QED
  BY <1>1, <1>2, <1>3, <1>5, WorkerNames, SettlingStep

LEMMA SaveSettledStep ==
  ASSUME Inv, SaveSettled PROVE Inv'
<1> DEFINE read == worker[Sweep].read
           marks == (read.overdueMarks \ {worker[Sweep].token}) \cup
                      IF worker[Sweep].accepted THEN {Sent(day)} ELSE {}
<1>1. /\ TypeOK /\ day \in Days /\ UNCHANGED <<customer, blocked>> /\ Plain
      /\ read.status = "overdue"
  BY WorkerNames DEF Inv, TypeOK, WorkersInv, SaveSettled, At
<1>2. read \in Invoice /\ read.overdueMarks \in SUBSET Mark /\ Sent(day) \in Mark
  BY <1>1, WorkerNames, Tokens DEF TypeOK, Worker, Invoice
<1>3. marks \in SUBSET Mark
  BY <1>2
<1>4. invoice' = [read EXCEPT !.overdueMarks = marks]
  BY <1>2 DEF SaveSettled, Invoice
<1> HIDE DEF marks
<1>5. invoice' = [read EXCEPT !.status = "overdue", !.overdueMarks = marks]
  BY <1>1, <1>2, <1>4 DEF Invoice
<1>6. End(Sweep)
  BY DEF SaveSettled
<1>7. /\ worker' \in [Workers -> Worker] /\ worker'[Sweep].pc \in {"idle", "done"}
      /\ \A q \in Workers \ {Sweep} : worker'[q] = worker[q]
  BY <1>1, <1>6, WorkerNames, EndEffect
<1> HIDE DEF read
<1> QED
  BY <1>1, <1>2, <1>3, <1>5, <1>7, WorkerNames, SettlingStep

-----------------------------------------------------------------------------
(* The steps around the publication of an overdue invoice *)

LEMMA ClaimOverdueStep ==
  ASSUME Inv, ClaimOverdue PROVE Inv'
<1>1. /\ TypeOK /\ day \in Days /\ invoice \in Invoice
      /\ UNCHANGED <<invoice, customer, blocked>> /\ Plain
  BY DEF Inv, TypeOK, ClaimOverdue
<1>2. /\ UNCHANGED <<day, published, ordered>> /\ told' \in BOOLEAN
      /\ faults' \in 0 .. MaxFaults /\ blocked' \in BOOLEAN /\ customer' \in Standing
  BY <1>1, PlainTypes DEF TypeOK
<1>3. CASE invoice.status = "overdue" /\ Sent(day) \notin invoice.overdueMarks
  <2> DEFINE token == Token(Sweep, day)
             x == [worker[Sweep] EXCEPT !.pc = "saveClaim", !.read = invoice, !.token = token]
  <2>1. token \in Mark /\ worker[Sweep] \in Worker
    BY <1>1, WorkerNames, Tokens DEF TypeOK
  <2>2. worker' = [worker EXCEPT ![Sweep] = x]
    BY <1>1, <1>3, WorkerNames DEF ClaimOverdue, TypeOK
  <2> HIDE DEF token
  <2>3. x \in Worker /\ x.pc = "saveClaim" /\ x.read = invoice
    BY <1>1, <2>1 DEF Worker, Awaits
  <2> HIDE DEF x
  <2>4. /\ worker' \in [Workers -> Worker] /\ worker'[Sweep] = x
        /\ \A q \in Workers \ {Sweep} : worker'[q] = worker[q]
    BY <1>1, <2>2, <2>3, WorkerNames, PutEffect
  <2> QED
    BY <1>1, <1>2, <1>3, <2>3, <2>4, WorkerNames, SameMarks, StepKeeps
<1>4. CASE ~(invoice.status = "overdue" /\ Sent(day) \notin invoice.overdueMarks)
  <2>1. /\ worker' = [worker EXCEPT ![Sweep].pc = "publishOverdue", ![Sweep].token = NoToken]
        /\ "publishOverdue" \in Awaits
    BY <1>4 DEF ClaimOverdue, Awaits
  <2>2. /\ worker' \in [Workers -> Worker] /\ worker'[Sweep].pc = "publishOverdue"
        /\ \A q \in Workers \ {Sweep} : worker'[q] = worker[q]
    BY <1>1, <2>1, WorkerNames, Tokens, TokenEffect
  <2> QED
    BY <1>1, <1>2, <2>2, WorkerNames, QuietStep
<1> QED
  BY <1>3, <1>4

LEMMA AfterPublishEffect ==
  ASSUME TypeOK, NEW ok \in BOOLEAN, AfterPublish(ok)
  PROVE  /\ worker' \in [Workers -> Worker]
         /\ worker'[Sweep].pc \in {"settleOverdue", "idle", "done"}
         /\ \A q \in Workers \ {Sweep} : worker'[q] = worker[q]
<1>1. CASE worker[Sweep].token = NoToken
  BY <1>1, WorkerNames, EndEffect DEF AfterPublish
<1>2. CASE worker[Sweep].token # NoToken
  <2> DEFINE x == [worker[Sweep] EXCEPT !.pc = "settleOverdue", !.accepted = ok]
  <2>1. worker' = [worker EXCEPT ![Sweep] = x]
    BY <1>2, WorkerNames DEF AfterPublish, TypeOK
  <2>2. x \in Worker /\ x.pc = "settleOverdue"
    BY WorkerNames DEF TypeOK, Worker, Awaits
  <2> HIDE DEF x
  <2> QED
    BY <2>1, <2>2, WorkerNames, PutEffect
<1> QED
  BY <1>1, <1>2

LEMMA PublishOverdueStep ==
  ASSUME Inv, PublishOverdue \/ OverdueFails PROVE Inv'
<1>1. /\ TypeOK /\ \E ok \in BOOLEAN : AfterPublish(ok)
      /\ UNCHANGED <<day, invoice, customer, blocked, published, ordered>>
  BY DEF Inv, PublishOverdue, OverdueFails
<1>2. told' \in BOOLEAN
  BY <1>1 DEF TypeOK, PublishOverdue, OverdueFails
<1>3. faults' = faults \/ Fault
  BY DEF PublishOverdue, OverdueFails
<1>4. /\ worker' \in [Workers -> Worker]
      /\ worker'[Sweep].pc \in {"settleOverdue", "idle", "done"}
      /\ \A q \in Workers \ {Sweep} : worker'[q] = worker[q]
  BY <1>1, AfterPublishEffect
<1>5. blocked' \in BOOLEAN
  BY <1>1 DEF TypeOK
<1> QED
  BY <1>1, <1>2, <1>3, <1>4, <1>5, WorkerNames, PlainTypes, QuietStep

LEMMA SettleOverdueStep ==
  ASSUME Inv, SettleOverdue PROVE Inv'
<1>1. /\ TypeOK /\ invoice \in Invoice
      /\ UNCHANGED <<invoice, customer, blocked>> /\ Plain
  BY DEF Inv, TypeOK, SettleOverdue
<1>2. /\ UNCHANGED <<day, published, ordered>> /\ told' \in BOOLEAN
      /\ faults' \in 0 .. MaxFaults /\ blocked' \in BOOLEAN /\ customer' \in Standing
  BY <1>1, PlainTypes DEF TypeOK
<1>3. CASE End(Sweep)
  <2>1. /\ worker' \in [Workers -> Worker] /\ worker'[Sweep].pc \in {"idle", "done"}
        /\ \A q \in Workers \ {Sweep} : worker'[q] = worker[q]
    BY <1>1, <1>3, WorkerNames, EndEffect
  <2> QED
    BY <1>1, <1>2, <2>1, WorkerNames, QuietStep
<1>4. CASE ~End(Sweep)
  <2> DEFINE x == [worker[Sweep] EXCEPT !.pc = "saveSettled", !.read = invoice]
  <2>1. worker' = [worker EXCEPT ![Sweep] = x] /\ invoice.status = "overdue"
    BY <1>1, <1>4, WorkerNames DEF SettleOverdue, TypeOK
  <2>2. x \in Worker /\ x.pc = "saveSettled" /\ x.read = invoice
    BY <1>1, WorkerNames DEF TypeOK, Worker, Awaits
  <2> HIDE DEF x
  <2>3. /\ worker' \in [Workers -> Worker] /\ worker'[Sweep] = x
        /\ \A q \in Workers \ {Sweep} : worker'[q] = worker[q]
    BY <1>1, <2>1, <2>2, WorkerNames, PutEffect
  <2> QED
    BY <1>1, <1>2, <2>1, <2>2, <2>3, WorkerNames, SameMarks, StepKeeps
<1> QED
  BY <1>3, <1>4
-----------------------------------------------------------------------------
(* The operator's requests *)

(* A request that is not a suspension begins. *)
LEMMA BeginStep ==
  ASSUME Inv, NEW r \in Requests, NEW x \in Worker,
         Begin(r, x), Plain,
         x.pc \in {"savePaid", "publishReminder", "listOverdue", "enable"}
  PROVE  Inv'
<1>1. /\ TypeOK /\ r \in Workers /\ r # Sweep
      /\ worker' = [worker EXCEPT ![r] = x] /\ UNCHANGED <<invoice, customer, blocked>>
  BY WorkerNames DEF Inv, Begin
<1>2. /\ worker' \in [Workers -> Worker] /\ worker'[r] = x
      /\ \A q \in Workers \ {r} : worker'[q] = worker[q]
  BY <1>1, PutEffect
<1>3. /\ UNCHANGED <<day, published, ordered>> /\ told' \in BOOLEAN
      /\ faults' \in 0 .. MaxFaults /\ blocked' \in BOOLEAN /\ customer' \in Standing
      /\ invoice' \in Invoice /\ (Marked => Marked')
  BY <1>1, PlainTypes, SameMarks DEF TypeOK
<1> QED
  BY <1>1, <1>2, <1>3, StepKeeps

LEMMA RequestBegins ==
  ASSUME Inv, NEW r \in Requests,
         PayInvoice(r) \/ SendReminder(r) \/ RunOverdue(r) \/ ReEnable(r)
  PROVE  Inv'
<1>1. Idle \in Worker /\ invoice \in Invoice
  BY IdleIsWorker DEF Inv, TypeOK
<1>2. CASE PayInvoice(r)
  <2> DEFINE x == [Idle EXCEPT !.pc = "savePaid", !.read = invoice]
  <2>1. x \in Worker /\ x.pc = "savePaid"
    BY <1>1 DEF Worker, Awaits
  <2>2. Begin(r, x) /\ Plain
    BY <1>2 DEF PayInvoice
  <2> HIDE DEF x
  <2> QED
    BY <2>1, <2>2, BeginStep
<1>3. CASE ~PayInvoice(r)
  <2> DEFINE x(pc) == [Idle EXCEPT !.pc = pc]
  <2>1. PICK pc \in {"publishReminder", "listOverdue", "enable"} : Begin(r, x(pc)) /\ Plain
    BY <1>3 DEF SendReminder, RunOverdue, ReEnable
  <2>2. x(pc) \in Worker /\ x(pc).pc = pc
    BY <1>1 DEF Worker, Awaits
  <2> HIDE DEF x
  <2> QED
    BY <2>1, <2>2, BeginStep
<1> QED
  BY <1>2, <1>3

(* From then on, the subscriber may be blocked. *)
LEMMA SuspendCustomerStep ==
  ASSUME Inv, NEW r \in Requests, SuspendCustomer(r) PROVE Inv'
<1> DEFINE x == [Idle EXCEPT !.pc = "disable"]
<1>1. /\ TypeOK /\ WorkersInv /\ ReminderInv /\ r \in Workers /\ r # Sweep
      /\ worker' = [worker EXCEPT ![r] = x] /\ ordered' = TRUE
      /\ UNCHANGED <<day, invoice, customer, blocked, published, told, faults>>
  BY WorkerNames DEF Inv, SuspendCustomer, Begin
<1>2. x \in Worker /\ x.pc = "disable"
  BY IdleIsWorker DEF Worker, Awaits
<1> HIDE DEF x
<1>3. /\ worker' \in [Workers -> Worker] /\ worker'[r] = x
      /\ \A q \in Workers \ {r} : worker'[q] = worker[q]
  BY <1>1, <1>2, PutEffect
<1>4. TypeOK'
  BY <1>1, <1>3 DEF TypeOK
<1>5. WorkersInv'
  BY <1>1, <1>2, <1>3 DEF WorkersInv
<1>6. ReminderInv'
  BY <1>1, <1>3, WorkerNames DEF ReminderInv, Marked, At
<1>7. SuspendedOnlyWhenLate'
  BY <1>1 DEF SuspendedOnlyWhenLate
<1> QED
  BY <1>4, <1>5, <1>6, <1>7 DEF Inv

LEMMA ReadCustomerStep ==
  ASSUME Inv, NEW r \in Requests, ReadCustomer(r) PROVE Inv'
<1>1. /\ TypeOK /\ r \in Workers /\ UNCHANGED <<invoice, customer, blocked>> /\ Plain
      /\ (Goto(r, "enable") \/ End(r))
  BY WorkerNames DEF Inv, ReadCustomer
<1>2. "enable" \in Awaits
  BY DEF Awaits
<1>3. /\ worker' \in [Workers -> Worker] /\ worker'[r].pc \in {"enable", "idle", "done"}
      /\ \A q \in Workers \ {r} : worker'[q] = worker[q]
  BY <1>1, <1>2, GotoEffect, EndEffect
<1> QED
  BY <1>1, <1>3, PlainTypes, QuietStep DEF TypeOK

LEMMA EnableStep ==
  ASSUME Inv, NEW r \in Requests, Enable(r) \/ EnableFails(r) PROVE Inv'
<1>1. /\ TypeOK /\ r \in Workers /\ (Goto(r, "saveActive") \/ End(r))
      /\ UNCHANGED <<day, invoice, customer, published, ordered>>
  BY WorkerNames DEF Inv, Enable, EnableFails, Plain
<1>2. "saveActive" \in Awaits
  BY DEF Awaits
<1>3. /\ worker' \in [Workers -> Worker] /\ worker'[r].pc \in {"saveActive", "idle", "done"}
      /\ \A q \in Workers \ {r} : worker'[q] = worker[q]
  BY <1>1, <1>2, GotoEffect, EndEffect
<1>4. told' \in BOOLEAN /\ blocked' \in BOOLEAN /\ (blocked' => blocked)
  <2>1. told' = told /\ (blocked' = blocked \/ blocked' = FALSE)
    BY DEF Enable, EnableFails, Plain
  <2>2. told \in BOOLEAN /\ blocked \in BOOLEAN
    BY <1>1 DEF TypeOK
  <2>3. CASE blocked' = blocked
    BY <2>1, <2>2, <2>3
  <2>4. CASE blocked' = FALSE
    BY <2>1, <2>2, <2>4
  <2> QED
    BY <2>1, <2>3, <2>4
<1>5. faults' = faults \/ Fault
  BY DEF Enable, EnableFails, Plain
<1> QED
  BY <1>1, <1>3, <1>4, <1>5, PlainTypes, QuietStep

LEMMA SaveActiveStep ==
  ASSUME Inv, NEW r \in Requests, SaveActive(r) PROVE Inv'
<1>1. /\ TypeOK /\ r \in Workers /\ UNCHANGED <<invoice, blocked>> /\ Plain
      /\ customer' = "active" /\ End(r)
  BY WorkerNames DEF Inv, SaveActive
<1>2. /\ worker' \in [Workers -> Worker] /\ worker'[r].pc \in {"idle", "done"}
      /\ \A q \in Workers \ {r} : worker'[q] = worker[q]
  BY <1>1, EndEffect
<1>3. /\ UNCHANGED <<day, published, ordered>> /\ told' \in BOOLEAN
      /\ faults' \in 0 .. MaxFaults /\ blocked' \in BOOLEAN /\ customer' \in Standing
      /\ invoice' \in Invoice /\ (Marked => Marked')
  BY <1>1, PlainTypes, SameMarks DEF TypeOK, Standing
<1> QED
  BY <1>1, <1>2, <1>3, StepKeeps

-----------------------------------------------------------------------------
(* Errors, crashes and the calendar *)

LEMMA DatabaseErrorStep ==
  ASSUME Inv, NEW w \in Workers, DatabaseError(w) PROVE Inv'
<1>1. /\ TypeOK /\ (Goto(w, "listReminders") \/ End(w))
      /\ UNCHANGED <<day, invoice, customer, blocked, published, told, ordered>>
  BY DEF Inv, DatabaseError
<1>2. "listReminders" \in Awaits /\ Fault
  BY DEF Awaits, DatabaseError
<1>3. /\ worker' \in [Workers -> Worker] /\ worker'[w].pc \in {"listReminders", "idle", "done"}
      /\ \A q \in Workers \ {w} : worker'[q] = worker[q]
  BY <1>1, <1>2, GotoEffect, EndEffect
<1>4. told' \in BOOLEAN /\ blocked' \in BOOLEAN
  BY <1>1 DEF TypeOK
<1> QED
  BY <1>1, <1>2, <1>3, <1>4, PlainTypes, QuietStep

(* No worker survives, and none is left at an await that asks for anything. *)
LEMMA CrashStep ==
  ASSUME Inv, Crash PROVE Inv'
<1>1. /\ TypeOK /\ WorkersInv /\ ReminderInv /\ Fault
      /\ worker' = [w \in Workers |-> IF At(w, "idle") THEN Idle ELSE Ended(w)]
      /\ UNCHANGED <<day, invoice, customer, blocked, published, told, ordered>>
  BY DEF Inv, Crash
<1>2. \A w \in Workers : worker'[w] \in Worker /\ worker'[w].pc \in {"idle", "done"}
  BY <1>1, IdleIsWorker
<1>3. TypeOK'
  <2>1. worker' \in [Workers -> Worker]
    BY <1>1, <1>2
  <2> QED
    BY <1>1, <2>1, PlainTypes DEF TypeOK
<1>4. WorkersInv'
  BY <1>2 DEF WorkersInv
<1>5. ReminderInv'
  BY <1>1, <1>2, WorkerNames DEF ReminderInv, Marked, At
<1>6. SuspendedOnlyWhenLate'
  BY <1>1 DEF Inv, SuspendedOnlyWhenLate
<1> QED
  BY <1>3, <1>4, <1>5, <1>6 DEF Inv

(* Nothing is published yet on a new day; who was late is late. *)
LEMMA NextDayStep ==
  ASSUME Inv, NextDay PROVE Inv'
<1>1. /\ TypeOK /\ WorkersInv /\ ReminderInv
      /\ day' = day + 1 /\ day < MaxDay
      /\ UNCHANGED <<invoice, customer, blocked, worker, published, told, ordered, faults>>
  BY DEF Inv, NextDay
<1>2. /\ day' \in Days /\ day' > day /\ \A d \in Days : d > day' => d > day
      /\ day >= LateDay => day' >= LateDay
  BY <1>1, DaysAssumption DEF TypeOK, Days
<1>3. TypeOK'
  BY <1>1, <1>2 DEF TypeOK
<1>4. WorkersInv'
  BY <1>1, <1>2 DEF WorkersInv
<1>5. ReminderInv'
  <2> SUFFICES ASSUME invoice.status \in {"none", "unpaid"}
               PROVE  /\ \A d \in Days : published[d] <= 1 /\ (d > day' => published[d] = 0)
                      /\ published[day'] = 0
                      /\ At(Sweep, "publishReminder") =>
                           /\ published[worker[Sweep].token.day] = 0
                           /\ worker[Sweep].token.day <= day'
                           /\ worker[Sweep].token.day # day'
                      /\ At(Sweep, "rollbackReminder") => published[worker[Sweep].token.day] = 0
    BY <1>1, <1>2 DEF ReminderInv, At
  <2>1. At(Sweep, "publishReminder") =>
          worker[Sweep].token.day <= day /\ worker[Sweep].token.day \in Days
    BY <1>1, WorkerNames DEF ReminderInv, TypeOK, Worker, Mark
  <2>2. At(Sweep, "publishReminder") =>
          worker[Sweep].token.day <= day' /\ worker[Sweep].token.day # day'
    <3>1. day \in Int /\ day' \in Int /\ \A d \in Days : d \in Int
      BY <1>1, <1>2 DEF TypeOK, Days
    <3>2. \A t \in Days : t <= day => t <= day' /\ t # day'
      BY <1>2, <3>1
    <3> QED
      BY <2>1, <3>2
  <2> QED
    BY <1>1, <1>2, <2>2 DEF ReminderInv
<1>6. SuspendedOnlyWhenLate'
  BY <1>1, <1>2 DEF Inv, SuspendedOnlyWhenLate
<1> QED
  BY <1>3, <1>4, <1>5, <1>6 DEF Inv
-----------------------------------------------------------------------------
(* The invariant *)

LEMMA InvInit == Init => Inv
<1> SUFFICES ASSUME Init PROVE Inv
  OBVIOUS
<1>1. \A w \in Workers : worker[w] = Idle
  BY DEF Init
<1>2. TypeOK
  <2>1. day \in Days /\ faults \in 0 .. MaxFaults
    BY DaysAssumption, BoundsAssumption DEF Init, Days
  <2>2. /\ invoice \in Invoice /\ customer \in Standing
        /\ worker \in [Workers -> Worker] /\ published \in [Days -> Nat]
    BY IdleIsWorker DEF Init, Standing
  <2>3. blocked \in BOOLEAN /\ told \in BOOLEAN /\ ordered \in BOOLEAN
    BY DEF Init
  <2> QED
    BY <2>1, <2>2, <2>3 DEF TypeOK
<1>3. WorkersInv
  BY <1>1, IdleIsWorker DEF WorkersInv
<1>4. ReminderInv
  <2>1. day \in Days /\ \A d \in Days : published[d] = 0
    BY DaysAssumption DEF Init, Days
  <2> QED
    BY <1>1, <2>1, IdleIsWorker, WorkerNames DEF ReminderInv, At
<1>5. SuspendedOnlyWhenLate
  BY DEF Init, SuspendedOnlyWhenLate
<1> QED
  BY <1>2, <1>3, <1>4, <1>5 DEF Inv

LEMMA InvStutter ==
  ASSUME Inv, UNCHANGED vars PROVE Inv'
  BY DEF Inv, TypeOK, WorkersInv, ReminderInv, SuspendedOnlyWhenLate, Marked, At, vars

LEMMA WorkerSteps ==
  ASSUME Inv, NEW w \in Workers, WorkerStep(w) PROVE Inv'
  BY ClaimReminderStep, PublishReminderStep, ReminderFailsStep, ConfirmReminderStep,
     ListOverdueStep, FlagOverdueStep, DisableStep, SaveSuspendedStep DEF WorkerStep

LEMMA InvStep == Inv /\ [Next]_vars => Inv'
<1> SUFFICES ASSUME Inv, [Next]_vars PROVE Inv'
  OBVIOUS
<1>1. CASE SweepStep
  BY <1>1, WorkerNames, StartSweepStep, GenerateInvoiceStep, ListRemindersStep,
     RollbackReminderStep, ClaimOverdueStep, SaveClaimStep, PublishOverdueStep,
     SettleOverdueStep, SaveSettledStep, WorkerSteps DEF SweepStep
<1>2. ASSUME NEW r \in Requests, RequestStep(r) PROVE Inv'
  BY <1>2, WorkerNames, RequestBegins, SavePaidStep, ReadCustomerStep, EnableStep,
     SaveActiveStep, SuspendCustomerStep, WorkerSteps DEF RequestStep
<1>3. ASSUME NEW w \in Workers, DatabaseError(w) PROVE Inv'
  BY <1>3, DatabaseErrorStep
<1>4. CASE Crash
  BY <1>4, CrashStep
<1>5. CASE NextDay
  BY <1>5, NextDayStep
<1>6. CASE UNCHANGED vars
  BY <1>6, InvStutter
<1> QED
  BY <1>1, <1>2, <1>3, <1>4, <1>5, <1>6 DEF Next

THEOREM Inductive == Spec => []Inv
  BY InvInit, InvStep, PTL DEF Spec

-----------------------------------------------------------------------------
(* What is promised of the sweep and of the requests *)

(* The variables of the sweep, of the requests and of the router keep their  *)
(* types in every state.                                                     *)
THEOREM BillingTyping == Spec => []TypeOK
<1>1. Inv => TypeOK
  BY DEF Inv
<1> QED
  BY <1>1, Inductive, PTL

(* While an invoice is unpaid the sweep gets at most one reminder of a day   *)
(* through to Redis: the claim is given under a lock, and only when nothing  *)
(* of today is marked (claimReminder, confirmReminder, rollbackReminder).    *)
THEOREM OneReminderPerDay == Spec => []ReminderOncePerDay
<1>1. Inv => ReminderOncePerDay
  BY DEF Inv, ReminderInv, ReminderOncePerDay
<1> QED
  BY <1>1, Inductive, PTL

(* Nobody is suspended or blocked before the grace period is over, unless an *)
(* operator asked: not by an await that resumes late, a crash or a payment   *)
(* that overtakes the sweep.                                                 *)
THEOREM SuspendedLate == Spec => []SuspendedOnlyWhenLate
<1>1. Inv => SuspendedOnlyWhenLate
  BY DEF Inv
<1> QED
  BY <1>1, Inductive, PTL

(* No step takes a paid invoice back, except a save by a worker that read it *)
(* before the payment: the sweep's flag or the claim and the outcome of a    *)
(* notification.                                                             *)
LEMMA PaidStep ==
  ASSUME Inv, [Next]_vars, invoice.status = "paid",
         \A w \in Workers : worker[w].pc \in {"flag", "saveClaim", "saveSettled"}
                              => worker[w].read.status = "paid"
  PROVE  invoice'.status = "paid"
<1>1. /\ TypeOK /\ invoice \in Invoice
      /\ \A w \in Workers : worker[w].pc \notin {"flag", "saveClaim", "saveSettled"}
  BY DEF Inv, TypeOK, WorkersInv
<1>2. ASSUME NEW w \in Workers, WorkerStep(w) PROVE invoice'.status = "paid"
  <2>1. CASE ClaimReminder(w)
    BY <1>1, <2>1 DEF ClaimReminder, Invoice
  <2>2. CASE ConfirmReminder(w)
    BY <1>1, <2>2 DEF ConfirmReminder, Invoice
  <2>3. CASE FlagOverdue(w)
    BY <1>1, <2>3 DEF FlagOverdue, At
  <2>4. CASE \/ PublishReminder(w) \/ ReminderFails(w) \/ ListOverdue(w)
             \/ Disable(w) \/ DisableFails(w) \/ SaveSuspended(w)
    BY <2>4 DEF PublishReminder, ReminderFails, ListOverdue, Disable, DisableFails,
                SaveSuspended
  <2> QED
    BY <1>2, <2>1, <2>2, <2>3, <2>4 DEF WorkerStep
<1>3. CASE SweepStep
  <2>1. CASE SaveClaim \/ SaveSettled
    BY <1>1, <2>1, WorkerNames DEF SaveClaim, SaveSettled, At
  <2>2. CASE GenerateInvoice
    BY <1>1, <2>2 DEF GenerateInvoice, Invoice
  <2>3. CASE RollbackReminder
    BY <1>1, <2>3 DEF RollbackReminder, Invoice
  <2>4. CASE \/ StartSweep \/ ListReminders \/ ClaimOverdue \/ PublishOverdue
             \/ OverdueFails \/ SettleOverdue
    BY <2>4 DEF StartSweep, ListReminders, ClaimOverdue, PublishOverdue, OverdueFails,
                SettleOverdue
  <2> QED
    BY <1>2, <1>3, <2>1, <2>2, <2>3, <2>4, WorkerNames DEF SweepStep
<1>4. ASSUME NEW r \in Requests, RequestStep(r) PROVE invoice'.status = "paid"
  <2>1. CASE SavePaid(r)
    <3>1. worker[r].read \in Invoice
      BY <1>1, WorkerNames DEF TypeOK, Worker
    <3> QED
      BY <2>1, <3>1 DEF SavePaid, Invoice
  <2>2. CASE \/ PayInvoice(r) \/ SendReminder(r) \/ RunOverdue(r) \/ ReEnable(r)
             \/ SuspendCustomer(r)
    BY <2>2 DEF PayInvoice, SendReminder, RunOverdue, ReEnable, SuspendCustomer, Begin
  <2>3. CASE ReadCustomer(r) \/ Enable(r) \/ EnableFails(r) \/ SaveActive(r)
    BY <2>3 DEF ReadCustomer, Enable, EnableFails, SaveActive
  <2> QED
    BY <1>2, <1>4, <2>1, <2>2, <2>3, WorkerNames DEF RequestStep
<1>5. CASE Crash \/ NextDay \/ (\E w \in Workers : DatabaseError(w)) \/ UNCHANGED vars
  BY <1>5 DEF Crash, NextDay, DatabaseError, vars
<1> QED
  BY <1>3, <1>4, <1>5 DEF Next

(* A paid invoice stays paid unless a save of an older reading is due.       *)
THEOREM PaidInvoiceFinal == Spec => PaidIsFinal
<1>1. Inv /\ [Next]_vars =>
        [/\ invoice.status = "paid"
         /\ \A w \in Workers :
              worker[w].pc \in {"flag", "saveClaim", "saveSettled"}
                => worker[w].read.status = "paid"
         => invoice'.status = "paid"]_vars
  BY PaidStep
<1> QED
  BY <1>1, Inductive, PTL DEF Spec, PaidIsFinal
=============================================================================
