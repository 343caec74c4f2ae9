-------------------------- MODULE BotServiceProofs --------------------------
(***************************************************************************)
(* Proofs about bot-py-service: ResellerBot first, for every number of     *)
(* bots, buttons pressed, panel requests and faults, every balance, price  *)
(* and top-up amount; then BotSettings, for every number of bots, every    *)
(* length of the day and every bound.                                      *)
(***************************************************************************)
EXTENDS ResellerBot, BotSettings, SequenceTheorems, FiniteSetTheorems, WellFoundedInduction, TLAPS

(* A bot that has drawn a voucher, or claimed a top-up request. *)
Buying(b) == bot[b].pc \in {"provision", "debit", "remove", "show"}
Deciding(b) == bot[b].pc \in {"credit", "save", "finish"}

(* No two bots work on one voucher; it is debited between "debit" and        *)
(* "show", and on the router by then.                                        *)
VoucherInv ==
  /\ \A b \in Bots : Buying(b) =>
       /\ bot[b].ref \in 1 .. drawn
       /\ \A c \in Bots : Buying(c) /\ bot[c].ref = bot[b].ref => c = b
  /\ \A b \in Bots : bot[b].pc \in {"provision", "debit", "remove"} => bot[b].ref \notin Debited
  /\ \A b \in Bots : bot[b].pc = "debit" => bot[b].ref \in router
  /\ \A b \in Bots : bot[b].pc = "show" => bot[b].ref \in Debited
  /\ Debited \subseteq 1 .. drawn
  /\ DeliveredIsPaid

(* A claimed request belongs to one bot, which knows whether it is credited. *)
RequestInv ==
  /\ \A b \in Bots : Deciding(b) =>
       /\ bot[b].ref \in TopupRequests /\ request[bot[b].ref] = "processing"
       /\ \A c \in Bots : Deciding(c) /\ bot[c].ref = bot[b].ref => c = b
  /\ \A b \in Bots : bot[b].pc \in {"approve", "reject"} => bot[b].ref \in TopupRequests
  /\ \A b \in Bots : bot[b].pc \in {"credit", "save"} => bot[b].ref \notin Credited
  /\ \A b \in Bots : bot[b].pc = "credit" => bot[b].outcome = "rejected"
  /\ \A b \in Bots : bot[b].pc = "finish" =>
       (bot[b].outcome = "approved" <=> bot[b].ref \in Credited)
  /\ StatusTellsCredit

(* A panel request that is not answered has no ledger row yet. *)
PanelInv ==
  /\ IsFiniteSet(ledger)
  /\ \A p \in PanelRequests : panel[p].pc # "done" =>
       \A r \in ledger : r.kind = "panel" => r.ref # p

(* A handler runs for an update. *)
UpdateInv == \A b \in Bots : bot[b].pc # "idle" => bot[b].last \in Presses

Inv == TypeOK /\ VoucherInv /\ RequestInv /\ PanelInv /\ UpdateInv

-----------------------------------------------------------------------------
(* The ledger *)

PurchaseRow(v) == [kind |-> "purchase", ref |-> v, amount |-> -Price]
TopupRow(q) == [kind |-> "topup", ref |-> q, amount |-> TopupAmount]
PanelRow(p, amount) == [kind |-> "panel", ref |-> p, amount |-> amount]

LEMMA PurchaseLedger ==
  ASSUME Inv, NEW v \in Vouchers, ledger' = ledger \cup {PurchaseRow(v)}
  PROVE  /\ ledger' \subseteq LedgerRow /\ IsFiniteSet(ledger')
         /\ Debited' = Debited \cup {v} /\ Credited' = Credited
         /\ \A r \in ledger' : r.kind = "panel" => r \in ledger
<1>1. PurchaseRow(v).kind = "purchase" /\ PurchaseRow(v).ref = v /\ PurchaseRow(v) \in LedgerRow
  BY DEF PurchaseRow, LedgerRow
<1>2. IsFiniteSet(ledger')
  BY FS_AddElement DEF Inv, PanelInv
<1> HIDE DEF PurchaseRow
<1> QED
  BY <1>1, <1>2 DEF Debited, Credited, Inv, TypeOK

LEMMA TopupLedger ==
  ASSUME Inv, NEW q \in TopupRequests, ledger' = ledger \cup {TopupRow(q)}
  PROVE  /\ ledger' \subseteq LedgerRow /\ IsFiniteSet(ledger')
         /\ Credited' = Credited \cup {q} /\ Debited' = Debited
         /\ \A r \in ledger' : r.kind = "panel" => r \in ledger
<1>1. TopupRow(q).kind = "topup" /\ TopupRow(q).ref = q /\ TopupRow(q) \in LedgerRow
  BY DEF TopupRow, LedgerRow
<1>2. IsFiniteSet(ledger')
  BY FS_AddElement DEF Inv, PanelInv
<1> HIDE DEF TopupRow
<1> QED
  BY <1>1, <1>2 DEF Debited, Credited, Inv, TypeOK

LEMMA PanelLedger ==
  ASSUME Inv, NEW p \in PanelRequests, NEW amount \in Adjustments,
         ledger' = ledger \cup {PanelRow(p, amount)}
  PROVE  /\ ledger' \subseteq LedgerRow /\ IsFiniteSet(ledger')
         /\ Credited' = Credited /\ Debited' = Debited
         /\ \A r \in ledger' : r.kind = "panel" => r \in ledger \/ r.ref = p
<1>1. /\ PanelRow(p, amount).kind = "panel" /\ PanelRow(p, amount).ref = p
      /\ PanelRow(p, amount) \in LedgerRow
  BY DEF PanelRow, LedgerRow
<1>2. IsFiniteSet(ledger')
  BY FS_AddElement DEF Inv, PanelInv
<1> HIDE DEF PanelRow
<1> QED
  BY <1>1, <1>2 DEF Debited, Credited, Inv, TypeOK

-----------------------------------------------------------------------------
(* A bot moves on *)

LEMMA RestartedIsBot ==
  /\ Restarted \in Bot /\ Restarted.pc = "idle" /\ Restarted.last = 0
  BY DEF Restarted, Bot

LEMMA BotPut ==
  ASSUME Inv, NEW b \in Bots, NEW x \in Bot, bot' = [bot EXCEPT ![b] = x]
  PROVE  bot' \in [Bots -> Bot] /\ bot'[b] = x /\ \A c \in Bots \ {b} : bot'[c] = bot[c]
  BY DEF Inv, TypeOK

LEMMA GotoPut ==
  ASSUME Inv, NEW b \in Bots, Goto(b, "show") \/ Goto(b, "debit") \/ Goto(b, "remove")
                              \/ Goto(b, "insert"),
         bot[b].pc # "idle"
  PROVE  /\ bot' \in [Bots -> Bot] /\ \A c \in Bots \ {b} : bot'[c] = bot[c]
         /\ bot'[b].ref = bot[b].ref /\ UpdateInv'
         /\ \A pc : Goto(b, pc) => bot'[b].pc = pc
<1>1. PICK pc \in {"show", "debit", "remove", "insert"} : Goto(b, pc)
  OBVIOUS
<1> DEFINE x == [bot[b] EXCEPT !.pc = pc]
<1>2. bot[b] \in Bot
  BY DEF Inv, TypeOK
<1>3. x \in Bot /\ x.ref = bot[b].ref /\ x.pc = pc /\ x.last \in Presses
  BY <1>2 DEF Bot, Inv, UpdateInv
<1>4. bot' = [bot EXCEPT ![b] = x]
  BY <1>1 DEF Goto, Inv, TypeOK
<1>5. ASSUME NEW to, Goto(b, to) PROVE bot'[b].pc = to
  BY <1>2, <1>5 DEF Goto, Inv, TypeOK, Bot
<1> HIDE DEF x
<1> QED
  BY <1>3, <1>4, <1>5, BotPut DEF Inv, UpdateInv

(* The handler returns or raises. *)
LEMMA LeavePut ==
  ASSUME Inv, NEW b \in Bots, Return(b) \/ Raise(b), bot[b].pc # "idle"
  PROVE  /\ bot' \in [Bots -> Bot] /\ \A c \in Bots \ {b} : bot'[c] = bot[c]
         /\ bot'[b].pc = "idle" /\ ended' \subseteq Presses /\ UNCHANGED <<pressed, queue>>
         /\ UpdateInv'
<1> DEFINE x == [Restarted EXCEPT !.last = bot[b].last, !.batch = bot[b].batch]
           y == [Restarted EXCEPT !.last = bot[b].last]
<1>1. bot[b].last \in Presses /\ bot[b].batch \in Seq(Update) /\ ended \subseteq Presses
  BY DEF Inv, TypeOK, UpdateInv, Bot
<1>2. x \in Bot /\ y \in Bot /\ x.pc = "idle" /\ y.pc = "idle"
  BY <1>1, RestartedIsBot DEF Bot
<1>3. bot' = [bot EXCEPT ![b] = x] \/ bot' = [bot EXCEPT ![b] = y]
  BY DEF Return, Raise
<1> HIDE DEF x, y
<1> QED
  BY <1>1, <1>2, <1>3, BotPut DEF Return, Raise, Inv, UpdateInv
LEMMA Faults ==
  ASSUME Inv, faults' = faults \/ Fault PROVE faults' \in 0 .. MaxFaults
  BY BoundsAssumption DEF Inv, TypeOK, Fault

(* What is not touched stays true. *)
LEMMA VouchersKeep ==
  ASSUME Inv, Debited' = Debited, UNCHANGED <<router, drawn, shown>>,
         \A b \in Bots : \/ bot'[b].pc = bot[b].pc /\ bot'[b].ref = bot[b].ref
                         \/ ~Buying(b)'
  PROVE  VoucherInv'
<1>1. \A b \in Bots : Buying(b)' => Buying(b) /\ bot'[b].pc = bot[b].pc /\ bot'[b].ref = bot[b].ref
  BY DEF Buying
<1>2. DeliveredIsPaid'
  BY DEF Inv, VoucherInv, DeliveredIsPaid
<1>3. \A b \in Bots : /\ bot'[b].pc \in {"provision", "debit", "remove"} => bot'[b].ref \notin Debited'
                      /\ bot'[b].pc = "debit" => bot'[b].ref \in router'
                      /\ bot'[b].pc = "show" => bot'[b].ref \in Debited'
  BY <1>1 DEF Inv, VoucherInv, Buying
<1>4. \A b \in Bots : Buying(b)' =>
        /\ bot'[b].ref \in 1 .. drawn'
        /\ \A c \in Bots : Buying(c)' /\ bot'[c].ref = bot'[b].ref => c = b
  BY <1>1 DEF Inv, VoucherInv
<1> QED
  BY <1>2, <1>3, <1>4 DEF Inv, VoucherInv

LEMMA RequestsKeep ==
  ASSUME Inv, Credited' = Credited, request' = request,
         \A b \in Bots : \/ /\ bot'[b].pc = bot[b].pc /\ bot'[b].ref = bot[b].ref
                            /\ bot'[b].outcome = bot[b].outcome
                         \/ bot'[b].pc \notin {"approve", "reject", "credit", "save", "finish"}
  PROVE  RequestInv'
<1>1. \A b \in Bots : Deciding(b)' => Deciding(b) /\ bot'[b].ref = bot[b].ref
  BY DEF Deciding
<1>2. StatusTellsCredit'
  BY DEF Inv, RequestInv, StatusTellsCredit
<1>3. \A b \in Bots :
        /\ bot'[b].pc \in {"approve", "reject"} => bot'[b].ref \in TopupRequests
        /\ bot'[b].pc \in {"credit", "save"} => bot'[b].ref \notin Credited'
        /\ bot'[b].pc = "credit" => bot'[b].outcome = "rejected"
        /\ bot'[b].pc = "finish" => (bot'[b].outcome = "approved" <=> bot'[b].ref \in Credited')
  BY DEF Inv, RequestInv
<1>4. \A b \in Bots : Deciding(b)' =>
        /\ bot'[b].ref \in TopupRequests /\ request'[bot'[b].ref] = "processing"
        /\ \A c \in Bots : Deciding(c)' /\ bot'[c].ref = bot'[b].ref => c = b
  BY <1>1 DEF Inv, RequestInv
<1> QED
  BY <1>2, <1>3, <1>4 DEF RequestInv

(* Nobody is buying or deciding more than before, and the ledger stays. *)
LEMMA AllKeep ==
  ASSUME Inv, UNCHANGED <<ledger, router, drawn, shown, request>>,
         \A b \in Bots : \/ /\ bot'[b].pc = bot[b].pc /\ bot'[b].ref = bot[b].ref
                            /\ bot'[b].outcome = bot[b].outcome
                         \/ bot'[b].pc \in {"idle", "buy", "ask", "insert"},
         \A p \in PanelRequests : panel[p].pc = "done" => panel'[p].pc = "done"
  PROVE  VoucherInv' /\ RequestInv' /\ PanelInv'
<1>1. Debited' = Debited /\ Credited' = Credited
  BY DEF Debited, Credited
<1>2. VoucherInv'
  BY <1>1, VouchersKeep DEF Buying
<1>3. RequestInv'
  BY <1>1, RequestsKeep
<1>4. PanelInv'
  BY DEF Inv, PanelInv
<1> QED
  BY <1>2, <1>3, <1>4

(* The handler is over: nothing else has changed. *)
LEMMA LeaveKeep ==
  ASSUME Inv, NEW b \in Bots, Return(b) \/ Raise(b), bot[b].pc # "idle",
         UNCHANGED <<account, requests, vouchers, panel>>, faults' = faults \/ Fault
  PROVE  Inv'
<1>1. /\ bot' \in [Bots -> Bot] /\ \A c \in Bots \ {b} : bot'[c] = bot[c]
      /\ bot'[b].pc = "idle" /\ ended' \subseteq Presses /\ UNCHANGED <<pressed, queue>>
      /\ UpdateInv'
  BY LeavePut
<1>2. faults' \in 0 .. MaxFaults
  BY Faults
<1>3. TypeOK'
  BY <1>1, <1>2 DEF Inv, TypeOK, account, requests, vouchers
<1>4. VoucherInv' /\ RequestInv' /\ PanelInv'
  BY <1>1, AllKeep DEF account, requests, vouchers
<1> QED
  BY <1>1, <1>3, <1>4 DEF Inv

-----------------------------------------------------------------------------
(* Telegram and the polling loop *)

LEMMA PressStep ==
  ASSUME Inv, NEW b \in Bots,
         \/ \E kind \in {"buy", "ask"} : Press(b, kind, 0)
         \/ \E kind \in {"approve", "reject"}, q \in TopupRequests : Press(b, kind, q)
  PROVE  Inv'
<1>1. PICK kind, q : /\ Press(b, kind, q)
                     /\ \/ kind \in {"buy", "ask"} /\ q = 0
                        \/ kind \in {"approve", "reject"} /\ q \in TopupRequests
  OBVIOUS
<1> DEFINE u == [id |-> pressed + 1, kind |-> kind, ref |-> q]
<1>2. /\ pressed < MaxPresses /\ pressed' = pressed + 1
      /\ queue' = [queue EXCEPT ![b] = Append(queue[b], u)]
      /\ UNCHANGED <<account, requests, vouchers, bot, panel, ended, faults>>
  BY <1>1 DEF Press, Inv, TypeOK
<1>3. pressed' \in 0 .. MaxPresses /\ pressed + 1 \in Presses
  BY <1>2, BoundsAssumption DEF Inv, TypeOK, Presses
<1>4. u \in Update
  BY <1>1, <1>3 DEF Update
<1> HIDE DEF u
<1>5. queue' \in [Bots -> Seq(Update)]
  <2>1. queue \in [Bots -> Seq(Update)] /\ Append(queue[b], u) \in Seq(Update)
    BY <1>4, AppendProperties DEF Inv, TypeOK
  <2> QED
    BY <1>2, <2>1
<1>6. TypeOK'
  BY <1>2, <1>3, <1>5 DEF Inv, TypeOK, account, requests, vouchers
<1>7. VoucherInv' /\ RequestInv' /\ PanelInv' /\ UpdateInv'
  BY <1>2, AllKeep DEF account, requests, vouchers, Inv, UpdateInv
<1> QED
  BY <1>6, <1>7 DEF Inv

LEMMA KeptUpdates ==
  ASSUME Inv, NEW b \in Bots
  PROVE  SubSeq(queue[b], Confirmed(b) + 1, Len(queue[b])) \in Seq(Update)
<1> DEFINE q == queue[b]
           S == {i \in DOMAIN q : q[i].id <= bot[b].last}
<1>1. q \in Seq(Update) /\ Len(q) \in Nat /\ DOMAIN q = 1 .. Len(q)
  BY DEF Inv, TypeOK
<1>2. IsFiniteSet(1 .. Len(q)) /\ Cardinality(1 .. Len(q)) = Len(q)
  <2>1. 1 \in Int /\ Len(q) \in Int /\ Len(q) - 1 + 1 = Len(q) /\ (1 > Len(q) => Len(q) = 0)
    BY <1>1
  <2> QED
    BY <2>1, FS_Interval
<1>3. S \subseteq 1 .. Len(q)
  BY <1>1
<1>4. Cardinality(S) \in Nat
  BY <1>2, <1>3, FS_Subset, FS_CardinalityType
<1>5. Confirmed(b) \in Nat
  BY <1>4 DEF Confirmed
<1> HIDE DEF q
<1>6. SubSeq(q, Confirmed(b) + 1, Len(q)) \in Seq(Update)
  <2>1. \A i \in Confirmed(b) + 1 .. Len(q) : i \in 1 .. Len(q) /\ q[i] \in Update
    BY <1>1, <1>5
  <2> QED
    BY <1>1, <1>5, <2>1, SubSeqProperties
<1> QED
  BY <1>6 DEF q

LEMMA PollStep ==
  ASSUME Inv, NEW b \in Bots, GetUpdates(b) \/ HandleUpdate(b) PROVE Inv'
<1>1. bot[b] \in Bot /\ queue \in [Bots -> Seq(Update)] /\ bot[b].pc = "idle"
  BY DEF Inv, TypeOK, GetUpdates, HandleUpdate, At
<1>2. /\ UNCHANGED <<exists, saldo, ledger, request, chat, router, drawn, shown, pressed>>
      /\ UNCHANGED <<panel, ended, faults>>
  BY DEF GetUpdates, HandleUpdate, account, requests, vouchers, telegram
<1>3. CASE GetUpdates(b)
  <2> DEFINE kept == SubSeq(queue[b], Confirmed(b) + 1, Len(queue[b]))
             x == [bot[b] EXCEPT !.batch = kept]
  <2>1. queue' = [queue EXCEPT ![b] = kept] /\ bot' = [bot EXCEPT ![b].batch = kept]
    BY <1>3 DEF GetUpdates
  <2>2. kept \in Seq(Update)
    BY KeptUpdates
  <2> HIDE DEF kept
  <2>3. x \in Bot /\ x.pc = "idle" /\ bot' = [bot EXCEPT ![b] = x]
    BY <1>1, <2>1, <2>2 DEF Bot, Inv, TypeOK
  <2>4. queue' \in [Bots -> Seq(Update)]
    BY <1>1, <2>1, <2>2
  <2> HIDE DEF x
  <2>5. bot' \in [Bots -> Bot] /\ bot'[b] = x /\ \A c \in Bots \ {b} : bot'[c] = bot[c]
    BY <2>3, BotPut
  <2>6. TypeOK'
    BY <1>2, <2>4, <2>5 DEF Inv, TypeOK
  <2>7. VoucherInv' /\ RequestInv' /\ PanelInv'
    BY <1>2, <2>3, <2>5, AllKeep
  <2>8. UpdateInv'
    BY <2>3, <2>5 DEF Inv, UpdateInv
  <2> QED
    BY <2>6, <2>7, <2>8 DEF Inv
<1>4. CASE HandleUpdate(b)
  <2> DEFINE u == Head(bot[b].batch)
             rest == Tail(bot[b].batch)
             x == [bot[b] EXCEPT !.last = u.id, !.batch = rest, !.pc = u.kind, !.ref = u.ref]
  <2>1. u \in Update /\ rest \in Seq(Update) /\ queue' = queue
    <3>1. bot[b].batch \in Seq(Update) /\ bot[b].batch # <<>>
      BY <1>1, <1>4 DEF HandleUpdate, Bot
    <3> QED
      BY <1>4, <3>1, HeadTailProperties DEF HandleUpdate, telegram
  <2>2. bot' = [bot EXCEPT ![b] = x]
    BY <1>4 DEF HandleUpdate, Taken, Inv, TypeOK
  <2> HIDE DEF u, rest
  <2>3. /\ u.id \in Presses /\ u.kind \in {"buy", "ask", "approve", "reject"} /\ u.ref \in Nat
        /\ u.kind \in {"approve", "reject"} => u.ref \in TopupRequests
    BY <2>1 DEF Update, TopupRequests
  <2>4. x \in Bot /\ x.pc = u.kind /\ x.ref = u.ref /\ x.last = u.id
    BY <1>1, <2>1, <2>3 DEF Bot
  <2> HIDE DEF x
  <2>5. bot' \in [Bots -> Bot] /\ bot'[b] = x /\ \A c \in Bots \ {b} : bot'[c] = bot[c]
    BY <2>2, <2>4, BotPut
  <2>6. TypeOK'
    BY <1>2, <2>1, <2>5 DEF Inv, TypeOK
  <2>7. Debited' = Debited /\ Credited' = Credited
    BY <1>2 DEF Debited, Credited
  <2>8. VoucherInv'
    BY <1>2, <2>3, <2>4, <2>5, <2>7, VouchersKeep DEF Buying
  <2>9. PanelInv' /\ UpdateInv'
    BY <1>2, <2>3, <2>4, <2>5 DEF Inv, PanelInv, UpdateInv
  <2>10. RequestInv'
    <3>1. StatusTellsCredit'
      BY <1>2, <2>7 DEF Inv, RequestInv, StatusTellsCredit
    <3>2. \A c \in Bots : Deciding(c)' => c # b /\ Deciding(c) /\ bot'[c] = bot[c]
      BY <2>3, <2>4, <2>5 DEF Deciding
    <3>3. \A c \in Bots : bot'[c].pc \in {"approve", "reject"} => bot'[c].ref \in TopupRequests
      BY <2>3, <2>4, <2>5 DEF Inv, RequestInv
    <3>4. \A c \in Bots : Deciding(c)' =>
            /\ bot'[c].ref \in TopupRequests /\ request'[bot'[c].ref] = "processing"
            /\ \A d \in Bots : Deciding(d)' /\ bot'[d].ref = bot'[c].ref => d = c
      BY <1>2, <3>2 DEF Inv, RequestInv
    <3>5. \A c \in Bots :
            /\ bot'[c].pc \in {"credit", "save"} => bot'[c].ref \notin Credited'
            /\ bot'[c].pc = "credit" => bot'[c].outcome = "rejected"
            /\ bot'[c].pc = "finish" => (bot'[c].outcome = "approved" <=> bot'[c].ref \in Credited')
      BY <2>7, <3>2 DEF Inv, RequestInv, Deciding
    <3> QED
      BY <3>1, <3>3, <3>4, <3>5 DEF RequestInv
  <2> QED
    BY <2>6, <2>8, <2>9, <2>10 DEF Inv
<1> QED
  BY <1>3, <1>4
-----------------------------------------------------------------------------
(* Buying a voucher *)

(* One bot works on its voucher, the vouchers of the others are left alone. *)
LEMMA VouchersPut ==
  ASSUME Inv, NEW b \in Bots, \A c \in Bots \ {b} : bot'[c] = bot[c],
         drawn \in Nat, drawn' \in Nat, drawn <= drawn',
         Buying(b)' => /\ bot'[b].ref \in 1 .. drawn'
                       /\ \/ Buying(b) /\ bot'[b].ref = bot[b].ref
                          \/ bot'[b].ref \notin 1 .. drawn,
         \A c \in Bots \ {b} : Buying(c) =>
           /\ bot[c].ref \in Debited' <=> bot[c].ref \in Debited
           /\ bot[c].ref \in router => bot[c].ref \in router',
         bot'[b].pc \in {"provision", "debit", "remove"} => bot'[b].ref \notin Debited',
         bot'[b].pc = "debit" => bot'[b].ref \in router',
         bot'[b].pc = "show" => bot'[b].ref \in Debited',
         Debited' \subseteq 1 .. drawn', DeliveredIsPaid'
  PROVE  VoucherInv'
<1>1. \A c \in Bots \ {b} : Buying(c)' <=> Buying(c)
  BY DEF Buying
<1>2. \A c \in Bots : Buying(c) => /\ bot[c].ref \in 1 .. drawn /\ bot[c].ref \in 1 .. drawn'
                                   /\ \A d \in Bots : Buying(d) /\ bot[d].ref = bot[c].ref => d = c
  BY DEF Inv, VoucherInv
<1>3. ASSUME NEW c \in Bots, Buying(c)'
      PROVE  /\ bot'[c].ref \in 1 .. drawn'
             /\ \A d \in Bots : Buying(d)' /\ bot'[d].ref = bot'[c].ref => d = c
  BY <1>1, <1>2, <1>3
<1>4. ASSUME NEW c \in Bots
      PROVE  /\ bot'[c].pc \in {"provision", "debit", "remove"} => bot'[c].ref \notin Debited'
             /\ bot'[c].pc = "debit" => bot'[c].ref \in router'
             /\ bot'[c].pc = "show" => bot'[c].ref \in Debited'
  BY DEF Inv, VoucherInv, Buying
<1> QED
  BY <1>3, <1>4 DEF VoucherInv

(* The voucher of a bot is its own. *)
LEMMA OwnVoucher ==
  ASSUME Inv, NEW b \in Bots, Buying(b)
  PROVE  /\ bot[b].ref \in Vouchers /\ bot[b].ref \in 1 .. drawn
         /\ \A c \in Bots \ {b} : Buying(c) => bot[c].ref # bot[b].ref
<1>1. bot[b].ref \in 1 .. drawn /\ drawn \in 0 .. MaxVouchers /\ MaxVouchers \in Nat
  BY BoundsAssumption DEF Inv, VoucherInv, TypeOK
<1>2. bot[b].ref \in Vouchers
  BY <1>1 DEF Vouchers
<1> QED
  BY <1>1, <1>2 DEF Inv, VoucherInv

LEMMA BuyStep ==
  ASSUME Inv, NEW b \in Bots, Buy(b) PROVE Inv'
<1>1. /\ bot[b].pc = "buy" /\ bot[b] \in Bot /\ drawn \in 0 .. MaxVouchers
      /\ MaxVouchers \in Nat
      /\ UNCHANGED <<exists, saldo, ledger, request, chat, router, shown, panel, faults>>
  BY BoundsAssumption DEF Buy, At, account, requests, Inv, TypeOK
<1>2. CASE UNCHANGED drawn /\ Return(b)
  BY <1>1, <1>2, LeaveKeep DEF account, requests, vouchers
<1>3. CASE ~(UNCHANGED drawn /\ Return(b))
  <2> DEFINE x == [bot[b] EXCEPT !.pc = "provision", !.ref = drawn + 1]
  <2>1. /\ drawn < MaxVouchers /\ drawn' = drawn + 1 /\ UNCHANGED <<pressed, queue, ended>>
        /\ bot' = [bot EXCEPT ![b] = x]
    BY <1>3 DEF Buy, telegram, Inv, TypeOK
  <2>2. drawn' \in 0 .. MaxVouchers /\ drawn + 1 \in Nat
    BY <1>1, <2>1
  <2>3. x \in Bot /\ x.pc = "provision" /\ x.ref = drawn + 1 /\ x.last = bot[b].last
        /\ x.last \in Presses
    BY <1>1, <2>2 DEF Bot, Inv, UpdateInv
  <2> HIDE DEF x
  <2>4. bot' \in [Bots -> Bot] /\ bot'[b] = x /\ \A c \in Bots \ {b} : bot'[c] = bot[c]
    BY <2>1, <2>3, BotPut
  <2>5. TypeOK'
    BY <1>1, <2>1, <2>2, <2>4 DEF Inv, TypeOK
  <2>6. Debited' = Debited /\ Credited' = Credited /\ Debited \subseteq 1 .. drawn
    BY <1>1 DEF Debited, Credited, Inv, VoucherInv
  <2>7. VoucherInv'
    <3>1. drawn \in Nat /\ drawn' \in Nat /\ drawn <= drawn'
      BY <1>1, <2>1
    <3>2. bot'[b].ref \in 1 .. drawn' /\ bot'[b].ref \notin 1 .. drawn
      BY <2>1, <2>3, <2>4, <3>1
    <3>3. Debited' \subseteq 1 .. drawn' /\ bot'[b].ref \notin Debited'
      BY <2>6, <3>1, <3>2
    <3>4. DeliveredIsPaid'
      BY <1>1, <2>6 DEF Inv, VoucherInv, DeliveredIsPaid
    <3> QED
      BY <1>1, <2>3, <2>4, <2>6, <3>1, <3>2, <3>3, <3>4, VouchersPut
  <2>8. RequestInv'
    BY <1>1, <2>3, <2>4, <2>6, RequestsKeep
  <2>9. PanelInv' /\ UpdateInv'
    BY <1>1, <2>3, <2>4 DEF Inv, PanelInv, UpdateInv
  <2> QED
    BY <2>5, <2>7, <2>8, <2>9 DEF Inv
<1> QED
  BY <1>2, <1>3

(* The router is called, or the reseller is shown the voucher. *)
LEMMA RouterStep ==
  ASSUME Inv, NEW b \in Bots,
         RouterAdds(b) \/ RouterRefuses(b) \/ RemoveVoucher(b) \/ Show(b)
  PROVE  Inv'
<1> DEFINE v == bot[b].ref
<1>1. /\ Buying(b) /\ bot[b].pc # "idle" /\ bot[b].pc \in {"provision", "remove", "show"}
      /\ UNCHANGED <<exists, saldo, ledger, request, chat, drawn, panel, faults>>
  BY DEF RouterAdds, RouterRefuses, RemoveVoucher, Show, At, Buying, account, requests
<1>2. /\ v \in Vouchers /\ v \in 1 .. drawn
      /\ \A c \in Bots \ {b} : Buying(c) => bot[c].ref # v
  BY <1>1, OwnVoucher
<1>3. /\ bot' \in [Bots -> Bot] /\ \A c \in Bots \ {b} : bot'[c] = bot[c]
      /\ bot'[b].pc = "idle" \/ (bot[b].pc = "provision" /\ bot'[b].pc = "debit"
                                 /\ bot'[b].ref = v /\ v \in router')
      /\ ended' \subseteq Presses /\ UNCHANGED <<pressed, queue>>
      /\ UpdateInv'
  <2>1. CASE RouterAdds(b)
    <3>1. Goto(b, "debit") /\ bot[b].pc = "provision" /\ v \in router' /\ UNCHANGED <<pressed, queue, ended>>
      BY <2>1 DEF RouterAdds, At, telegram
    <3>2. ended \subseteq Presses
      BY DEF Inv, TypeOK
    <3>3. /\ bot' \in [Bots -> Bot] /\ \A c \in Bots \ {b} : bot'[c] = bot[c]
          /\ bot'[b].ref = bot[b].ref /\ UpdateInv' /\ bot'[b].pc = "debit"
      BY <1>1, <3>1, GotoPut
    <3> QED
      BY <3>1, <3>2, <3>3
  <2>2. CASE Return(b)
    BY <1>1, <2>2, LeavePut
  <2> QED
    BY <2>1, <2>2 DEF RouterRefuses, RemoveVoucher, Show
<1>4. /\ router' = router \/ router' = router \cup {v}
         \/ (bot[b].pc = "remove" /\ router' = router \ {v})
      /\ shown' = shown \/ (bot[b].pc = "show" /\ shown' = shown \cup {v})
  BY DEF RouterAdds, RouterRefuses, RemoveVoucher, Show, At
<1>5. TypeOK'
  <2>1. router' \subseteq Vouchers /\ shown' \subseteq Vouchers
    BY <1>2, <1>4 DEF Inv, TypeOK
  <2> QED
    BY <1>1, <1>3, <2>1 DEF Inv, TypeOK
<1>6. Debited' = Debited /\ Credited' = Credited
  BY <1>1 DEF Debited, Credited
<1>7. /\ bot[b].pc = "remove" \/ bot[b].pc = "provision" => v \notin Debited
      /\ bot[b].pc = "show" => v \in Debited
      /\ Debited \subseteq 1 .. drawn /\ shown \subseteq Debited /\ Debited \subseteq router
  BY DEF Inv, VoucherInv, DeliveredIsPaid
<1>8. VoucherInv'
  <2>1. drawn \in Nat /\ drawn' \in Nat /\ drawn <= drawn'
    BY <1>1 DEF Inv, TypeOK
  <2>2. DeliveredIsPaid'
    BY <1>4, <1>6, <1>7 DEF DeliveredIsPaid
  <2>3. \A c \in Bots \ {b} : Buying(c) =>
           /\ bot[c].ref \in Debited' <=> bot[c].ref \in Debited
           /\ bot[c].ref \in router => bot[c].ref \in router'
    BY <1>2, <1>4, <1>6
  <2>4. Buying(b)' => bot'[b].pc = "debit"
    BY <1>3 DEF Buying
  <2>5. bot'[b].pc = "debit" => v \notin Debited /\ bot'[b].ref = v /\ v \in router'
    BY <1>3, <1>7
  <2> HIDE DEF v
  <2>6. v = bot[b].ref
    BY DEF v
  <2>7. Buying(b)' => /\ bot'[b].ref \in 1 .. drawn'
                      /\ Buying(b) /\ bot'[b].ref = bot[b].ref
    BY <1>1, <1>2, <2>4, <2>5, <2>6
  <2> QED
    BY <1>1, <1>2, <1>3, <1>6, <1>7, <2>1, <2>2, <2>3, <2>4, <2>5, <2>7, VouchersPut
<1>9. RequestInv'
  BY <1>1, <1>3, <1>6, RequestsKeep
<1>10. PanelInv'
  BY <1>1 DEF Inv, PanelInv
<1> QED
  BY <1>3, <1>5, <1>8, <1>9, <1>10 DEF Inv

LEMMA DebitStep ==
  ASSUME Inv, NEW b \in Bots, Debit(b) \/ NotDebited(b) PROVE Inv'
<1> DEFINE v == bot[b].ref
<1>1. /\ Buying(b) /\ bot[b].pc = "debit"
      /\ UNCHANGED <<exists, request, chat, router, drawn, shown, pressed, queue, ended>>
      /\ UNCHANGED <<panel, faults>>
  BY DEF Debit, NotDebited, At, Buying, account, requests, vouchers, telegram
<1>2. /\ v \in Vouchers /\ v \in 1 .. drawn /\ v \in router /\ v \notin Debited
      /\ \A c \in Bots \ {b} : Buying(c) => bot[c].ref # v
  BY <1>1, OwnVoucher DEF Inv, VoucherInv
<1>3. /\ bot' \in [Bots -> Bot] /\ \A c \in Bots \ {b} : bot'[c] = bot[c]
      /\ bot'[b].ref = bot[b].ref /\ UpdateInv'
      /\ bot'[b].pc = IF Debit(b) THEN "show" ELSE "remove"
  BY <1>1, GotoPut DEF Debit, NotDebited
<1>4. /\ ledger' \subseteq LedgerRow /\ IsFiniteSet(ledger') /\ Credited' = Credited
      /\ Debited' = IF Debit(b) THEN Debited \cup {v} ELSE Debited
      /\ \A r \in ledger' : r.kind = "panel" => r \in ledger
  <2>1. CASE Debit(b)
    <3>1. ledger' = ledger \cup {PurchaseRow(v)}
      BY <2>1 DEF Debit, PurchaseRow
    <3> HIDE DEF v
    <3> QED
      BY <1>2, <2>1, <3>1, PurchaseLedger
  <2>2. CASE ~Debit(b)
    BY <2>2 DEF NotDebited, account, Debited, Credited, Inv, TypeOK, PanelInv
  <2> QED
    BY <2>1, <2>2
<1>5. saldo' \in Int
  <2>1. saldo \in Int /\ Price \in Int
    BY AmountsAssumption DEF Inv, TypeOK
  <2>2. saldo' = saldo \/ saldo' = saldo - Price
    BY DEF Debit, NotDebited, account
  <2> QED
    BY <2>1, <2>2
<1>6. TypeOK'
  BY <1>1, <1>3, <1>4, <1>5 DEF Inv, TypeOK
<1> HIDE DEF v
<1>7. VoucherInv'
  <2>1. drawn \in Nat /\ drawn' \in Nat /\ drawn <= drawn'
    BY <1>1 DEF Inv, TypeOK
  <2>2. Debited \subseteq 1 .. drawn /\ shown \subseteq Debited /\ Debited \subseteq router
    BY DEF Inv, VoucherInv, DeliveredIsPaid
  <2>3. DeliveredIsPaid' /\ Debited' \subseteq 1 .. drawn'
    BY <1>1, <1>2, <1>4, <2>2 DEF DeliveredIsPaid
  <2>4. v = bot[b].ref
    BY DEF v
  <2>5. \A c \in Bots \ {b} : Buying(c) =>
           /\ bot[c].ref \in Debited' <=> bot[c].ref \in Debited
           /\ bot[c].ref \in router => bot[c].ref \in router'
    BY <1>1, <1>2, <1>4
  <2>6. /\ bot'[b].pc \in {"provision", "debit", "remove"} => bot'[b].ref \notin Debited'
        /\ bot'[b].pc = "debit" => bot'[b].ref \in router'
        /\ bot'[b].pc = "show" => bot'[b].ref \in Debited'
    BY <1>2, <1>3, <1>4, <2>4
  <2> QED
    BY <1>1, <1>2, <1>3, <2>1, <2>3, <2>4, <2>5, <2>6, VouchersPut
<1>8. RequestInv'
  BY <1>1, <1>3, <1>4, RequestsKeep
<1>9. PanelInv'
  BY <1>1, <1>4 DEF Inv, PanelInv
<1> QED
  BY <1>3, <1>6, <1>7, <1>8, <1>9 DEF Inv
-----------------------------------------------------------------------------
(* Top-up requests *)

(* One bot works on request q, the requests of the others are left alone. *)
LEMMA RequestsPut ==
  ASSUME Inv, NEW b \in Bots, NEW q \in TopupRequests, \A c \in Bots \ {b} : bot'[c] = bot[c],
         \A c \in Bots \ {b} : Deciding(c) => bot[c].ref # q,
         \A p \in TopupRequests \ {q} : request'[p] = request[p] /\ (p \in Credited' <=> p \in Credited),
         Deciding(b)' => bot'[b].ref = q /\ request'[q] = "processing",
         bot'[b].pc \notin {"approve", "reject"},
         bot'[b].pc \in {"credit", "save"} => q \notin Credited',
         bot'[b].pc = "credit" => bot'[b].outcome = "rejected",
         bot'[b].pc = "finish" => (bot'[b].outcome = "approved" <=> q \in Credited'),
         request'[q] = "approved" => q \in Credited',
         request'[q] \in {"none", "pending", "rejected"} => q \notin Credited'
  PROVE  RequestInv'
<1>1. StatusTellsCredit'
  BY DEF Inv, RequestInv, StatusTellsCredit
<1>2. \A c \in Bots \ {b} : Deciding(c)' <=> Deciding(c)
  BY DEF Deciding
<1>3. \A c \in Bots : Deciding(c) =>
        /\ bot[c].ref \in TopupRequests /\ request[bot[c].ref] = "processing"
        /\ \A d \in Bots : Deciding(d) /\ bot[d].ref = bot[c].ref => d = c
  BY DEF Inv, RequestInv
<1>4. ASSUME NEW c \in Bots, Deciding(c)'
      PROVE  /\ bot'[c].ref \in TopupRequests /\ request'[bot'[c].ref] = "processing"
             /\ \A d \in Bots : Deciding(d)' /\ bot'[d].ref = bot'[c].ref => d = c
  BY <1>2, <1>3, <1>4
<1>5. ASSUME NEW c \in Bots
      PROVE  /\ bot'[c].pc \in {"approve", "reject"} => bot'[c].ref \in TopupRequests
             /\ bot'[c].pc \in {"credit", "save"} => bot'[c].ref \notin Credited'
             /\ bot'[c].pc = "credit" => bot'[c].outcome = "rejected"
             /\ bot'[c].pc = "finish" =>
                  (bot'[c].outcome = "approved" <=> bot'[c].ref \in Credited')
  <2>1. CASE c = b
    BY <2>1 DEF Deciding
  <2>2. CASE c # b
    <3>1. bot'[c] = bot[c] /\ (Deciding(c) => bot[c].ref \in TopupRequests \ {q})
      BY <1>3, <2>2
    <3>2. Deciding(c) => (bot[c].ref \in Credited' <=> bot[c].ref \in Credited)
      BY <3>1
    <3> QED
      BY <3>1, <3>2 DEF Inv, RequestInv, Deciding
  <2> QED
    BY <2>1, <2>2
<1> QED
  BY <1>1, <1>4, <1>5 DEF RequestInv

(* The request of a bot is its own. *)
LEMMA OwnRequest ==
  ASSUME Inv, NEW b \in Bots, Deciding(b)
  PROVE  /\ bot[b].ref \in TopupRequests /\ request[bot[b].ref] = "processing"
         /\ \A c \in Bots \ {b} : Deciding(c) => bot[c].ref # bot[b].ref
  BY DEF Inv, RequestInv

LEMMA AskStep ==
  ASSUME Inv, NEW b \in Bots, Ask(b) \/ AddTopupRequest(b) PROVE Inv'
<1>1. CASE Ask(b)
  <2>1. /\ bot[b].pc = "ask"
        /\ UNCHANGED <<account, requests, vouchers, panel, faults>>
    BY <1>1 DEF Ask, At
  <2>2. CASE Return(b)
    BY <2>1, <2>2, LeaveKeep
  <2>3. CASE Goto(b, "insert") /\ UNCHANGED telegram
    <3>1. /\ bot' \in [Bots -> Bot] /\ \A c \in Bots \ {b} : bot'[c] = bot[c]
          /\ bot'[b].pc = "insert" /\ UpdateInv'
      BY <2>1, <2>3, GotoPut
    <3>2. TypeOK'
      BY <2>1, <2>3, <3>1 DEF Inv, TypeOK, account, requests, vouchers, telegram
    <3>3. VoucherInv' /\ RequestInv' /\ PanelInv'
      BY <2>1, <3>1, AllKeep DEF account, requests, vouchers
    <3> QED
      BY <3>1, <3>2, <3>3 DEF Inv
  <2> QED
    BY <1>1, <2>2, <2>3 DEF Ask
<1>2. CASE AddTopupRequest(b) /\ UNCHANGED requests
  <2>1. bot[b].pc = "insert" /\ Return(b) /\ UNCHANGED <<account, vouchers, panel, faults>>
    BY <1>2 DEF AddTopupRequest, At
  <2> QED
    BY <1>2, <2>1, LeaveKeep
<1>3. CASE AddTopupRequest(b) /\ ~UNCHANGED requests
  <2>1. PICK q \in TopupRequests :
          /\ request[q] = "none" /\ request' = [request EXCEPT ![q] = "pending"]
          /\ chat' \in {chat, [chat EXCEPT ![q] = {b}]}
    BY <1>3 DEF AddTopupRequest
  <2>2. /\ bot[b].pc = "insert" /\ Return(b)
        /\ UNCHANGED <<exists, saldo, ledger, router, drawn, shown, panel, faults>>
    BY <1>3 DEF AddTopupRequest, At, account, vouchers
  <2>3. /\ bot' \in [Bots -> Bot] /\ \A c \in Bots \ {b} : bot'[c] = bot[c]
        /\ bot'[b].pc = "idle" /\ ended' \subseteq Presses /\ UNCHANGED <<pressed, queue>>
        /\ UpdateInv'
    BY <2>2, LeavePut
  <2>4. TypeOK'
    <3>1. [request EXCEPT ![q] = "pending"] \in
            [TopupRequests -> {"none", "pending", "processing", "approved", "rejected"}]
      BY <2>1 DEF Inv, TypeOK
    <3>2. chat' \in [TopupRequests -> SUBSET Bots]
      BY <2>1 DEF Inv, TypeOK
    <3> QED
      BY <2>1, <2>2, <2>3, <3>1, <3>2 DEF Inv, TypeOK
  <2>5. Debited' = Debited /\ Credited' = Credited
    BY <2>2 DEF Debited, Credited
  <2>6. VoucherInv'
    BY <2>2, <2>3, <2>5, VouchersKeep DEF Buying
  <2>7. RequestInv'
    <3>1. q \notin Credited
      BY <2>1 DEF Inv, RequestInv, StatusTellsCredit
    <3>2. \A c \in Bots \ {b} : Deciding(c) => bot[c].ref # q
      BY <2>1, OwnRequest
    <3>3. /\ request'[q] = "pending"
          /\ \A p \in TopupRequests \ {q} : request'[p] = request[p]
      BY <2>1 DEF Inv, TypeOK
    <3>4. ~Deciding(b)'
      BY <2>3 DEF Deciding
    <3> QED
      BY <2>3, <2>5, <3>1, <3>2, <3>3, <3>4, RequestsPut
  <2>8. PanelInv'
    BY <2>2 DEF Inv, PanelInv
  <2> QED
    BY <2>3, <2>4, <2>6, <2>7, <2>8 DEF Inv
<1> QED
  BY <1>1, <1>2, <1>3

LEMMA ClaimStep ==
  ASSUME Inv, NEW b \in Bots, ClaimTopupRequest(b) PROVE Inv'
<1> DEFINE q == bot[b].ref
           pc == IF At(b, "approve") THEN "credit" ELSE "finish"
           x == [bot[b] EXCEPT !.pc = pc, !.outcome = "rejected"]
<1>1. /\ bot[b].pc \in {"approve", "reject"} /\ bot[b] \in Bot /\ q \in TopupRequests
      /\ bot[b].last \in Presses
      /\ UNCHANGED <<exists, saldo, ledger, chat, router, drawn, shown, panel, faults>>
  BY DEF ClaimTopupRequest, account, vouchers, Inv, TypeOK, RequestInv, UpdateInv
<1>2. CASE Return(b) /\ UNCHANGED request
  BY <1>1, <1>2, LeaveKeep DEF account, requests, vouchers
<1>3. CASE ~(Return(b) /\ UNCHANGED request)
  <2>1. /\ request[q] = "pending" /\ request' = [request EXCEPT ![q] = "processing"]
        /\ bot' = [bot EXCEPT ![b] = x] /\ UNCHANGED <<pressed, queue, ended>>
    BY <1>3 DEF ClaimTopupRequest, Claimable, telegram, Inv, TypeOK
  <2>2. /\ x \in Bot /\ x.pc = pc /\ x.ref = q /\ x.outcome = "rejected" /\ x.last = bot[b].last
    BY <1>1 DEF Bot
  <2>3. pc \in {"credit", "finish"}
    OBVIOUS
  <2> HIDE DEF x, pc, q
  <2>4. bot' \in [Bots -> Bot] /\ bot'[b] = x /\ \A c \in Bots \ {b} : bot'[c] = bot[c]
    BY <2>1, <2>2, BotPut
  <2>5. TypeOK'
    BY <1>1, <2>1, <2>4 DEF Inv, TypeOK
  <2>6. Debited' = Debited /\ Credited' = Credited
    BY <1>1 DEF Debited, Credited
  <2>7. VoucherInv'
    BY <1>1, <2>2, <2>3, <2>4, <2>6, VouchersKeep DEF Buying
  <2>8. RequestInv'
    <3>1. q \notin Credited
      BY <1>1, <2>1 DEF Inv, RequestInv, StatusTellsCredit
    <3>2. \A c \in Bots \ {b} : Deciding(c) => bot[c].ref # q
      BY <2>1, OwnRequest
    <3>3. /\ request'[q] = "processing"
          /\ \A p \in TopupRequests \ {q} : request'[p] = request[p]
      BY <1>1, <2>1 DEF Inv, TypeOK
    <3> QED
      BY <1>1, <2>2, <2>3, <2>4, <2>6, <3>1, <3>2, <3>3, RequestsPut
  <2>9. PanelInv' /\ UpdateInv'
    BY <1>1, <2>2, <2>4 DEF Inv, PanelInv, UpdateInv
  <2> QED
    BY <2>5, <2>7, <2>8, <2>9 DEF Inv
<1> QED
  BY <1>2, <1>3

LEMMA ReadBalanceStep ==
  ASSUME Inv, NEW b \in Bots, ReadBalance(b) PROVE Inv'
<1> DEFINE x == IF exists THEN [bot[b] EXCEPT !.pc = "save", !.before = saldo]
                ELSE [bot[b] EXCEPT !.pc = "finish"]
<1>1. /\ bot[b].pc = "credit" /\ bot[b] \in Bot /\ saldo \in Int /\ bot[b].last \in Presses
      /\ UNCHANGED <<exists, saldo, ledger, request, chat, router, drawn, shown, pressed>>
      /\ UNCHANGED <<queue, ended, panel, faults>>
  BY DEF ReadBalance, At, account, requests, vouchers, telegram, Inv, TypeOK, UpdateInv
<1>2. /\ Deciding(b) /\ bot[b].ref \notin Credited /\ bot[b].outcome = "rejected"
  BY <1>1 DEF Deciding, Inv, RequestInv
<1>3. bot' = [bot EXCEPT ![b] = x]
  BY DEF ReadBalance, Inv, TypeOK
<1>4. /\ x \in Bot /\ x.pc \in {"save", "finish"} /\ x.ref = bot[b].ref
      /\ x.outcome = bot[b].outcome /\ x.last = bot[b].last
  BY <1>1 DEF Bot
<1> HIDE DEF x
<1>5. bot' \in [Bots -> Bot] /\ bot'[b] = x /\ \A c \in Bots \ {b} : bot'[c] = bot[c]
  BY <1>3, <1>4, BotPut
<1>6. TypeOK'
  BY <1>1, <1>5 DEF Inv, TypeOK
<1>7. Debited' = Debited /\ Credited' = Credited
  BY <1>1 DEF Debited, Credited
<1>8. VoucherInv'
  BY <1>1, <1>4, <1>5, <1>7, VouchersKeep DEF Buying
<1>9. RequestInv'
  <2>1. /\ bot[b].ref \in TopupRequests /\ request[bot[b].ref] = "processing"
        /\ \A c \in Bots \ {b} : Deciding(c) => bot[c].ref # bot[b].ref
    BY <1>2, OwnRequest
  <2> QED
    BY <1>1, <1>2, <1>4, <1>5, <1>7, <2>1, RequestsPut
<1>10. PanelInv' /\ UpdateInv'
  BY <1>1, <1>4, <1>5 DEF Inv, PanelInv, UpdateInv
<1> QED
  BY <1>6, <1>8, <1>9, <1>10 DEF Inv

LEMMA SaveBalanceStep ==
  ASSUME Inv, NEW b \in Bots, SaveBalance(b) PROVE Inv'
<1> DEFINE q == bot[b].ref
           x == [bot[b] EXCEPT !.pc = "finish", !.outcome = "approved"]
<1>1. /\ bot[b].pc = "save" /\ bot[b] \in Bot /\ bot[b].before \in Int
      /\ bot[b].last \in Presses /\ Deciding(b)
      /\ UNCHANGED <<request, chat, router, drawn, shown, panel, faults>>
  BY DEF SaveBalance, At, requests, vouchers, Inv, TypeOK, UpdateInv, Bot, Deciding
<1>2. CASE ~exists
  BY <1>1, <1>2, LeaveKeep DEF SaveBalance, requests, vouchers
<1>3. CASE exists
  <2>1. /\ exists' = exists /\ saldo' = bot[b].before + TopupAmount
        /\ ledger' = ledger \cup {TopupRow(q)} /\ bot' = [bot EXCEPT ![b] = x]
        /\ UNCHANGED <<pressed, queue, ended>>
    BY <1>3 DEF SaveBalance, TopupRow, telegram, Inv, TypeOK
  <2>2. x \in Bot /\ x.pc = "finish" /\ x.ref = q /\ x.outcome = "approved" /\ x.last = bot[b].last
    BY <1>1 DEF Bot
  <2>3. /\ q \in TopupRequests /\ request[q] = "processing"
        /\ \A c \in Bots \ {b} : Deciding(c) => bot[c].ref # q
    BY <1>1, OwnRequest
  <2> HIDE DEF x, q
  <2>4. bot' \in [Bots -> Bot] /\ bot'[b] = x /\ \A c \in Bots \ {b} : bot'[c] = bot[c]
    BY <2>1, <2>2, BotPut
  <2>5. /\ ledger' \subseteq LedgerRow /\ IsFiniteSet(ledger')
        /\ Credited' = Credited \cup {q} /\ Debited' = Debited
        /\ \A r \in ledger' : r.kind = "panel" => r \in ledger
    BY <2>1, <2>3, TopupLedger
  <2>6. saldo' \in Int
    BY <1>1, <2>1, AmountsAssumption
  <2>7. TypeOK'
    BY <1>1, <2>1, <2>4, <2>5, <2>6 DEF Inv, TypeOK
  <2>8. VoucherInv'
    BY <1>1, <2>2, <2>4, <2>5, VouchersKeep DEF Buying
  <2>9. RequestInv'
    BY <1>1, <2>2, <2>3, <2>4, <2>5, RequestsPut
  <2>10. PanelInv' /\ UpdateInv'
    BY <1>1, <2>2, <2>4, <2>5 DEF Inv, PanelInv, UpdateInv
  <2> QED
    BY <2>7, <2>8, <2>9, <2>10 DEF Inv
<1> QED
  BY <1>2, <1>3

LEMMA FinishStep ==
  ASSUME Inv, NEW b \in Bots, FinishTopupRequest(b) PROVE Inv'
<1> DEFINE q == bot[b].ref
<1>1. /\ bot[b].pc = "finish" /\ bot[b].outcome \in {"approved", "rejected"} /\ Deciding(b)
      /\ request' = [request EXCEPT ![q] = bot[b].outcome] /\ Return(b)
      /\ bot[b].outcome = "approved" <=> q \in Credited
      /\ UNCHANGED <<exists, saldo, ledger, chat, router, drawn, shown, panel, faults>>
  BY DEF FinishTopupRequest, Outcome, At, account, vouchers, Inv, TypeOK, RequestInv, Bot, Deciding
<1>2. /\ q \in TopupRequests /\ \A c \in Bots \ {b} : Deciding(c) => bot[c].ref # q
  BY <1>1, OwnRequest
<1> HIDE DEF q
<1>3. /\ bot' \in [Bots -> Bot] /\ \A c \in Bots \ {b} : bot'[c] = bot[c]
      /\ bot'[b].pc = "idle" /\ ended' \subseteq Presses /\ UNCHANGED <<pressed, queue>>
      /\ UpdateInv'
  BY <1>1, LeavePut
<1>4. TypeOK'
  BY <1>1, <1>2, <1>3 DEF Inv, TypeOK
<1>5. Debited' = Debited /\ Credited' = Credited
  BY <1>1 DEF Debited, Credited
<1>6. VoucherInv'
  BY <1>1, <1>3, <1>5, VouchersKeep DEF Buying
<1>7. RequestInv'
  <2>1. /\ request'[q] = bot[b].outcome
        /\ \A p \in TopupRequests \ {q} : request'[p] = request[p]
    BY <1>1, <1>2 DEF Inv, TypeOK
  <2>2. ~Deciding(b)'
    BY <1>3 DEF Deciding
  <2> QED
    BY <1>1, <1>2, <1>3, <1>5, <2>1, <2>2, RequestsPut
<1>8. PanelInv'
  BY <1>1 DEF Inv, PanelInv
<1> QED
  BY <1>3, <1>4, <1>6, <1>7, <1>8 DEF Inv

LEMMA RaiseStep ==
  ASSUME Inv, NEW b \in Bots, HandlerRaises(b) PROVE Inv'
<1>1. /\ Raise(b) /\ bot[b].pc # "idle" /\ Fault
      /\ UNCHANGED <<account, requests, vouchers, panel>>
  BY DEF HandlerRaises
<1> QED
  BY <1>1, LeaveKeep

-----------------------------------------------------------------------------
(* The admin panel, and the restart *)

LEMMA PanelRequestStep ==
  ASSUME Inv, NEW p \in PanelRequests, PanelStep(p) PROVE Inv'
<1>1. UNCHANGED <<request, chat, router, drawn, shown, pressed, queue, ended, bot, faults>>
  BY DEF PanelStep, PanelRead, PanelTopup, PanelUpsert, PanelEdit, PanelDelete, PanelFails,
         requests, vouchers, telegram, account
<1>2. /\ panel[p].pc \in {"new", "topup", "upsert"} /\ panel[p].before \in Int /\ saldo \in Int
      /\ exists \in BOOLEAN
  BY DEF PanelStep, PanelRead, PanelTopup, PanelUpsert, PanelEdit, PanelDelete, PanelFails, Arrives,
         Inv, TypeOK
<1>3. \E pc \in {"topup", "upsert", "done"}, n \in Int :
        panel' = [panel EXCEPT ![p] = [pc |-> pc, before |-> n]]
  BY <1>2 DEF PanelStep, PanelRead, PanelTopup, PanelUpsert, PanelEdit, PanelDelete, PanelFails, Answered
<1>4. PICK pc \in {"topup", "upsert", "done"}, n \in Int :
        panel' = [panel EXCEPT ![p] = [pc |-> pc, before |-> n]]
  BY <1>3
<1>5. /\ panel' \in [PanelRequests -> [pc : {"new", "topup", "upsert", "done"}, before : Int]]
      /\ \A o \in PanelRequests \ {p} : panel'[o] = panel[o]
  BY <1>4 DEF Inv, TypeOK
<1>6. UpdateInv'
  BY <1>1 DEF Inv, UpdateInv
<1>7. CASE ledger' = ledger
  <2>1. saldo' \in Int /\ exists' \in BOOLEAN
    <3>1. saldo' \in {0, saldo, panel[p].before} \/ \E amount \in Adjustments : PanelTopup(p, amount)
      BY DEF PanelStep, PanelRead, PanelUpsert, PanelEdit, PanelDelete, PanelFails, account
    <3>2. ASSUME NEW amount \in Adjustments, PanelTopup(p, amount) PROVE saldo' \in Int
      BY <1>2, <3>2, AdjustmentsAssumption DEF PanelTopup
    <3>3. exists' \in BOOLEAN
      BY <1>2 DEF PanelStep, PanelRead, PanelTopup, PanelUpsert, PanelEdit, PanelDelete, PanelFails, account
    <3> QED
      BY <1>2, <3>1, <3>2, <3>3
  <2>2. TypeOK'
    BY <1>1, <1>5, <1>7, <2>1 DEF Inv, TypeOK
  <2>3. \A o \in PanelRequests : panel[o].pc = "done" => panel'[o].pc = "done"
    BY <1>2, <1>5
  <2>4. VoucherInv' /\ RequestInv' /\ PanelInv'
    BY <1>1, <1>7, <2>3, AllKeep
  <2> QED
    BY <1>6, <2>2, <2>4 DEF Inv
<1>8. ASSUME NEW amount \in Adjustments, PanelTopup(p, amount) PROVE Inv'
  <2>1. /\ saldo' = panel[p].before + amount /\ ledger' = ledger \cup {PanelRow(p, amount)}
        /\ panel'[p].pc = "done" /\ exists' = exists
    BY <1>8 DEF PanelTopup, PanelRow, Answered, Inv, TypeOK
  <2>2. saldo' \in Int
    BY <1>2, <2>1, AdjustmentsAssumption
  <2>3. /\ ledger' \subseteq LedgerRow /\ IsFiniteSet(ledger')
        /\ Credited' = Credited /\ Debited' = Debited
        /\ \A r \in ledger' : r.kind = "panel" => r \in ledger \/ r.ref = p
    BY <2>1, PanelLedger
  <2>4. TypeOK'
    BY <1>1, <1>5, <2>1, <2>2, <2>3 DEF Inv, TypeOK
  <2>5. VoucherInv' /\ RequestInv'
    BY <1>1, <2>3, VouchersKeep, RequestsKeep
  <2>6. PanelInv'
    BY <1>5, <2>1, <2>3 DEF Inv, PanelInv
  <2> QED
    BY <1>6, <2>4, <2>5, <2>6 DEF Inv
<1> QED
  BY <1>7, <1>8 DEF PanelStep, PanelRead, PanelUpsert, PanelEdit, PanelDelete, PanelFails, account

LEMMA CrashStep ==
  ASSUME Inv, Crash PROVE Inv'
<1>1. /\ UNCHANGED <<exists, saldo, ledger, request, chat, router, drawn, shown>>
      /\ UNCHANGED <<pressed, queue, ended>> /\ faults' \in 0 .. MaxFaults
      /\ bot' = [b \in Bots |-> Restarted]
  BY Faults DEF Crash, AfterRestart, account, requests, vouchers, telegram
<1>2. bot' \in [Bots -> Bot] /\ \A b \in Bots : bot'[b].pc = "idle"
  BY <1>1, RestartedIsBot
<1>3. Answered \in [pc : {"new", "topup", "upsert", "done"}, before : Int] /\ Answered.pc = "done"
  BY DEF Answered
<1>4. /\ panel' \in [PanelRequests -> [pc : {"new", "topup", "upsert", "done"}, before : Int]]
      /\ \A p \in PanelRequests : panel[p].pc = "done" => panel'[p].pc = "done"
  <2>1. panel' = [p \in PanelRequests |-> IF panel[p].pc = "new" THEN panel[p] ELSE Answered]
    BY DEF Crash
  <2>2. panel \in [PanelRequests -> [pc : {"new", "topup", "upsert", "done"}, before : Int]]
    BY DEF Inv, TypeOK
  <2> QED
    BY <1>3, <2>1, <2>2
<1>5. TypeOK'
  BY <1>1, <1>2, <1>4 DEF Inv, TypeOK
<1>6. VoucherInv' /\ RequestInv' /\ PanelInv'
  BY <1>1, <1>2, <1>4, AllKeep
<1>7. UpdateInv'
  BY <1>2 DEF UpdateInv
<1> QED
  BY <1>5, <1>6, <1>7 DEF Inv

-----------------------------------------------------------------------------
(* The invariant *)

LEMMA InvInit == Init => Inv
<1> SUFFICES ASSUME Init PROVE Inv
  OBVIOUS
<1>1. Debited = {} /\ Credited = {} /\ IsFiniteSet(ledger)
  BY FS_EmptySet DEF Init, Debited, Credited
<1>2. \A b \in Bots : bot[b] = Restarted
  BY DEF Init
<1>3. bot \in [Bots -> Bot] /\ \A b \in Bots : bot[b].pc = "idle"
  BY <1>2, RestartedIsBot DEF Init
<1>4. TypeOK
  BY <1>3, AmountsAssumption, BoundsAssumption DEF Init, TypeOK
<1>5. VoucherInv
  BY <1>1, <1>3 DEF Init, VoucherInv, Buying, DeliveredIsPaid
<1>6. RequestInv
  BY <1>1, <1>3 DEF Init, RequestInv, Deciding, StatusTellsCredit
<1>7. PanelInv /\ UpdateInv
  BY <1>1, <1>3 DEF Init, PanelInv, UpdateInv
<1> QED
  BY <1>4, <1>5, <1>6, <1>7 DEF Inv

LEMMA InvStutter ==
  ASSUME Inv, UNCHANGED vars PROVE Inv'
<1>1. TypeOK'
  BY DEF vars, Inv, TypeOK
<1>2. VoucherInv' /\ RequestInv' /\ PanelInv'
  BY AllKeep DEF vars
<1>3. UpdateInv'
  BY DEF vars, Inv, UpdateInv
<1> QED
  BY <1>1, <1>2, <1>3 DEF Inv

LEMMA InvStep == Inv /\ [Next]_vars => Inv'
<1> SUFFICES ASSUME Inv, [Next]_vars PROVE Inv'
  OBVIOUS
<1>1. ASSUME NEW b \in Bots, BotStep(b) PROVE Inv'
  BY <1>1, PollStep, BuyStep, RouterStep, DebitStep, AskStep, ClaimStep, ReadBalanceStep,
     SaveBalanceStep, FinishStep DEF BotStep
<1> QED
  BY <1>1, PressStep, RaiseStep, PanelRequestStep, CrashStep, InvStutter DEF Next

THEOREM Inductive == Spec => []Inv
  BY InvInit, InvStep, PTL DEF Spec

(* Balance, ledger, requests, Telegram's queues and the polling threads keep *)
(* their types, whatever a handler is interrupted at.                        *)
THEOREM ResellerTyping == Spec => []TypeOK
<1>1. Inv => TypeOK
  BY DEF Inv
<1> QED
  BY <1>1, Inductive, PTL

(* No voucher is shown that was not debited, and none is debited that is not *)
(* on the router, with any number of bots and panel requests on one balance. *)
THEOREM VouchersPaid == Spec => []DeliveredIsPaid
<1>1. Inv => DeliveredIsPaid
  BY DEF Inv, VoucherInv
<1> QED
  BY <1>1, Inductive, PTL

(* The status of a top-up request does not lie about its credit. *)
THEOREM RequestsTruthful == Spec => []StatusTellsCredit
<1>1. Inv => StatusTellsCredit
  BY DEF Inv, RequestInv
<1> QED
  BY <1>1, Inductive, PTL

-----------------------------------------------------------------------------
(* Balance and ledger.  LedgerSum is a recursive fold of the rows; the       *)
(* argument replaces it by a count without recursion: with one unit for each *)
(* rupiah of a row, the sum of the rows is the number of units gained minus  *)
(* the number of units lost.                                                 *)

Units(rows, w) == UNION {{r} \X (1 .. w[r]) : r \in rows}
Gain == [r \in LedgerRow |-> IF r.amount > 0 THEN r.amount ELSE 0]
Loss == [r \in LedgerRow |-> IF r.amount < 0 THEN -r.amount ELSE 0]
Total(rows) == Cardinality(Units(rows, Gain)) - Cardinality(Units(rows, Loss))

LEMMA AmountsAreInt == \A r \in LedgerRow : r.amount \in Int
<1> SUFFICES ASSUME NEW r \in LedgerRow PROVE r.amount \in Int
  OBVIOUS
<1> DEFINE a == r.amount
<1>1. a \in {-Price} \cup {TopupAmount} \cup Adjustments
  BY DEF LedgerRow
<1>2. -Price \in Int /\ TopupAmount \in Int /\ Adjustments \subseteq Int
  BY AmountsAssumption, AdjustmentsAssumption
<1> HIDE DEF a
<1>3. a \in Int
  BY <1>1, <1>2
<1> QED
  BY <1>3 DEF a

LEMMA BlockCount ==
  ASSUME NEW r, NEW n \in Nat
  PROVE  IsFiniteSet({r} \X (1 .. n)) /\ Cardinality({r} \X (1 .. n)) = n
<1>1. IsFiniteSet({r}) /\ Cardinality({r}) = 1
  BY FS_Singleton
<1>2. IsFiniteSet(1 .. n) /\ Cardinality(1 .. n) = n
  BY FS_Interval
<1>3. /\ IsFiniteSet({r} \X (1 .. n))
      /\ Cardinality({r} \X (1 .. n)) = Cardinality({r}) * Cardinality(1 .. n)
  BY <1>1, <1>2, FS_Product
<1>4. 1 * n = n
  OBVIOUS
<1> QED
  BY <1>1, <1>2, <1>3, <1>4

LEMMA UnitsFinite ==
  ASSUME NEW D, NEW rows \in SUBSET D, IsFiniteSet(rows), NEW w \in [D -> Nat]
  PROVE  IsFiniteSet(Units(rows, w))
<1> DEFINE block == [r \in rows |-> {r} \X (1 .. w[r])]
           blocks == {{r} \X (1 .. w[r]) : r \in rows}
<1>1. block \in Surjection(rows, blocks)
  BY DEF Surjection
<1>2. IsFiniteSet(blocks)
  BY <1>1, FS_Surjection
<1>3. ASSUME NEW r \in rows PROVE IsFiniteSet({r} \X (1 .. w[r]))
  <2>1. w[r] \in Nat
    OBVIOUS
  <2> QED
    BY <2>1, BlockCount
<1> QED
  BY <1>2, <1>3, FS_UNION DEF Units

LEMMA UnitsAdd ==
  ASSUME NEW D, NEW rows \in SUBSET D, IsFiniteSet(rows), NEW w \in [D -> Nat],
         NEW r \in D, r \notin rows
  PROVE  Cardinality(Units(rows \cup {r}, w)) = Cardinality(Units(rows, w)) + w[r]
<1> DEFINE block == {r} \X (1 .. w[r])
<1>1. Units(rows \cup {r}, w) = Units(rows, w) \cup block
  BY DEF Units
<1>2. Units(rows, w) \cap block = {}
  BY DEF Units
<1>3. IsFiniteSet(Units(rows, w)) /\ IsFiniteSet(block) /\ Cardinality(block) = w[r]
  BY UnitsFinite, BlockCount
<1>4. Cardinality(Units(rows, w)) \in Nat /\ w[r] \in Nat
  BY <1>3, FS_CardinalityType
<1> HIDE DEF block
<1>5. Cardinality(Units(rows, w) \cap block) = 0
  BY <1>2, FS_EmptySet
<1>6. Cardinality(Units(rows, w) \cup block)
        = Cardinality(Units(rows, w)) + Cardinality(block) - Cardinality(Units(rows, w) \cap block)
  BY <1>3, FS_Union
<1>7. Cardinality(Units(rows \cup {r}, w)) = Cardinality(Units(rows, w) \cup block)
  BY <1>1
<1> QED
  BY <1>3, <1>4, <1>5, <1>6, <1>7

LEMMA TotalIsInt ==
  ASSUME NEW rows \in SUBSET LedgerRow, IsFiniteSet(rows) PROVE Total(rows) \in Int
<1>1. Gain \in [LedgerRow -> Nat] /\ Loss \in [LedgerRow -> Nat]
  BY AmountsAreInt DEF Gain, Loss
<1>2. /\ Cardinality(Units(rows, Gain)) \in Nat
      /\ Cardinality(Units(rows, Loss)) \in Nat
  BY <1>1, UnitsFinite, FS_CardinalityType
<1> QED
  BY <1>2 DEF Total

LEMMA TotalAdd ==
  ASSUME NEW rows \in SUBSET LedgerRow, IsFiniteSet(rows), NEW r \in LedgerRow, r \notin rows
  PROVE  Total(rows) \in Int /\ Total(rows \cup {r}) = Total(rows) + r.amount
<1>1. Gain \in [LedgerRow -> Nat] /\ Loss \in [LedgerRow -> Nat]
  BY AmountsAreInt DEF Gain, Loss
<1>2. Gain[r] - Loss[r] = r.amount /\ Gain[r] \in Nat /\ Loss[r] \in Nat
  BY AmountsAreInt DEF Gain, Loss
<1>3. /\ Cardinality(Units(rows, Gain)) \in Nat
      /\ Cardinality(Units(rows, Loss)) \in Nat
  BY <1>1, UnitsFinite, FS_CardinalityType
<1>4. /\ Cardinality(Units(rows \cup {r}, Gain)) = Cardinality(Units(rows, Gain)) + Gain[r]
      /\ Cardinality(Units(rows \cup {r}, Loss)) = Cardinality(Units(rows, Loss)) + Loss[r]
  BY <1>1, UnitsAdd
<1> QED
  BY <1>2, <1>3, <1>4 DEF Total

LEMMA TotalEmpty == Total({}) = 0
<1>1. Units({}, Gain) = {} /\ Units({}, Loss) = {}
  BY DEF Units
<1>2. Cardinality({}) = 0
  BY FS_EmptySet
<1> QED
  BY <1>1, <1>2 DEF Total

LEMMA SumIsTotal ==
  ASSUME NEW rows \in SUBSET LedgerRow, IsFiniteSet(rows)
  PROVE  LedgerSum(rows) = Total(rows)
<1> DEFINE pick(s) == CHOOSE x \in s : TRUE
           adds(f) == f = [s \in SUBSET rows |-> IF s = {} THEN 0
                             ELSE pick(s).amount + f[s \ {pick(s)}]]
           total == [s \in SUBSET rows |-> Total(s)]
<1>1. ASSUME NEW s \in SUBSET rows, s # {}
      PROVE  /\ pick(s) \in s /\ s \ {pick(s)} \in SUBSET rows
             /\ IsFiniteSet(s) /\ Cardinality(s) \in Nat
             /\ Cardinality(s \ {pick(s)}) \in Nat
             /\ Cardinality(s \ {pick(s)}) < Cardinality(s)
             /\ Total(s) = pick(s).amount + Total(s \ {pick(s)})
  <2>1. pick(s) \in s
    BY <1>1
  <2> HIDE DEF pick
  <2>2. IsFiniteSet(s) /\ IsFiniteSet(s \ {pick(s)}) /\ Cardinality(s) \in Nat
    BY FS_Subset, FS_CardinalityType
  <2>3. Cardinality(s \ {pick(s)}) = Cardinality(s) - 1 /\ Cardinality(s \ {pick(s)}) \in Nat
    BY <2>1, <2>2, FS_RemoveElement, FS_CardinalityType
  <2>4. s = (s \ {pick(s)}) \cup {pick(s)}
    BY <2>1
  <2>5. /\ Total(s \ {pick(s)}) \in Int
        /\ Total((s \ {pick(s)}) \cup {pick(s)}) = Total(s \ {pick(s)}) + pick(s).amount
    BY <2>1, <2>2, TotalAdd
  <2>6. pick(s).amount \in Int
    BY <2>1, AmountsAreInt
  <2>7. Total(s) = Total(s \ {pick(s)}) + pick(s).amount
    BY <2>4, <2>5
  <2> QED
    BY <2>1, <2>2, <2>3, <2>5, <2>6, <2>7
<1>2. LedgerSum(rows) = (CHOOSE f : adds(f))[rows]
  BY DEF LedgerSum, MapThenSumSet, MapThenFoldSet
<1> HIDE DEF pick
<1>3. adds(total)
  BY <1>1, TotalEmpty
<1> DEFINE iter == CHOOSE f : adds(f)
<1>4. adds(iter)
  BY <1>3
<1> HIDE DEF iter
<1>5. \A s \in SUBSET rows : iter[s] = Total(s)
  <2> DEFINE bad == {s \in SUBSET rows : iter[s] # Total(s)}
             sizes == {Cardinality(s) : s \in bad}
  <2>1. SUFFICES ASSUME bad # {} PROVE FALSE
    OBVIOUS
  <2>2. {} \notin bad
    BY <1>4, TotalEmpty
  <2>3. sizes \subseteq Nat /\ sizes # {}
    <3>1. \A s \in bad : Cardinality(s) \in Nat
      BY <1>1, <2>2
    <3> HIDE DEF bad
    <3> QED
      BY <2>1, <3>1
  <2>4. PICK n \in sizes : \A m \in sizes : <<m, n>> \notin OpToRel(<, Nat)
    BY <2>3, NatLessThanWellFounded, WFMin
  <2>5. PICK s \in bad : Cardinality(s) = n
    BY <2>4
  <2>6. s \in SUBSET rows /\ s # {}
    BY <2>2, <2>5
  <2>7. s \ {pick(s)} \notin bad
    BY <1>1, <2>4, <2>5, <2>6 DEF OpToRel
  <2>8. iter[s] = pick(s).amount + iter[s \ {pick(s)}]
    BY <1>4, <2>6
  <2> QED
    BY <1>1, <2>5, <2>6, <2>7, <2>8
<1> QED
  BY <1>2, <1>5 DEF iter

LEMMA SumAdd ==
  ASSUME NEW rows \in SUBSET LedgerRow, IsFiniteSet(rows), NEW r \in LedgerRow, r \notin rows
  PROVE  LedgerSum(rows) \in Int /\ LedgerSum(rows \cup {r}) = LedgerSum(rows) + r.amount
<1>1. rows \cup {r} \in SUBSET LedgerRow /\ IsFiniteSet(rows \cup {r})
  BY FS_AddElement
<1> QED
  BY <1>1, TotalAdd, SumIsTotal

(* A new row moves the ledger's sum by its amount. *)
LEMMA SumMoves ==
  ASSUME Inv, NEW r \in LedgerRow, r \notin ledger, ledger' = ledger \cup {r}
  PROVE  LedgerSum(ledger) \in Int /\ LedgerSum(ledger') = LedgerSum(ledger) + r.amount
<1>1. LedgerSum(ledger) \in Int /\ LedgerSum(ledger \cup {r}) = LedgerSum(ledger) + r.amount
  BY SumAdd DEF Inv, TypeOK, PanelInv
<1>2. LedgerSum(ledger') = LedgerSum(ledger \cup {r})
  OBVIOUS
<1> QED
  BY <1>1, <1>2

LEMMA SumOfRows == ASSUME Inv PROVE LedgerSum(ledger) \in Int
<1>1. ledger \in SUBSET LedgerRow /\ IsFiniteSet(ledger)
  BY DEF Inv, TypeOK, PanelInv
<1> QED
  BY <1>1, SumIsTotal, TotalIsInt

Follows ==
  exists /\ exists' =>
    \/ saldo' - saldo = LedgerSum(ledger') - LedgerSum(ledger)
    \/ StaleWrite \/ Emptied

LEMMA NothingMoves ==
  ASSUME Inv, UNCHANGED <<saldo, ledger>> PROVE Follows
<1>1. saldo \in Int /\ LedgerSum(ledger) \in Int /\ LedgerSum(ledger') = LedgerSum(ledger)
  BY SumOfRows DEF Inv, TypeOK
<1>2. saldo' - saldo = LedgerSum(ledger') - LedgerSum(ledger)
  BY <1>1
<1> QED
  BY <1>2 DEF Follows

(* A step that adds one row and its amount. *)
LEMMA RowMoves ==
  ASSUME Inv, NEW r \in LedgerRow, r \notin ledger, ledger' = ledger \cup {r},
         saldo' = saldo + r.amount
  PROVE  Follows
<1>1. LedgerSum(ledger) \in Int /\ LedgerSum(ledger') = LedgerSum(ledger) + r.amount
  BY SumMoves
<1>2. saldo \in Int /\ r.amount \in Int
  BY AmountsAreInt DEF Inv, TypeOK
<1>3. saldo' - saldo = LedgerSum(ledger') - LedgerSum(ledger)
  BY <1>1, <1>2
<1> QED
  BY <1>3 DEF Follows

LEMMA DebitFollows ==
  ASSUME Inv, NEW b \in Bots, Debit(b) PROVE Follows
<1>1. /\ bot[b].pc = "debit" /\ saldo' = saldo - Price
      /\ ledger' = ledger \cup {PurchaseRow(bot[b].ref)}
  BY DEF Debit, At, PurchaseRow
<1>2. bot[b].ref \in Vouchers /\ bot[b].ref \notin Debited
  BY <1>1, OwnVoucher DEF Inv, VoucherInv, Buying
<1> DEFINE r == PurchaseRow(bot[b].ref)
<1>3. r \in LedgerRow /\ r.kind = "purchase" /\ r.ref = bot[b].ref /\ r.amount = -Price
  BY <1>2 DEF PurchaseRow, LedgerRow
<1> HIDE DEF r
<1>4. r \notin ledger
  BY <1>2, <1>3 DEF Debited
<1>5. saldo' = saldo + r.amount
  BY <1>1, <1>3, AmountsAssumption DEF Inv, TypeOK
<1> QED
  BY <1>1, <1>3, <1>4, <1>5, RowMoves DEF r

LEMMA SaveBalanceFollows ==
  ASSUME Inv, NEW b \in Bots, SaveBalance(b), exists PROVE Follows
<1> DEFINE r == TopupRow(bot[b].ref)
           x == [bot[b] EXCEPT !.pc = "finish", !.outcome = "approved"]
<1>1. /\ bot[b].pc = "save" /\ saldo' = bot[b].before + TopupAmount
      /\ ledger' = ledger \cup {r} /\ bot' = [bot EXCEPT ![b] = x]
  BY DEF SaveBalance, At, TopupRow, Inv, TypeOK
<1>2. bot[b].ref \in TopupRequests /\ bot[b].ref \notin Credited
  BY <1>1 DEF Inv, RequestInv, Deciding
<1>3. r \in LedgerRow /\ r.kind = "topup" /\ r.ref = bot[b].ref /\ r.amount = TopupAmount
  BY <1>2 DEF TopupRow, LedgerRow
<1>4. bot'[b].pc = "finish"
  BY <1>1 DEF Inv, TypeOK, Bot
<1> HIDE DEF r, x
<1>5. r \notin ledger
  BY <1>2, <1>3 DEF Credited
<1>6. CASE bot[b].before = saldo
  BY <1>1, <1>3, <1>5, <1>6, RowMoves
<1>7. CASE bot[b].before # saldo
  BY <1>1, <1>4, <1>7 DEF Follows, StaleWrite
<1> QED
  BY <1>6, <1>7

LEMMA PanelTopupFollows ==
  ASSUME Inv, NEW p \in PanelRequests, NEW amount \in Adjustments, PanelTopup(p, amount)
  PROVE  Follows
<1> DEFINE r == PanelRow(p, amount)
<1>1. /\ panel[p].pc = "topup" /\ saldo' = panel[p].before + amount
      /\ ledger' = ledger \cup {r} /\ panel'[p] = Answered
  BY DEF PanelTopup, PanelRow, Inv, TypeOK
<1>2. r \in LedgerRow /\ r.kind = "panel" /\ r.ref = p /\ r.amount = amount
  BY DEF PanelRow, LedgerRow
<1> HIDE DEF r
<1>3. r \notin ledger
  BY <1>1, <1>2 DEF Inv, PanelInv
<1>4. CASE panel[p].before = saldo
  BY <1>1, <1>2, <1>3, <1>4, RowMoves
<1>5. CASE panel[p].before # saldo
  BY <1>1, <1>5 DEF Follows, StaleWrite
<1> QED
  BY <1>4, <1>5

LEMMA PanelUpsertFollows ==
  ASSUME Inv, NEW p \in PanelRequests, PanelUpsert(p) PROVE Follows
<1>1. /\ panel[p].pc = "upsert" /\ saldo' = panel[p].before
      /\ ledger' = ledger /\ panel'[p] = Answered
  BY DEF PanelUpsert, Inv, TypeOK
<1>2. CASE panel[p].before = saldo
  BY <1>1, <1>2, NothingMoves
<1>3. CASE panel[p].before # saldo
  BY <1>1, <1>3 DEF Follows, StaleWrite
<1> QED
  BY <1>2, <1>3

LEMMA PanelEditFollows ==
  ASSUME Inv, NEW p \in PanelRequests, PanelEdit(p) PROVE Follows
<1>1. /\ panel[p].pc = "new" /\ saldo' = 0
      /\ ledger' = ledger /\ panel'[p] = Answered
  BY DEF PanelEdit, Arrives, Inv, TypeOK
<1> QED
  BY <1>1 DEF Follows, Emptied

LEMMA FollowsStep == Inv /\ [Next]_vars => [Follows]_vars
<1> SUFFICES ASSUME Inv, Next PROVE Follows
  OBVIOUS
<1>1. CASE UNCHANGED <<saldo, ledger>>
  BY <1>1, NothingMoves
<1>2. ASSUME NEW b \in Bots,
             \/ \E kind \in {"buy", "ask"} : Press(b, kind, 0)
             \/ \E kind \in {"approve", "reject"}, q \in TopupRequests : Press(b, kind, q)
             \/ HandlerRaises(b)
      PROVE  Follows
  BY <1>1, <1>2 DEF Press, HandlerRaises, account
<1>3. ASSUME NEW b \in Bots, BotStep(b) PROVE Follows
  <2>1. CASE Debit(b)
    BY <2>1, DebitFollows
  <2>2. CASE SaveBalance(b)
    <3>1. CASE exists
      BY <2>2, <3>1, SaveBalanceFollows
    <3>2. CASE ~exists
      BY <3>2 DEF Follows
    <3> QED
      BY <3>1, <3>2
  <2>3. CASE GetUpdates(b) \/ HandleUpdate(b) \/ Buy(b) \/ RouterAdds(b) \/ RouterRefuses(b)
    BY <1>1, <2>3 DEF GetUpdates, HandleUpdate, Buy, RouterAdds, RouterRefuses, account
  <2>4. CASE NotDebited(b) \/ RemoveVoucher(b) \/ Show(b) \/ Ask(b) \/ AddTopupRequest(b)
    BY <1>1, <2>4 DEF NotDebited, RemoveVoucher, Show, Ask, AddTopupRequest, account
  <2>5. CASE ClaimTopupRequest(b) \/ ReadBalance(b) \/ FinishTopupRequest(b)
    BY <1>1, <2>5 DEF ClaimTopupRequest, ReadBalance, FinishTopupRequest, account
  <2> QED
    BY <1>3, <2>1, <2>2, <2>3, <2>4, <2>5 DEF BotStep
<1>4. ASSUME NEW p \in PanelRequests, PanelStep(p) PROVE Follows
  <2>1. CASE (\E pc \in {"topup", "upsert"} : PanelRead(p, pc)) \/ PanelDelete(p) \/ PanelFails(p)
    BY <1>1, <2>1 DEF PanelRead, PanelDelete, PanelFails, account
  <2> QED
    BY <1>4, <2>1, PanelTopupFollows, PanelUpsertFollows, PanelEditFollows DEF PanelStep
<1>5. CASE Crash
  BY <1>1, <1>5 DEF Crash, account
<1> QED
  BY <1>2, <1>3, <1>4, <1>5 DEF Next

(* The balance moves by what is added to the ledger, for every number of     *)
(* bots and presses: a purchase, a top-up and its ledger row go together and *)
(* no request is credited twice, whatever crashes and is delivered again.    *)
(* Only two steps are excepted: a write computed from an older balance, and  *)
(* the panel's edit, which sets the balance to 0 without a ledger row.       *)
THEOREM LedgerFollowed == Spec => BalanceFollowsLedger
<1>1. Inv /\ [Next]_vars
      => [exists /\ exists' =>
            \/ saldo' - saldo = LedgerSum(ledger') - LedgerSum(ledger)
            \/ StaleWrite \/ Emptied]_vars
  BY FollowsStep DEF Follows
<1> QED
  BY <1>1, Inductive, PTL DEF Spec, BalanceFollowsLedger

-----------------------------------------------------------------------------
(* The settings of the bots *)

ReportState ==
  [pc : {"asleep"}, todo : {{}}]
  \cup [pc : {"send"}, todo : (SUBSET BotIds) \ {{}}]
  \cup {x \in [pc : {"mark"}, todo : SUBSET BotIds, bot : BotIds] : x.bot \in x.todo}

TypeInv ==
  /\ config \in [BotIds -> Config \cup {NoConfig}]
  /\ flag \in [BotIds -> BOOLEAN]
  /\ thread \in [BotIds -> [Pcs -> Nat]]
  /\ starting \subseteq BotIds
  /\ report \in ReportState
  /\ due \in BOOLEAN
  /\ time \in 0 .. MaxTime /\ saves \in 0 .. MaxSaves /\ failures \in 0 .. MaxFailures
  /\ sent \in [BotIds -> Nat] /\ touched \subseteq BotIds

(* A bot that is polled for has its flag set: the flag stands for the one    *)
(* thread there may be, until that thread itself takes it down.              *)
FlagStands == \A b \in BotIds :
  /\ Threads(b) <= 1
  /\ Threads(b) > 0 => flag[b]

(* The scheduler still has to send the report of b. *)
Waits(b) == b \in report.todo /\ (report.pc = "mark" => report.bot # b)

(* The minute of a report that is listed or sent has come; when the          *)
(* scheduler is about to list reports again it has passed.                   *)
MinutePassed(b) ==
  (b \in report.todo \/ sent[b] > 0) /\ config[b].daily
    => /\ config[b].at <= Now
       /\ due => config[b].at < Now

ReportsOnce == \A b \in BotIds \ touched :
  /\ sent[b] <= 1
  /\ Waits(b) => sent[b] = 0
  /\ MinutePassed(b)

-----------------------------------------------------------------------------
(* The minute of the day *)

LEMMA NowIsMinute ==
  ASSUME TypeInv PROVE Now \in Minute /\ Now \in Int
  BY SettingsAssumption DEF TypeInv, Now, Minute

(* A quotient that is not 0 stands for at least one whole divisor. *)
LEMMA OneDay ==
  ASSUME NEW M \in Nat \ {0}, NEW q \in Int
  PROVE  /\ q >= 1 => M * q >= M
         /\ q <= -1 => M * q <= -M
<1>1. ASSUME q >= 1 PROVE M * q >= M
  <2>1. M * (q - 1) >= 0 /\ M * (q - 1) = M * q - M
    BY <1>1
  <2> QED
    BY <2>1
<1>2. ASSUME q <= -1 PROVE M * q <= -M
  <2>1. M * (-q - 1) >= 0 /\ M * (-q - 1) = -(M * q) - M
    BY <1>2
  <2> QED
    BY <2>1
<1> QED
  BY <1>1, <1>2

(* The minute goes up by one, or the day is over. *)
LEMMA NextMinute ==
  ASSUME NEW M \in Nat \ {0}, NEW t \in Nat, (t + 1) % M # 0
  PROVE  (t + 1) % M = (t % M) + 1
<1> DEFINE r == t % M  q == t \div M  rr == (t + 1) % M  qq == (t + 1) \div M
<1>1. /\ r \in Nat /\ rr \in Nat /\ q \in Int /\ qq \in Int
      /\ r < M /\ rr < M
      /\ t = M * q + r /\ t + 1 = M * qq + rr
  OBVIOUS
<1>2. rr >= 1
  BY <1>1
<1> HIDE DEF r, q, rr, qq
<1>3. M * (qq - q) = r + 1 - rr
  <2>1. M * (qq - q) = M * qq - M * q
    BY <1>1
  <2> QED
    BY <1>1, <2>1
<1>4. qq - q \in Int /\ (qq - q >= 1 => M * (qq - q) >= M)
      /\ (qq - q <= -1 => M * (qq - q) <= -M)
  BY <1>1, OneDay
<1>5. qq - q = 0
  BY <1>1, <1>2, <1>3, <1>4
<1>6. rr = r + 1
  BY <1>1, <1>3, <1>5
<1> QED
  BY <1>6 DEF r, rr

-----------------------------------------------------------------------------
(* The polling threads *)

(* A thread that goes from one place to the next is still one thread. *)
LEMMA MovesEffect ==
  ASSUME TypeInv, NEW b \in BotIds, NEW from \in Pcs, NEW to \in Pcs \ {from},
         Moves(b, from, to)
  PROVE  TypeInv' /\ \A c \in BotIds : Threads(c)' = Threads(c) /\ flag'[c] = flag[c]
<1>1. /\ thread[b][from] > 0
      /\ thread' = [thread EXCEPT ![b][from] = @ - 1, ![b][to] = @ + 1]
      /\ UNCHANGED <<flag, config, starting, report, due, time, saves, failures, sent, touched>>
  BY DEF Moves, PollUnchanged
<1>2. /\ thread' \in [BotIds -> [Pcs -> Nat]]
      /\ \A c \in BotIds \ {b} : thread'[c] = thread[c]
      /\ thread'[b][from] = thread[b][from] - 1
      /\ thread'[b][to] = thread[b][to] + 1
      /\ \A p \in Pcs \ {from, to} : thread'[b][p] = thread[b][p]
  BY <1>1 DEF TypeInv
<1>3. TypeInv'
  BY <1>1, <1>2 DEF TypeInv
<1>4. Threads(b)' = Threads(b)
  <2>1. thread[b] \in [Pcs -> Nat] /\ thread'[b] \in [Pcs -> Nat]
    BY <1>2 DEF TypeInv
  <2> QED
    BY <1>2, <2>1 DEF Threads, Pcs
<1>5. \A c \in BotIds \ {b} : Threads(c)' = Threads(c)
  BY <1>2 DEF Threads
<1> QED
  BY <1>1, <1>3, <1>4, <1>5

LEMMA NewThreads ==
  /\ NoThread \in [Pcs -> Nat] /\ OneThread \in [Pcs -> Nat]
  /\ NoThread["check"] + NoThread["stopping"] + NoThread["updates"] = 0
  /\ OneThread["check"] + OneThread["stopping"] + OneThread["updates"] = 1
  BY DEF NoThread, OneThread, Pcs

LEMMA StartPollingStep ==
  ASSUME TypeInv, FlagStands, NEW b \in BotIds, StartPolling(b)
  PROVE  TypeInv' /\ FlagStands'
<1>1. /\ starting' = starting \ {b}
      /\ UNCHANGED <<config, report, due, time, saves, failures, sent, touched>>
  BY DEF StartPolling
<1>2. CASE UNCHANGED <<flag, thread>>
  BY <1>1, <1>2 DEF TypeInv, FlagStands, Threads
<1>3. CASE /\ ~flag[b] /\ flag' = [flag EXCEPT ![b] = TRUE]
           /\ thread' = [thread EXCEPT ![b]["check"] = @ + 1]
  <2>1. /\ thread' \in [BotIds -> [Pcs -> Nat]]
        /\ \A c \in BotIds \ {b} : thread'[c] = thread[c] /\ flag'[c] = flag[c]
        /\ thread'[b]["check"] = thread[b]["check"] + 1
        /\ thread'[b]["stopping"] = thread[b]["stopping"]
        /\ thread'[b]["updates"] = thread[b]["updates"]
        /\ flag' \in [BotIds -> BOOLEAN] /\ flag'[b]
    BY <1>3 DEF TypeInv, Pcs
  <2>2. TypeInv'
    BY <1>1, <2>1 DEF TypeInv
  <2>3. thread[b] \in [Pcs -> Nat]
    BY DEF TypeInv
  <2>4. Threads(b) = 0
    <3>1. ~(Threads(b) > 0)
      BY <1>3 DEF FlagStands
    <3>2. Threads(b) \in Nat
      BY <2>3 DEF Threads, Pcs
    <3> QED
      BY <3>1, <3>2
  <2>5. Threads(b)' = 1
    BY <2>1, <2>3, <2>4 DEF Threads, Pcs
  <2> QED
    BY <2>1, <2>2, <2>5 DEF FlagStands, Threads
<1> QED
  BY <1>2, <1>3 DEF StartPolling, Free

LEMMA ClearFlagStep ==
  ASSUME TypeInv, FlagStands, NEW b \in BotIds, ClearFlag(b)
  PROVE  TypeInv' /\ FlagStands'
<1>1. /\ thread[b]["stopping"] > 0
      /\ thread' = [thread EXCEPT ![b]["stopping"] = @ - 1]
      /\ flag' = [flag EXCEPT ![b] = FALSE]
      /\ UNCHANGED <<config, starting, report, due, time, saves, failures, sent, touched>>
  BY DEF ClearFlag, PollUnchanged
<1>2. thread[b] \in [Pcs -> Nat] /\ Threads(b) <= 1
  BY DEF TypeInv, FlagStands
<1>3. /\ thread' \in [BotIds -> [Pcs -> Nat]] /\ flag' \in [BotIds -> BOOLEAN]
      /\ \A c \in BotIds \ {b} : thread'[c] = thread[c] /\ flag'[c] = flag[c]
      /\ thread'[b]["check"] = thread[b]["check"]
      /\ thread'[b]["stopping"] = thread[b]["stopping"] - 1
      /\ thread'[b]["updates"] = thread[b]["updates"]
  BY <1>1, <1>2 DEF TypeInv, Pcs
<1>4. Threads(b)' = 0
  BY <1>1, <1>2, <1>3 DEF Threads, Pcs
<1> QED
  BY <1>1, <1>3, <1>4 DEF TypeInv, FlagStands, Threads

LEMMA ThreadStepStep ==
  ASSUME TypeInv, FlagStands, NEW b \in BotIds, ThreadStep(b)
  PROVE  TypeInv' /\ FlagStands'
<1>1. CASE Moves(b, "check", "updates") \/ Moves(b, "check", "stopping")
           \/ Moves(b, "updates", "check")
  <2>1. TypeInv' /\ \A c \in BotIds : Threads(c)' = Threads(c) /\ flag'[c] = flag[c]
    BY <1>1, MovesEffect DEF Pcs
  <2> QED
    BY <2>1 DEF FlagStands
<1>2. CASE ClearFlag(b)
  BY <1>2, ClearFlagStep
<1> QED
  BY <1>1, <1>2 DEF ThreadStep, Poll, StopRead, Updates

(* After a restart there is one thread for each bot whose flag is set. *)
LEMMA RestartThreads ==
  ASSUME Restart
  PROVE  /\ flag' \in [BotIds -> BOOLEAN]
         /\ thread' \in [BotIds -> [Pcs -> Nat]]
         /\ FlagStands'
<1>1. PICK on \in SUBSET BotIds :
        /\ flag' = [b \in BotIds |-> b \in on]
        /\ thread' = [b \in BotIds |-> IF b \in on THEN OneThread ELSE NoThread]
  <2>1. PICK c \in Config, d \in BotIds \ {Blank}, first \in BotIds :
          LET table == IF Present = {} THEN [config EXCEPT ![d] = c] ELSE config
              on == {b \in BotIds : /\ table[b].enabled
                                    /\ Runs(table[IF b = Blank THEN first ELSE b])}
          IN  /\ flag' = [b \in BotIds |-> b \in on]
              /\ thread' = [b \in BotIds |-> IF b \in on THEN OneThread ELSE NoThread]
    BY DEF Restart
  <2> QED
    BY <2>1
<1>2. \A b \in BotIds : thread'[b] = IF flag'[b] THEN OneThread ELSE NoThread
  BY <1>1
<1> QED
  BY <1>1, <1>2, NewThreads DEF FlagStands, Threads

-----------------------------------------------------------------------------
(* The scheduler, the panels and the clock *)

LEMMA ConfigValues ==
  /\ NoConfig \notin Config /\ ~NoConfig.daily /\ NoConfig.daily \in BOOLEAN
  /\ Wiped \in Config /\ ~Wiped.daily
  /\ Working \in Config
  BY SettingsAssumption DEF NoConfig, Config, Minute, Wiped, Working

LEMMA FailureType ==
  ASSUME TypeInv, Failure
  PROVE  failures' \in 0 .. MaxFailures
  BY SettingsAssumption DEF TypeInv, Failure

LEMMA ReportDoneType ==
  ASSUME TypeInv, NEW b \in BotIds, b \in report.todo, ReportDone(b)
  PROVE  report' \in ReportState /\ report'.todo = report.todo \ {b}
         /\ report'.pc # "mark"
<1>1. report.todo \subseteq BotIds
  BY DEF TypeInv, ReportState
<1>2. CASE report.todo = {b}
  BY <1>2 DEF ReportDone, Asleep, ReportState
<1>3. CASE report.todo # {b}
  <2> DEFINE rest == report.todo \ {b}
             x == [pc |-> "send", todo |-> rest]
  <2>1. report' = x
    BY <1>3 DEF ReportDone
  <2>2. rest \in (SUBSET BotIds) \ {{}}
    BY <1>1, <1>3
  <2>3. x \in ReportState /\ x.todo = rest /\ x.pc = "send"
    BY <2>2 DEF ReportState
  <2> QED
    BY <2>1, <2>3
<1> QED
  BY <1>2, <1>3

(* What a save does: a bot that is saved counts as touched for the day. *)
LEMMA StoredEffect ==
  ASSUME TypeInv, NEW b \in BotIds, NEW c \in Config, Stored(b, c),
         starting' \subseteq BotIds
  PROVE  TypeInv'
<1>1. /\ saves' \in 0 .. MaxSaves
      /\ config' \in [BotIds -> Config \cup {NoConfig}]
      /\ touched' \subseteq BotIds
  BY SettingsAssumption DEF TypeInv, Stored
<1> QED
  BY <1>1 DEF TypeInv, Stored

LEMMA OperatorStepTypes ==
  ASSUME TypeInv, OperatorStep
  PROVE  TypeInv' /\ UNCHANGED <<flag, thread>>
<1>1. ASSUME NEW b \in BotIds, DeleteConfig(b)
      PROVE  TypeInv' /\ UNCHANGED <<flag, thread>>
  BY <1>1 DEF DeleteConfig, TypeInv
<1>2. ASSUME NEW b \in BotIds, NEW c \in Config,
             SaveForm(b, c) \/ SaveOldForm(b, c) \/ PutConfig(b, c)
      PROVE  TypeInv' /\ UNCHANGED <<flag, thread>>
  <2>1. Stored(b, c) /\ starting' \subseteq BotIds
    BY <1>2 DEF SaveForm, SaveOldForm, PutConfig, TypeInv
  <2>2. UNCHANGED <<flag, thread>>
    BY <2>1 DEF Stored
  <2> QED
    BY <2>1, <2>2, StoredEffect
<1> QED
  BY <1>1, <1>2 DEF OperatorStep

LEMMA WakeUpTypes ==
  ASSUME TypeInv, WakeUp
  PROVE  /\ TypeInv' /\ UNCHANGED <<flag, thread>>
         /\ report.todo = {} /\ report'.pc # "mark"
         /\ \A b \in report'.todo : b \in BotIds /\ Due(config[b])
<1> DEFINE todo == {b \in Present : Due(config[b])}
<1>1. /\ report' = IF todo = {} THEN Asleep ELSE [pc |-> "send", todo |-> todo]
      /\ due' = FALSE /\ report = Asleep
      /\ UNCHANGED <<config, flag, thread, starting, time, saves, failures, sent, touched>>
  BY DEF WakeUp
<1>2. todo \subseteq BotIds /\ \A b \in todo : Due(config[b])
  BY DEF Present
<1> HIDE DEF todo
<1>3. /\ report' \in ReportState /\ report'.pc # "mark"
      /\ report'.todo = todo
  <2>1. CASE todo = {}
    BY <1>1, <2>1 DEF Asleep, ReportState
  <2>2. CASE todo # {}
    <3> DEFINE x == [pc |-> "send", todo |-> todo]
    <3>1. x \in ReportState /\ x.todo = todo /\ x.pc = "send"
      BY <1>2, <2>2 DEF ReportState
    <3> QED
      BY <1>1, <2>2, <3>1
  <2> QED
    BY <2>1, <2>2
<1>4. TypeInv'
  BY <1>1, <1>3 DEF TypeInv
<1> QED
  BY <1>1, <1>2, <1>3, <1>4 DEF Asleep

LEMMA SendReportTypes ==
  ASSUME TypeInv, NEW b \in BotIds, SendReport(b)
  PROVE  /\ TypeInv' /\ UNCHANGED <<flag, thread>>
         /\ report'.todo = report.todo /\ report'.pc = "mark" /\ report'.bot = b
         /\ sent'[b] = sent[b] + 1
         /\ \A c \in BotIds \ {b} : sent'[c] = sent[c]
<1> DEFINE x == [pc |-> "mark", todo |-> report.todo, bot |-> b]
<1>1. x \in ReportState /\ x.todo = report.todo /\ x.pc = "mark" /\ x.bot = b
  BY DEF SendReport, TypeInv, ReportState
<1>2. report' = x
  BY DEF SendReport
<1> HIDE DEF x
<1>3. /\ sent' \in [BotIds -> Nat] /\ sent'[b] = sent[b] + 1
      /\ \A c \in BotIds \ {b} : sent'[c] = sent[c]
  BY DEF SendReport, TypeInv
<1> QED
  BY <1>1, <1>2, <1>3 DEF SendReport, TypeInv

LEMMA ReportFailsTypes ==
  ASSUME TypeInv, NEW b \in BotIds, ReportFails(b)
  PROVE  /\ TypeInv' /\ UNCHANGED <<flag, thread>>
         /\ report'.todo = report.todo \ {b} /\ report'.pc # "mark"
         /\ sent'[b] \in {sent[b], sent[b] + 1}
         /\ \A c \in BotIds \ {b} : sent'[c] = sent[c]
<1>1. /\ report' \in ReportState /\ report'.todo = report.todo \ {b}
      /\ report'.pc # "mark"
  BY ReportDoneType DEF ReportFails
<1>2. failures' \in 0 .. MaxFailures
  BY FailureType DEF ReportFails, TypeInv
<1>3. /\ sent' \in [BotIds -> Nat] /\ sent'[b] \in {sent[b], sent[b] + 1}
      /\ \A c \in BotIds \ {b} : sent'[c] = sent[c]
  BY DEF ReportFails, TypeInv
<1> QED
  BY <1>1, <1>2, <1>3 DEF ReportFails, TypeInv

LEMMA MarkSentTypes ==
  ASSUME TypeInv, MarkSent
  PROVE  /\ TypeInv' /\ UNCHANGED <<flag, thread>>
         /\ report.pc = "mark" /\ report.bot \in BotIds
         /\ report'.todo = report.todo \ {report.bot} /\ report'.pc # "mark"
         /\ \A c \in BotIds : config'[c].daily =>
              config[c].daily /\ config'[c].at = config[c].at
<1>1. report.pc = "mark" /\ report.bot \in BotIds /\ report.bot \in report.todo
  BY DEF MarkSent, TypeInv, ReportState
<1>2. /\ report' \in ReportState /\ report'.todo = report.todo \ {report.bot}
      /\ report'.pc # "mark"
  BY <1>1, ReportDoneType DEF MarkSent
<1>3. config' = config \/ config' = [config EXCEPT ![report.bot] = Wiped]
  BY DEF MarkSent
<1>4. /\ config' \in [BotIds -> Config \cup {NoConfig}]
      /\ \A c \in BotIds : config'[c].daily =>
           config[c].daily /\ config'[c].at = config[c].at
  BY <1>1, <1>3, ConfigValues DEF TypeInv
<1> QED
  BY <1>1, <1>2, <1>4 DEF MarkSent, TypeInv

LEMMA TickTypes ==
  ASSUME TypeInv, Tick
  PROVE  TypeInv' /\ UNCHANGED <<flag, thread>>
<1>1. time' \in 0 .. MaxTime /\ due' \in BOOLEAN
  BY SettingsAssumption DEF TypeInv, Tick
<1>2. report.todo \subseteq BotIds
  BY DEF TypeInv, ReportState
<1>3. sent' \in [BotIds -> Nat] /\ touched' \subseteq BotIds
  BY <1>2 DEF TypeInv, Tick
<1> QED
  BY <1>1, <1>3 DEF TypeInv, Tick

LEMMA RestartTypes ==
  ASSUME TypeInv, Restart
  PROVE  TypeInv'
<1>1. /\ flag' \in [BotIds -> BOOLEAN]
      /\ thread' \in [BotIds -> [Pcs -> Nat]]
  BY RestartThreads
<1>2. failures' \in 0 .. MaxFailures
  BY FailureType DEF Restart
<1>3. config' \in [BotIds -> Config \cup {NoConfig}]
  <2>1. PICK c \in Config, d \in BotIds \ {Blank} :
          config' = IF Present = {} THEN [config EXCEPT ![d] = c] ELSE config
    BY DEF Restart
  <2> QED
    BY <2>1 DEF TypeInv
<1>4. report' \in ReportState
  BY DEF Restart, Asleep, ReportState
<1> QED
  BY <1>1, <1>2, <1>3, <1>4 DEF Restart, TypeInv
-----------------------------------------------------------------------------
(* What the other steps do to the reports of the day *)

(* Bots that stay out of what is touched keep what a step keeps of them. *)
LEMMA ReportsFrame ==
  ASSUME TypeInv, ReportsOnce, touched \subseteq touched',
         UNCHANGED <<report, due, time, sent>>,
         \A c \in BotIds \ touched' : config'[c].daily =>
           config[c].daily /\ config'[c].at = config[c].at
  PROVE  ReportsOnce'
<1> SUFFICES ASSUME NEW b \in BotIds \ touched'
             PROVE  /\ sent'[b] <= 1
                    /\ Waits(b)' => sent'[b] = 0
                    /\ MinutePassed(b)'
  BY DEF ReportsOnce
<1>1. b \in BotIds \ touched
  OBVIOUS
<1>2. sent[b] <= 1 /\ (Waits(b) => sent[b] = 0) /\ MinutePassed(b)
  BY <1>1 DEF ReportsOnce
<1>3. Waits(b)' <=> Waits(b)
  BY DEF Waits
<1>4. MinutePassed(b)'
  BY <1>2 DEF MinutePassed, Now
<1> QED
  BY <1>2, <1>3, <1>4

LEMMA WakeUpReports ==
  ASSUME TypeInv, ReportsOnce, WakeUp
  PROVE  ReportsOnce'
<1>1. /\ TypeInv' /\ report.todo = {} /\ report'.pc # "mark"
      /\ \A b \in report'.todo : b \in BotIds /\ Due(config[b])
  BY WakeUpTypes
<1>2. /\ due /\ due' = FALSE /\ UNCHANGED <<config, time, sent, touched>>
  BY DEF WakeUp
<1> SUFFICES ASSUME NEW b \in BotIds \ touched'
             PROVE  /\ sent'[b] <= 1
                    /\ Waits(b)' => sent'[b] = 0
                    /\ MinutePassed(b)'
  BY DEF ReportsOnce
<1>3. b \in BotIds \ touched /\ sent[b] <= 1 /\ MinutePassed(b) /\ sent[b] \in Nat
  BY <1>2 DEF ReportsOnce, TypeInv
<1>4. Now \in Int /\ Now' = Now
  BY <1>2, NowIsMinute DEF Now
<1>5. CASE b \in report'.todo
  <2>1. config[b].daily /\ config[b].at = Now
    BY <1>1, <1>5 DEF Due
  <2>2. ~(sent[b] > 0)
    BY <1>2, <1>3, <1>4, <2>1 DEF MinutePassed
  <2>3. MinutePassed(b)'
    BY <1>2, <1>4, <2>1 DEF MinutePassed
  <2> QED
    BY <1>2, <1>3, <2>2, <2>3
<1>6. CASE b \notin report'.todo
  <2>1. ~Waits(b)'
    BY <1>6 DEF Waits
  <2>2. MinutePassed(b)'
    BY <1>2, <1>3, <1>4, <1>6 DEF MinutePassed
  <2> QED
    BY <1>2, <1>3, <2>1, <2>2
<1> QED
  BY <1>5, <1>6

(* A report that is sent, or fails, was still waiting. *)
LEMMA SendReportReports ==
  ASSUME TypeInv, ReportsOnce, NEW b \in BotIds, SendReport(b) \/ ReportFails(b)
  PROVE  ReportsOnce'
<1>1. /\ b \in report.todo /\ report.pc = "send"
      /\ UNCHANGED <<config, due, time, touched>>
  BY DEF SendReport, ReportFails
<1>2. /\ sent'[b] \in {sent[b], sent[b] + 1}
      /\ \A c \in BotIds \ {b} : sent'[c] = sent[c]
      /\ report'.todo \subseteq report.todo
      /\ ~Waits(b)'
  <2>1. CASE SendReport(b)
    BY <2>1, SendReportTypes DEF Waits
  <2>2. CASE ReportFails(b)
    BY <2>2, ReportFailsTypes DEF Waits
  <2> QED
    BY <2>1, <2>2
<1> SUFFICES ASSUME NEW c \in BotIds \ touched'
             PROVE  /\ sent'[c] <= 1
                    /\ Waits(c)' => sent'[c] = 0
                    /\ MinutePassed(c)'
  BY DEF ReportsOnce
<1>3. /\ c \in BotIds \ touched /\ sent[c] \in Nat /\ sent[c] <= 1
      /\ (Waits(c) => sent[c] = 0) /\ MinutePassed(c)
  BY <1>1 DEF ReportsOnce, TypeInv
<1>4. CASE c = b
  <2>1. Waits(b)
    BY <1>1 DEF Waits
  <2>2. sent'[c] <= 1
    BY <1>2, <1>3, <1>4, <2>1
  <2>3. MinutePassed(c)'
    BY <1>1, <1>3, <1>4 DEF MinutePassed, Now
  <2> QED
    BY <1>2, <1>4, <2>2, <2>3
<1>5. CASE c # b
  <2>1. Waits(c)' => Waits(c)
    BY <1>1, <1>2 DEF Waits
  <2>2. MinutePassed(c)'
    BY <1>1, <1>2, <1>3, <1>5 DEF MinutePassed, Now
  <2> QED
    BY <1>2, <1>3, <1>5, <2>1, <2>2
<1> QED
  BY <1>4, <1>5

LEMMA MarkSentReports ==
  ASSUME TypeInv, ReportsOnce, MarkSent
  PROVE  ReportsOnce'
<1>1. /\ report.pc = "mark" /\ report.bot \in BotIds
      /\ report'.todo = report.todo \ {report.bot} /\ report'.pc # "mark"
      /\ \A c \in BotIds : config'[c].daily =>
           config[c].daily /\ config'[c].at = config[c].at
  BY MarkSentTypes
<1>2. UNCHANGED <<due, time, sent, touched>>
  BY DEF MarkSent
<1> SUFFICES ASSUME NEW c \in BotIds \ touched'
             PROVE  /\ sent'[c] <= 1
                    /\ Waits(c)' => sent'[c] = 0
                    /\ MinutePassed(c)'
  BY DEF ReportsOnce
<1>3. sent[c] <= 1 /\ (Waits(c) => sent[c] = 0) /\ MinutePassed(c)
  BY <1>2 DEF ReportsOnce
<1>4. Waits(c)' => Waits(c)
  BY <1>1 DEF Waits
<1>5. MinutePassed(c)'
  BY <1>1, <1>2, <1>3 DEF MinutePassed, Now
<1> QED
  BY <1>2, <1>3, <1>4, <1>5

(* With the day, the counts start again. *)
LEMMA TickReports ==
  ASSUME TypeInv, ReportsOnce, Tick
  PROVE  ReportsOnce'
<1>1. /\ time' = time + 1 /\ due' = (report = Asleep) /\ ~due
      /\ UNCHANGED <<config, report>>
  BY DEF Tick
<1> SUFFICES ASSUME NEW b \in BotIds \ touched'
             PROVE  /\ sent'[b] <= 1
                    /\ Waits(b)' => sent'[b] = 0
                    /\ MinutePassed(b)'
  BY DEF ReportsOnce
<1>2. CASE time' % Minutes = 0
  <2>1. sent'[b] = 0 /\ b \notin report.todo
    BY <1>2 DEF Tick
  <2> QED
    BY <1>1, <2>1 DEF MinutePassed
<1>3. CASE time' % Minutes # 0
  <2>1. UNCHANGED <<sent, touched>>
    BY <1>3 DEF Tick
  <2>2. sent[b] <= 1 /\ (Waits(b) => sent[b] = 0) /\ MinutePassed(b)
    BY <2>1 DEF ReportsOnce
  <2>3. time \in Nat /\ Minutes \in Nat \ {0}
    BY SettingsAssumption DEF TypeInv
  <2>4. Now' = Now + 1 /\ Now \in Int
    BY <1>1, <1>3, <2>3, NextMinute, NowIsMinute DEF Now
  <2>5. (b \in report.todo \/ sent[b] > 0) /\ config[b].daily => config[b].at <= Now
    BY <2>2 DEF MinutePassed
  <2>6. config[b].at \in Int
    BY SettingsAssumption DEF TypeInv, Config, NoConfig, Minute
  <2>7. (b \in report.todo \/ sent[b] > 0) /\ config[b].daily
          => config[b].at <= Now' /\ config[b].at < Now'
    BY <2>4, <2>5, <2>6
  <2>8. MinutePassed(b)'
    BY <1>1, <2>1, <2>7 DEF MinutePassed
  <2>9. Waits(b)' <=> Waits(b)
    BY <1>1 DEF Waits
  <2> QED
    BY <2>1, <2>2, <2>8, <2>9
<1> QED
  BY <1>2, <1>3

LEMMA OperatorStepReports ==
  ASSUME TypeInv, ReportsOnce, OperatorStep
  PROVE  ReportsOnce'
<1>1. ASSUME NEW b \in BotIds, DeleteConfig(b) PROVE ReportsOnce'
  <2>1. UNCHANGED <<report, due, time, sent, touched>>
        /\ config' = [config EXCEPT ![b] = NoConfig]
    BY <1>1 DEF DeleteConfig
  <2>2. \A c \in BotIds : config'[c].daily =>
          config[c].daily /\ config'[c].at = config[c].at
    BY <2>1, ConfigValues DEF TypeInv
  <2> QED
    BY <2>1, <2>2, ReportsFrame
<1>2. ASSUME NEW b \in BotIds, NEW c \in Config,
             SaveForm(b, c) \/ SaveOldForm(b, c) \/ PutConfig(b, c)
      PROVE  ReportsOnce'
  <2>1. Stored(b, c)
    BY <1>2 DEF SaveForm, SaveOldForm, PutConfig
  <2>2. /\ touched' = touched \cup {b} /\ UNCHANGED <<report, due, time, sent>>
        /\ config' = [config EXCEPT ![b] = c]
    BY <2>1 DEF Stored
  <2>3. \A d \in BotIds \ touched' : config'[d] = config[d]
    BY <2>2 DEF TypeInv
  <2> QED
    BY <2>2, <2>3, ReportsFrame
<1> QED
  BY <1>1, <1>2 DEF OperatorStep

-----------------------------------------------------------------------------
(* The theorems *)

SettingsInv == TypeInv /\ FlagStands /\ ReportsOnce

LEMMA SettingsInvInit == SettingsInit => SettingsInv
<1> SUFFICES ASSUME SettingsInit PROVE SettingsInv
  OBVIOUS
<1>1. thread \in [BotIds -> [Pcs -> Nat]] /\ flag \in [BotIds -> BOOLEAN]
  BY NewThreads DEF SettingsInit
<1>2. config \in [BotIds -> Config \cup {NoConfig}]
  BY ConfigValues DEF SettingsInit
<1>3. TypeInv
  BY <1>1, <1>2, SettingsAssumption DEF SettingsInit, TypeInv, Asleep, ReportState
<1>4. \A b \in BotIds : thread[b] = IF flag[b] THEN OneThread ELSE NoThread
  BY DEF SettingsInit
<1>5. FlagStands
  BY <1>1, <1>4, NewThreads DEF FlagStands, Threads
<1>6. ReportsOnce
  BY DEF SettingsInit, ReportsOnce, Asleep, Waits, MinutePassed
<1> QED
  BY <1>3, <1>5, <1>6 DEF SettingsInv

LEMMA SettingsInvStep == SettingsInv /\ [SettingsNext]_settingsVars => SettingsInv'
<1> SUFFICES ASSUME SettingsInv, [SettingsNext]_settingsVars PROVE SettingsInv'
  OBVIOUS
<1>0. TypeInv /\ FlagStands /\ ReportsOnce
  BY DEF SettingsInv
<1>1. CASE UNCHANGED settingsVars
  BY <1>0, <1>1 DEF settingsVars, SettingsInv, TypeInv, FlagStands, Threads, ReportsOnce, Waits,
     MinutePassed, Now
<1>2. ASSUME NEW b \in BotIds, ThreadStep(b) \/ StartPolling(b) PROVE SettingsInv'
  <2>1. TypeInv' /\ FlagStands'
    BY <1>0, <1>2, ThreadStepStep, StartPollingStep
  <2>2. UNCHANGED <<config, report, due, time, sent, touched>>
    BY <1>2 DEF ThreadStep, Poll, StopRead, Updates, ClearFlag, StartPolling, Moves, PollUnchanged
  <2>3. ReportsOnce'
    BY <1>0, <2>2, ReportsFrame
  <2> QED
    BY <2>1, <2>3 DEF SettingsInv
<1>3. CASE WakeUp \/ MarkSent \/ \E b \in BotIds : SendReport(b) \/ ReportFails(b)
  <2>1. TypeInv' /\ UNCHANGED <<flag, thread>>
    BY <1>0, <1>3, WakeUpTypes, MarkSentTypes, SendReportTypes, ReportFailsTypes
  <2>2. FlagStands'
    BY <1>0, <2>1 DEF FlagStands, Threads
  <2>3. ReportsOnce'
    BY <1>0, <1>3, WakeUpReports, MarkSentReports, SendReportReports
  <2> QED
    BY <2>1, <2>2, <2>3 DEF SettingsInv
<1>4. CASE OperatorStep
  <2>1. TypeInv' /\ UNCHANGED <<flag, thread>>
    BY <1>0, <1>4, OperatorStepTypes
  <2>2. FlagStands'
    BY <1>0, <2>1 DEF FlagStands, Threads
  <2>3. ReportsOnce'
    BY <1>0, <1>4, OperatorStepReports
  <2> QED
    BY <2>1, <2>2, <2>3 DEF SettingsInv
<1>5. CASE Tick
  <2>1. TypeInv' /\ UNCHANGED <<flag, thread>>
    BY <1>0, <1>5, TickTypes
  <2>2. FlagStands'
    BY <1>0, <2>1 DEF FlagStands, Threads
  <2>3. ReportsOnce'
    BY <1>0, <1>5, TickReports
  <2> QED
    BY <2>1, <2>2, <2>3 DEF SettingsInv
<1>6. CASE Restart
  <2>1. TypeInv' /\ FlagStands'
    BY <1>0, <1>6, RestartTypes, RestartThreads
  <2>2. ReportsOnce'
    BY <1>6 DEF Restart, ReportsOnce
  <2> QED
    BY <2>1, <2>2 DEF SettingsInv
<1> QED
  BY <1>1, <1>2, <1>3, <1>4, <1>5, <1>6 DEF SettingsNext, ReportStep

(* The invariants together are inductive. *)
LEMMA SettingsInductive == SettingsSpec => []SettingsInv
  BY SettingsInvInit, SettingsInvStep, PTL DEF SettingsSpec

(* The table, the threads and the scheduler's state keep their types. *)
THEOREM SettingsTyping == SettingsSpec => []SettingsTypeOK
<1>1. SettingsInv => SettingsTypeOK
  <2> SUFFICES ASSUME TypeInv PROVE SettingsTypeOK
    BY DEF SettingsInv
  <2>1. /\ report.pc \in {"asleep", "send", "mark"} /\ report.todo \subseteq BotIds
        /\ report.todo = {} <=> report = Asleep
    BY DEF TypeInv, ReportState, Asleep
  <2> QED
    BY <2>1 DEF TypeInv, SettingsTypeOK
<1> QED
  BY SettingsInductive, <1>1, PTL

(* A bot is polled by one thread at most, whatever saves, deletions, starts  *)
(* and restarts come in between.                                             *)
THEOREM AtMostOnePoller == SettingsSpec => []OnePoller
<1>1. SettingsInv => OnePoller
  BY DEF SettingsInv, FlagStands, OnePoller
<1> QED
  BY SettingsInductive, <1>1, PTL

(* A bot that is neither saved nor restarted during the day, and is not left *)
(* over from the day before, sends at most one report on it.                 *)
THEOREM OneReport == SettingsSpec => []OneReportPerDay
<1>1. SettingsInv => OneReportPerDay
  BY DEF SettingsInv, ReportsOnce, OneReportPerDay
<1> QED
  BY SettingsInductive, <1>1, PTL
=============================================================================
