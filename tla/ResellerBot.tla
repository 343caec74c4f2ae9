----------------------------- MODULE ResellerBot -----------------------------
(***************************************************************************)
(* The resellers' Telegram bots of bot-py-service: buying a voucher from a *)
(* prepaid balance, asking for a top-up, and the admin's approval, over    *)
(* the tables bot_resellers, topup_logs and telegram_topup_requests and    *)
(* the users of the router, together with the admin panel's top-up, edit,  *)
(* toggle and delete of the same reseller.                                 *)
(*                                                                         *)
(* There is one reseller.  Every bot is a thread that polls Telegram and   *)
(* handles one update at a time; the bots, and the panel's requests, run   *)
(* in parallel.  An action is one SQL statement or transaction, one call   *)
(* of the router or one call of Telegram; bot[b].pc is the next one.       *)
(***************************************************************************)
EXTENDS Integers, Sequences, FiniteSets, FiniteSetsExt

CONSTANTS
  Bots,          \* polling threads, one per telegram_configs row
  Saldo,         \* the reseller's balance at the start
  Price,         \* price of a voucher
  TopupAmount,   \* amount of a top-up request
  Adjustments,   \* amounts the panel may add, negative ones included
  MaxPresses,    \* bound: buttons ever pressed, numbered like update_id
  MaxRequests,   \* bound: top-up requests ever inserted
  MaxVouchers,   \* bound: voucher names ever drawn
  MaxPanel,      \* bound: panel requests ever received
  MaxFaults      \* bound: crashes and database errors

ASSUME AmountsAssumption ==
  Saldo \in Nat /\ Price \in Nat \ {0} /\ TopupAmount \in Nat \ {0}
ASSUME AdjustmentsAssumption == Adjustments \subseteq Int \ {0}
ASSUME BoundsAssumption ==
  {MaxPresses, MaxRequests, MaxVouchers, MaxPanel, MaxFaults} \subseteq Nat

Presses == 1 .. MaxPresses
TopupRequests == 1 .. MaxRequests
Vouchers == 1 .. MaxVouchers
PanelRequests == 1 .. MaxPanel

VARIABLES
  exists,    \* the bot_resellers row is there
  saldo,     \* its saldo
  ledger,    \* topup_logs rows
  request,   \* telegram_topup_requests.status
  chat,      \* bots whose admin chat shows the request's two buttons
  router,    \* vouchers on the MikroTik router
  drawn,     \* voucher names drawn so far
  shown,     \* vouchers shown to the reseller
  pressed,   \* buttons pressed so far
  queue,     \* updates Telegram keeps for a bot until they are confirmed
  bot,       \* polling threads
  panel,     \* panel requests in progress
  ended,     \* history: updates whose handler has returned or raised
  faults

vars == <<exists, saldo, ledger, request, chat, router, drawn, shown, pressed,
          queue, bot, panel, ended, faults>>

Update == [id : Presses, kind : {"buy", "ask"}, ref : {0}]
     \cup [id : Presses, kind : {"approve", "reject"}, ref : TopupRequests]

\* A purchase names its voucher, a top-up its request or panel request.
LedgerRow == [kind : {"purchase"}, ref : Vouchers, amount : {-Price}]
        \cup [kind : {"topup"}, ref : TopupRequests, amount : {TopupAmount}]
        \cup [kind : {"panel"}, ref : PanelRequests, amount : Adjustments]

\* ref is the voucher or the request at hand, before the balance read.
Bot == [pc : {"idle", "buy", "provision", "debit", "remove", "show", "ask",
              "insert", "approve", "reject", "credit", "save", "finish"},
        last : Presses \cup {0}, batch : Seq(Update), ref : Nat, before : Int,
        outcome : {"approved", "rejected"}]

Restarted == [pc |-> "idle", last |-> 0, batch |-> <<>>, ref |-> 0,
              before |-> 0, outcome |-> "rejected"]

Answered == [pc |-> "done", before |-> 0]

TypeOK ==
  /\ exists \in BOOLEAN
  /\ saldo \in Int
  /\ ledger \subseteq LedgerRow
  /\ request \in [TopupRequests -> {"none", "pending", "processing",
                                    "approved", "rejected"}]
  /\ chat \in [TopupRequests -> SUBSET Bots]
  /\ router \subseteq Vouchers
  /\ drawn \in 0 .. MaxVouchers
  /\ shown \subseteq Vouchers
  /\ pressed \in 0 .. MaxPresses
  /\ queue \in [Bots -> Seq(Update)]
  /\ bot \in [Bots -> Bot]
  /\ panel \in [PanelRequests ->
                  [pc : {"new", "topup", "upsert", "done"}, before : Int]]
  /\ ended \subseteq Presses
  /\ faults \in 0 .. MaxFaults

Init ==
  /\ exists = TRUE
  /\ saldo = Saldo
  /\ ledger = {}
  /\ request = [q \in TopupRequests |-> "none"]
  /\ chat = [q \in TopupRequests |-> {}]
  /\ router = {}
  /\ drawn = 0
  /\ shown = {}
  /\ pressed = 0
  /\ queue = [b \in Bots |-> <<>>]
  /\ bot = [b \in Bots |-> Restarted]
  /\ panel = [p \in PanelRequests |-> [pc |-> "new", before |-> 0]]
  /\ ended = {}
  /\ faults = 0

account == <<exists, saldo, ledger>>
requests == <<request, chat>>
vouchers == <<router, drawn, shown>>
telegram == <<pressed, queue, ended>>

At(b, pc) == bot[b].pc = pc
Goto(b, pc) == bot' = [bot EXCEPT ![b].pc = pc]

\* The handler of the update returns; the next one of the batch follows.
Return(b) ==
  /\ bot' = [bot EXCEPT ![b] = [Restarted EXCEPT !.last = bot[b].last,
                                                !.batch = bot[b].batch]]
  /\ ended' = ended \cup {bot[b].last}
  /\ UNCHANGED <<pressed, queue>>

\* The handler raises: the loop over the batch is left.
Raise(b) ==
  /\ bot' = [bot EXCEPT ![b] = [Restarted EXCEPT !.last = bot[b].last]]
  /\ ended' = ended \cup {bot[b].last}
  /\ UNCHANGED <<pressed, queue>>

Fault == faults < MaxFaults /\ faults' = faults + 1

-----------------------------------------------------------------------------
(* Telegram and the polling loop *)

\* Somebody presses a button: the reseller buys or asks, an admin decides
\* on a request whose buttons the bot sent.
Press(b, kind, q) ==
  /\ pressed < MaxPresses
  /\ IF kind \in {"approve", "reject"} THEN b \in chat[q] ELSE q = 0
  /\ pressed' = pressed + 1
  /\ queue' = [queue EXCEPT ![b] =
                 Append(@, [id |-> pressed', kind |-> kind, ref |-> q])]
  /\ UNCHANGED <<account, requests, vouchers, bot, panel, ended, faults>>

Confirmed(b) ==
  Cardinality({i \in DOMAIN queue[b] : queue[b][i].id <= bot[b].last})

\* getUpdates: the offset last + 1 confirms what is before it; update ids
\* ascend.
GetUpdates(b) ==
  /\ At(b, "idle") /\ bot[b].batch = <<>>
  /\ queue[b] # <<>>
  /\ LET kept == SubSeq(queue[b], Confirmed(b) + 1, Len(queue[b]))
     IN  /\ queue' = [queue EXCEPT ![b] = kept]
         /\ bot' = [bot EXCEPT ![b].batch = kept]
  /\ UNCHANGED <<account, requests, vouchers, pressed, panel, ended, faults>>

\* Mutant: the next offset is kept in place of the last id.
OffsetIsKept(b) == Head(bot[b].batch).id + 1

Taken(b) == Head(bot[b].batch).id

HandleUpdate(b) ==
  /\ At(b, "idle") /\ bot[b].batch # <<>>
  /\ LET u == Head(bot[b].batch)
     IN  bot' = [bot EXCEPT ![b] =
                   [@ EXCEPT !.last = Taken(b), !.batch = Tail(bot[b].batch),
                             !.pc = u.kind, !.ref = u.ref]]
  /\ UNCHANGED <<account, requests, vouchers, telegram, panel, faults>>

-----------------------------------------------------------------------------
(* Buying a voucher.  /generate with a quantity is as many purchases.  At  *)
(* the bounds on vouchers and requests a handler just returns.             *)

Buy(b) ==
  /\ At(b, "buy")
  /\ \/ /\ exists /\ saldo >= Price
        /\ drawn < MaxVouchers
        /\ drawn' = drawn + 1
        /\ bot' = [bot EXCEPT ![b] = [@ EXCEPT !.pc = "provision",
                                               !.ref = drawn']]
        /\ UNCHANGED telegram
     \/ /\ ~exists \/ saldo < Price \/ drawn = MaxVouchers
        /\ Return(b)
        /\ UNCHANGED drawn
  /\ UNCHANGED <<account, requests, router, shown, panel, faults>>

RouterAdds(b) ==
  /\ At(b, "provision")
  /\ router' = router \cup {bot[b].ref}
  /\ Goto(b, "debit")
  /\ UNCHANGED <<account, requests, drawn, shown, telegram, panel, faults>>

\* The router refuses, or its answer is lost after it created the user.
RouterRefuses(b) ==
  /\ At(b, "provision")
  /\ router' \in {router, router \cup {bot[b].ref}}
  /\ Return(b)
  /\ UNCHANGED <<account, requests, drawn, shown, panel, faults>>

Debitable == exists /\ saldo >= Price

\* deduct_saldo: UPDATE ... WHERE saldo >= amount and the ledger row, in one
\* transaction.
Debit(b) ==
  /\ At(b, "debit")
  /\ Debitable
  /\ saldo' = saldo - Price
  /\ ledger' = ledger \cup {[kind |-> "purchase", ref |-> bot[b].ref,
                             amount |-> -Price]}
  /\ Goto(b, "show")
  /\ UNCHANGED <<exists, requests, vouchers, telegram, panel, faults>>

\* Mutant: the voucher is shown without looking at deduct_saldo's answer.
ShownUndebited(b) ==
  /\ At(b, "debit")
  /\ ~Debitable
  /\ Goto(b, "show")
  /\ UNCHANGED <<account, requests, vouchers, telegram, panel, faults>>

NotDebited(b) ==
  /\ At(b, "debit")
  /\ ~Debitable
  /\ Goto(b, "remove")
  /\ UNCHANGED <<account, requests, vouchers, telegram, panel, faults>>

\* A failure to remove the voucher is ignored.
RemoveVoucher(b) ==
  /\ At(b, "remove")
  /\ router' \in {router, router \ {bot[b].ref}}
  /\ Return(b)
  /\ UNCHANGED <<account, requests, drawn, shown, panel, faults>>

\* editMessageText; a failure is logged only.
Show(b) ==
  /\ At(b, "show")
  /\ shown' \in {shown, shown \cup {bot[b].ref}}
  /\ Return(b)
  /\ UNCHANGED <<account, requests, router, drawn, panel, faults>>

-----------------------------------------------------------------------------
(* Top-up requests *)

Ask(b) ==
  /\ At(b, "ask")
  /\ \/ /\ exists
        /\ \A q \in TopupRequests : request[q] # "pending"
        /\ Goto(b, "insert")
        /\ UNCHANGED telegram
     \/ /\ ~exists \/ \E q \in TopupRequests : request[q] = "pending"
        /\ Return(b)
  /\ UNCHANGED <<account, requests, vouchers, panel, faults>>

\* The row is inserted and the buttons are sent to the chat of the bot's
\* configuration, which may fail.
AddTopupRequest(b) ==
  /\ At(b, "insert")
  /\ \/ \E q \in TopupRequests :
          /\ request[q] = "none"
          /\ \A p \in TopupRequests : p < q => request[p] # "none"
          /\ request' = [request EXCEPT ![q] = "pending"]
          /\ chat' \in {chat, [chat EXCEPT ![q] = {b}]}
     \/ /\ \A q \in TopupRequests : request[q] # "none"
        /\ UNCHANGED requests
  /\ Return(b)
  /\ UNCHANGED <<account, vouchers, panel, faults>>

\* Mutant: an approval that was interrupted can be claimed again.
InterruptedIsClaimable(q) == request[q] \in {"pending", "processing"}

Claimable(q) == request[q] = "pending"

\* claim_topup_request, by an approval or a rejection.
ClaimTopupRequest(b) ==
  /\ bot[b].pc \in {"approve", "reject"}
  /\ LET q == bot[b].ref
     IN  \/ /\ Claimable(q)
            /\ request' = [request EXCEPT ![q] = "processing"]
            /\ bot' = [bot EXCEPT ![b] =
                 [@ EXCEPT !.pc = IF At(b, "approve") THEN "credit"
                                  ELSE "finish",
                           !.outcome = "rejected"]]
            /\ UNCHANGED telegram
         \/ /\ ~Claimable(q)
            /\ Return(b)
            /\ UNCHANGED request
  /\ UNCHANGED <<account, chat, vouchers, panel, faults>>

\* topup reads the balance; without a reseller the request is rejected.
ReadBalance(b) ==
  /\ At(b, "credit")
  /\ bot' = [bot EXCEPT ![b] =
               IF exists THEN [@ EXCEPT !.pc = "save", !.before = saldo]
               ELSE [@ EXCEPT !.pc = "finish"]]
  /\ UNCHANGED <<account, requests, vouchers, telegram, panel, faults>>

\* topup writes the balance it computed and the ledger row; the UPDATE of a
\* row that was deleted meanwhile raises.
SaveBalance(b) ==
  /\ At(b, "save")
  /\ \/ /\ exists
        /\ saldo' = bot[b].before + TopupAmount
        /\ ledger' = ledger \cup {[kind |-> "topup", ref |-> bot[b].ref,
                                   amount |-> TopupAmount]}
        /\ bot' = [bot EXCEPT ![b] = [@ EXCEPT !.pc = "finish",
                                               !.outcome = "approved"]]
        /\ UNCHANGED <<exists, telegram>>
     \/ /\ ~exists
        /\ Raise(b)
        /\ UNCHANGED account
  /\ UNCHANGED <<requests, vouchers, panel, faults>>

\* Mutant: whoever claimed a request is taken to have credited it.
FinishedApproved(b) == "approved"

Outcome(b) == bot[b].outcome

FinishTopupRequest(b) ==
  /\ At(b, "finish")
  /\ request' = [request EXCEPT ![bot[b].ref] = Outcome(b)]
  /\ Return(b)
  /\ UNCHANGED <<account, chat, vouchers, panel, faults>>

\* A database statement raises and has no effect; the request or voucher at
\* hand stays as it is.
HandlerRaises(b) ==
  /\ bot[b].pc \in {"buy", "debit", "ask", "insert", "approve", "reject",
                    "credit", "save", "finish"}
  /\ Fault
  /\ Raise(b)
  /\ UNCHANGED <<account, requests, vouchers, panel>>

-----------------------------------------------------------------------------
(* The admin panel.  Its toggle reads the whole reseller and sends it back *)
(* with the other status: upsert writes the balance it read, and inserts   *)
(* the row again when it was deleted.  Creating a reseller makes another   *)
(* row, with an id of its own, and is not modelled.                        *)

Arrives(p) == /\ panel[p].pc = "new"
              /\ \A o \in PanelRequests : o < p => panel[o].pc # "new"

PanelRead(p, pc) ==
  /\ Arrives(p)
  /\ exists
  /\ panel' = [panel EXCEPT ![p] = [pc |-> pc, before |-> saldo]]
  /\ UNCHANGED <<account, requests, vouchers, telegram, bot, faults>>

PanelTopup(p, amount) ==
  /\ panel[p].pc = "topup"
  /\ exists
  /\ saldo' = panel[p].before + amount
  /\ ledger' = ledger \cup {[kind |-> "panel", ref |-> p, amount |-> amount]}
  /\ panel' = [panel EXCEPT ![p] = Answered]
  /\ UNCHANGED <<exists, requests, vouchers, telegram, bot, faults>>

PanelUpsert(p) ==
  /\ panel[p].pc = "upsert"
  /\ exists' = TRUE
  /\ saldo' = panel[p].before
  /\ panel' = [panel EXCEPT ![p] = Answered]
  /\ UNCHANGED <<ledger, requests, vouchers, telegram, bot, faults>>

\* The edit form sends no balance, for which the message of the call stands
\* with 0.  It was filled at any earlier time: the row may be gone.
PanelEdit(p) ==
  /\ Arrives(p)
  /\ exists' = TRUE
  /\ saldo' = 0
  /\ panel' = [panel EXCEPT ![p] = Answered]
  /\ UNCHANGED <<ledger, requests, vouchers, telegram, bot, faults>>

PanelDelete(p) ==
  /\ Arrives(p)
  /\ exists
  /\ exists' = FALSE
  /\ panel' = [panel EXCEPT ![p] = Answered]
  /\ UNCHANGED <<saldo, ledger, requests, vouchers, telegram, bot, faults>>

\* The row is gone, or the statement fails.
PanelFails(p) ==
  /\ panel[p].pc \in {"topup", "upsert"}
  /\ panel' = [panel EXCEPT ![p] = Answered]
  /\ UNCHANGED <<account, requests, vouchers, telegram, bot, faults>>

-----------------------------------------------------------------------------

\* Mutant: last_update_id survives the restart.
OffsetSurvives(b) == [Restarted EXCEPT !.last = bot[b].last]

AfterRestart(b) == Restarted

\* The process dies and restarts; last_update_id was in memory only.
Crash ==
  /\ Fault
  /\ bot' = [b \in Bots |-> AfterRestart(b)]
  /\ panel' = [p \in PanelRequests |->
                 IF panel[p].pc = "new" THEN panel[p]
                 ELSE Answered]
  /\ UNCHANGED <<account, requests, vouchers, telegram>>

BotStep(b) ==
  \/ GetUpdates(b) \/ HandleUpdate(b)
  \/ Buy(b) \/ RouterAdds(b) \/ RouterRefuses(b) \/ Debit(b) \/ NotDebited(b)
  \/ RemoveVoucher(b) \/ Show(b)
  \/ Ask(b) \/ AddTopupRequest(b) \/ ClaimTopupRequest(b) \/ ReadBalance(b)
  \/ SaveBalance(b) \/ FinishTopupRequest(b)

PanelStep(p) ==
  \/ \E pc \in {"topup", "upsert"} : PanelRead(p, pc)
  \/ \E amount \in Adjustments : PanelTopup(p, amount)
  \/ PanelUpsert(p) \/ PanelEdit(p) \/ PanelDelete(p) \/ PanelFails(p)

Next ==
  \/ \E b \in Bots :
       \/ \E kind \in {"buy", "ask"} : Press(b, kind, 0)
       \/ \E kind \in {"approve", "reject"}, q \in TopupRequests :
            Press(b, kind, q)
       \/ BotStep(b)
       \/ HandlerRaises(b)
  \/ \E p \in PanelRequests : PanelStep(p)
  \/ Crash

Spec == Init /\ [][Next]_vars

\* A polling thread goes on with its loop and its handlers; every call it
\* makes returns or times out.
Fairness == \A b \in Bots : WF_vars(BotStep(b))

FairSpec == Spec /\ Fairness

-----------------------------------------------------------------------------
(* Properties *)

Debited == {row.ref : row \in {r \in ledger : r.kind = "purchase"}}

Credited == {row.ref : row \in {r \in ledger : r.kind = "topup"}}

\* What the reseller is shown was debited, and what was debited works on
\* the router, whatever the other bots and the panel did to the balance
\* between the check, the router call and the debit.
DeliveredIsPaid == shown \subseteq Debited /\ Debited \subseteq router

\* An approved request was credited, a rejected or pending one was not:
\* neither the other admin, nor a redelivered press, nor a crash between
\* claim, credit and finish makes the status lie.
StatusTellsCredit ==
  \A q \in TopupRequests :
    /\ request[q] = "approved" => q \in Credited
    /\ request[q] \in {"none", "pending", "rejected"} => q \notin Credited

LedgerSum(rows) == MapThenSumSet(LAMBDA row : row.amount, rows)

\* A top-up or a toggle writes a balance it computed from an older one.
StaleWrite ==
  \/ \E b \in Bots : /\ bot[b].pc = "save" /\ bot'[b].pc = "finish"
                     /\ bot[b].before # saldo
  \/ \E p \in PanelRequests : /\ panel[p].pc \in {"topup", "upsert"}
                              /\ panel'[p] = Answered /\ panel[p].before # saldo

\* The panel's edit takes what there was, and leaves no ledger row.
Emptied == saldo' = 0 /\ ledger' = ledger
             /\ \E p \in PanelRequests : panel[p].pc = "new" /\ panel'[p] = Answered

\* The balance moves by what is added to the ledger, each purchase, request
\* and panel top-up counted once (reseller_service.py: "Atomically debit a
\* reseller balance and record the purchase ledger"): no request is credited
\* a second time, not even by a press that is delivered again after a crash,
\* and the panel's toggle moves nothing.  The code has two exceptions.  A
\* top-up or a toggle may write over what came between; and an edit of the
\* reseller in the old panel empties the balance, although the form means to
\* leave it alone (app.js:4491: "saldo only on create").
BalanceFollowsLedger ==
  [][exists /\ exists' =>
       \/ saldo' - saldo = LedgerSum(ledger') - LedgerSum(ledger)
       \/ StaleWrite \/ Emptied]_vars

\* Every press is handled in the end, exceptions and restarts included.
PressesAnswered == \A u \in Presses : (u <= pressed) ~> (u \in ended)
=============================================================================
