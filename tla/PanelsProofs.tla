----------------------------- MODULE PanelsProofs -----------------------------
(***************************************************************************)
(* Proofs about Panels, for all its pages and every number of routers,     *)
(* calls in flight, acts and switches.                                     *)
(*                                                                         *)
(* What the proofs need of PanelPages is stated once, as PageFacts, and    *)
(* shown of each page.  The rest knows a page by those facts alone.        *)
(***************************************************************************)
EXTENDS Panels, FiniteSetTheorems, TLAPS

ActRecord ==
  [modal : BOOLEAN, locks : BOOLEAN, caught : BOOLEAN, reloads : BOOLEAN,
   always : BOOLEAN, early : BOOLEAN, many : BOOLEAN]

PageRecord ==
  [panel : {"react", "old"}, keyed : {"router", "filter", "nothing"},
   clears : BOOLEAN, drops : BOOLEAN, keeps : BOOLEAN, waits : BOOLEAN,
   guards : BOOLEAN, polls : BOOLEAN, lists : BOOLEAN, lags : BOOLEAN,
   brittle : BOOLEAN, acts : SUBSET ActRecord]

(* A page of the old panel whose loads cover the rows of a router. *)
Covers(p) == p.panel = "old" /\ p.keyed = "router" /\ p.waits

(* The old panel: a page that covers its rows only loads whole listings, and *)
(* all its acts lock it and reload it, or none locks it; a loop of calls     *)
(* runs behind a dialog.                                                     *)
OldFacts(p) ==
  p.panel = "old" =>
    /\ ~p.lags /\ ~p.guards
    /\ p.waits => ~p.clears /\ ~p.lists /\ ~p.polls
    /\ \A a \in p.acts : a.many => a.modal
    /\ Covers(p) => \/ \A a \in p.acts : a.locks /\ a.reloads
                    \/ \A a \in p.acts : ~a.locks

(* React: a page of a router that keeps its old rows over a switch is busy   *)
(* until the load that replaces them.                                        *)
ReactFacts(p) ==
  p.panel = "react" /\ p.keyed = "router" /\ ~p.clears =>
    p.waits /\ ~p.lists /\ ~p.guards

PageFacts(p) ==
  /\ p \in PageRecord
  /\ OldFacts(p) /\ ReactFacts(p)
  /\ p.guards => p.panel = "react" /\ p.clears /\ p.acts = {}
  /\ p.acts # {} => ~p.lists /\ ~p.polls

-----------------------------------------------------------------------------
(* The inductive invariant, part by part *)

(* Calls the acts still have to make, the one that is not served included:   *)
(* <<i, 0>> the call in slot i, <<i, 1>> the one after it.                   *)
Outstanding ==
  {x \in Slots \X {0, 1} :
     /\ x[1] \in Acting
     /\ \/ x[2] = 0 /\ calls[x[1]].at = "sent"
        \/ x[2] = 1 /\ calls[x[1]].left = 1}

(* No store has more acts than were pressed, twice for a loop. *)
ActsCounted ==
  \A s \in Routers \union {Store} : data[s] + Cardinality(Outstanding) <= 2 * pressed

(* A list request and an act are in flight only where the page has them. *)
CallsOfThePage ==
  /\ \A i \in InFlight : calls[i].kind = "list" => page.lists
  /\ \A i \in Acting : calls[i].act \in page.acts /\ (calls[i].left > 0 => calls[i].act.many)

(* Only a page that lags can be behind the select; only the old panel posts  *)
(* a switch and has a dashboard that loads; React leaves no call behind.     *)
PageFlags ==
  /\ ~page.lags => session = router
  /\ posting # "none" => ~React
  /\ dash => ~React
  /\ React /\ away => InFlight = {}

(* Unless a switch overtook a call, all calls are to the page's router. *)
SentToSession == ~raced => \A i \in InFlight : calls[i].to = session

(* An act carries the router whose rows were seen, and a loop of the old     *)
(* panel, which goes on with CS, that of CS.                                 *)
SeenRows == \A i \in Acting :
  /\ calls[i].seen \in {calls[i].to, None}
  /\ ~React /\ calls[i].left > 0 => calls[i].seen \in {session, None}

(* The rows are another router's, and no call was overtaken. *)
Stale == ~raced /\ rows # None /\ rows.of # session

LockingActs == {i \in Acting : calls[i].act.locks}

(* React: such rows are on screen only where the page keeps them.  Then its  *)
(* load failed and the notice says so; or the page is busy and was left      *)
(* alone, provided that all its acts respect that.                           *)
StaleReact ==
  React /\ page.keyed = "router" /\ Stale =>
    /\ ~page.clears
    /\ \/ failed = "load"
       \/ (\A a \in page.acts : a.locks) => busy /\ Acting = {}

(* The old panel: once the page is on screen with the switch answered, the   *)
(* overlay covers such rows until their load is answered, and no act that    *)
(* would take it off is in flight.                                           *)
StaleOld ==
  ~React /\ page.keyed = "router" /\ page.waits /\ Stale
    /\ ~away /\ posting = "none" /\ failed # "load"
  => busy /\ LockingActs = {}

(* The load that will replace them is in flight, unless it failed. *)
OnTheWay ==
  Stale /\ ~page.guards /\ ~away /\ posting = "none" /\ failed # "load" =>
    \E i \in InFlight : calls[i].kind # "act"

(* A page that ignores overtaken answers shows its router's rows, and the    *)
(* answer it waits for is from that router.                                  *)
GuardedRows ==
  page.guards =>
    /\ rows # None => rows.of = session
    /\ \A i \in InFlight : i = latest => calls[i].to = session

(* A page all of whose calls lock it has one of them in flight at most, and  *)
(* the listing on screen, or on its way to it, has every act.                *)
Locked == page.waits /\ page.acts # {} /\ \A a \in page.acts : a.reloads /\ a.locks

OneCall ==
  Locked /\ ~raced =>
    /\ \A i, j \in InFlight : i = j
    /\ InFlight # {} => busy

Fresh ==
  Locked /\ ~raced =>
    /\ failed = "no" /\ InFlight = {} /\ rows # None
         => rows.ver = data[StoreOf(rows.of)]
    /\ \A i \in InFlight : calls[i].kind # "act" /\ calls[i].at = "ok"
         => calls[i].ver = data[StoreOf(calls[i].to)]

(* Nothing is done from a page without acts. *)
Untouched ==
  page.acts = {} =>
    /\ \A s \in Routers \union {Store} : data[s] = 0
    /\ \A i \in InFlight : calls[i].ver = 0
    /\ rows # None => rows.ver = 0

Inductive ==
  /\ TypeOK /\ ActsCounted
  /\ CallsOfThePage /\ PageFlags /\ SentToSession /\ SeenRows
  /\ StaleReact /\ StaleOld /\ OnTheWay /\ GuardedRows
  /\ OneCall /\ Fresh /\ Untouched

-----------------------------------------------------------------------------
(* The pages *)

(* A page as it is before its acts are named; naming them keeps the facts. *)
BaseFacts(p) == PageFacts(p) /\ ~p.lists /\ ~p.polls /\ ~p.guards

(* What the old panel asks of an act. *)
Fits(p, a) ==
  /\ a \in ActRecord
  /\ p.panel = "old" /\ a.many => a.modal

(* What a page that covers its rows asks of all its acts. *)
Alike(f) == \/ \A x \in DOMAIN f : f[x].locks /\ f[x].reloads
            \/ \A x \in DOMAIN f : ~f[x].locks

LEMMA WithActs ==
  ASSUME NEW p, BaseFacts(p), NEW f, \A x \in DOMAIN f : Fits(p, f[x]), Covers(p) => Alike(f)
  PROVE  PageFacts(With(p, f))
<1> DEFINE q == [p EXCEPT !.acts = Acts(f)]
<1>1. \A a \in Acts(f) : Fits(p, a)
  BY DEF Acts, Range
<1>2. Covers(p) => \/ \A a \in Acts(f) : a.locks /\ a.reloads
                  \/ \A a \in Acts(f) : ~a.locks
  BY DEF Acts, Range, Alike
<1>3. p \in PageRecord
  BY DEF BaseFacts, PageFacts
<1>4. Acts(f) \in SUBSET ActRecord
  BY <1>1 DEF Fits
<1> HIDE DEF Acts
<1>5. q \in PageRecord
  BY <1>3, <1>4 DEF PageRecord
<1>6. /\ q.panel = p.panel /\ q.keyed = p.keyed /\ q.clears = p.clears /\ q.drops = p.drops
      /\ q.keeps = p.keeps /\ q.waits = p.waits /\ q.guards = p.guards /\ q.polls = p.polls
      /\ q.lists = p.lists /\ q.lags = p.lags /\ q.brittle = p.brittle /\ q.acts = Acts(f)
  BY <1>3 DEF PageRecord
<1> HIDE DEF q
<1>7. PageFacts(q)
  BY <1>1, <1>2, <1>5, <1>6 DEF BaseFacts, PageFacts, OldFacts, ReactFacts, Fits, Covers
<1> QED
  BY <1>7 DEF q, With

LEMMA ReactActs == {OnRow, InDialog, Unlocked, Loop} \subseteq ActRecord
<1>1. OnRow \in ActRecord
  BY DEF OnRow, Act, ActRecord
<1>2. InDialog \in ActRecord
  BY DEF InDialog, Act, ActRecord
<1>3. Unlocked \in ActRecord
  BY DEF Unlocked, Act, ActRecord
<1>4. Loop \in ActRecord
  BY DEF Loop, Unlocked, Act, ActRecord
<1> QED
  BY <1>1, <1>2, <1>3, <1>4

(* The only acts of the old panel that are loops are sent from a dialog. *)
Wired(a) == a \in ActRecord /\ (a.many => a.modal)

LEMMA OldActs ==
  /\ \A a \in {OnRow, Reloading, Fetched, FetchedInDialog, LoopInDialog, Quiet, Unlocked} : Wired(a)
  /\ \A a \in {bulkDelHs, saveReseller, delRs, generateVouchers, markVoucherUsed,
               deleteBillCustomer, saveSession, delSession, deleteBrs, checkPaymentStatusNow} :
       Wired(a)
  /\ \A a \in {OnRow, Reloading, Fetched, FetchedInDialog, bulkDelHs} : a.locks /\ a.reloads
  /\ \A a \in {saveReseller, delRs} : ~a.locks
<1> USE DEF Wired, ActRecord, Act
<1>1. Wired(OnRow) /\ Wired(Unlocked)
  BY DEF OnRow, Unlocked
<1>2. Wired(Reloading) /\ Wired(Fetched)
  BY DEF Reloading, Fetched
<1>3. Wired(FetchedInDialog) /\ Wired(Quiet)
  BY DEF FetchedInDialog, Fetched, Quiet, Unlocked
<1>4. Wired(LoopInDialog)
  BY DEF LoopInDialog, Loop, Unlocked
<1>5. Wired(bulkDelHs) /\ Wired(generateVouchers)
  BY DEF bulkDelHs, generateVouchers
<1>6. Wired(saveReseller) /\ Wired(delRs)
  BY DEF saveReseller, delRs, Unlocked
<1>7. Wired(saveSession) /\ Wired(delSession)
  BY DEF saveSession, delSession, Unlocked
<1>8. Wired(markVoucherUsed) /\ Wired(deleteBillCustomer) /\ Wired(deleteBrs)
  BY DEF markVoucherUsed, deleteBillCustomer, deleteBrs, Fetched
<1>9. Wired(checkPaymentStatusNow)
  BY DEF checkPaymentStatusNow, Quiet, Unlocked
<1> DEFINE Both(a) == a.locks /\ a.reloads
<1>10. Both(OnRow) /\ Both(Reloading) /\ Both(Fetched)
  BY DEF OnRow, Reloading, Fetched
<1>11. Both(FetchedInDialog) /\ Both(bulkDelHs)
  BY DEF FetchedInDialog, Fetched, bulkDelHs
<1>12. ~saveReseller.locks /\ ~delRs.locks
  BY DEF saveReseller, delRs, Unlocked
<1> HIDE DEF Wired, ActRecord, Act
<1> QED
  BY <1>1, <1>2, <1>3, <1>4, <1>5, <1>6, <1>7, <1>8, <1>9, <1>10, <1>11, <1>12

LEMMA ReactBases ==
  \A p \in {ReactPage, Keeping(ReactPage), [Keeping(ReactPage) EXCEPT !.lags = TRUE],
            Global(ReactPage), Filtered(ReactPage)} :
    BaseFacts(p) /\ p.panel = "react"
<1> USE DEF ReactPage, BaseFacts, PageFacts, PageRecord, OldFacts, ReactFacts
<1>1. BaseFacts(ReactPage) /\ ReactPage.panel = "react"
  OBVIOUS
<1>2. BaseFacts(Keeping(ReactPage)) /\ Keeping(ReactPage).panel = "react"
  BY DEF Keeping
<1>3. /\ BaseFacts([Keeping(ReactPage) EXCEPT !.lags = TRUE])
      /\ [Keeping(ReactPage) EXCEPT !.lags = TRUE].panel = "react"
  BY DEF Keeping
<1>4. BaseFacts(Global(ReactPage)) /\ Global(ReactPage).panel = "react"
  BY DEF Global
<1>5. BaseFacts(Filtered(ReactPage)) /\ Filtered(ReactPage).panel = "react"
  BY DEF Filtered
<1> HIDE DEF ReactPage, BaseFacts, PageFacts, PageRecord, OldFacts, ReactFacts
<1> QED
  BY <1>1, <1>2, <1>3, <1>4, <1>5

(* The pages of the old panel before their acts are named: those that cover  *)
(* the rows of a router, and the others.                                     *)
Covering == {OldWaiting, [OldWaiting EXCEPT !.drops = FALSE], OldKeeping(OldWaiting)}

OldOpen ==
  {OldSilent, OldKeeping(OldSilent), OldClearing(OldSilent),
   Global(OldSilent), [Global(OldSilent) EXCEPT !.drops = FALSE], OldKeeping(Global(OldSilent)),
   Filtered(OldSilent), OldClearing(Filtered(OldSilent)),
   [Global(OldWaiting) EXCEPT !.brittle = TRUE], OldKeeping(Global(OldWaiting))}

LEMMA OldBases ==
  /\ \A p \in Covering \union OldOpen : BaseFacts(p) /\ p.panel = "old"
  /\ \A p \in OldOpen : ~Covers(p)
<1> DEFINE Fine(p) == BaseFacts(p) /\ p.panel = "old"
           Bare(p) == Fine(p) /\ ~Covers(p)
<1> USE DEF OldWaiting, OldSilent, OldPage, ReactPage, BaseFacts, PageFacts, PageRecord, OldFacts,
            ReactFacts, Covers
<1>1. Fine(OldWaiting) /\ Fine([OldWaiting EXCEPT !.drops = FALSE])
  OBVIOUS
<1>2. Fine(OldKeeping(OldWaiting))
  BY DEF OldKeeping
<1>3. Bare(OldSilent) /\ Bare(OldKeeping(OldSilent))
  BY DEF OldKeeping
<1>4. Bare(OldClearing(OldSilent)) /\ Bare(Global(OldSilent))
  BY DEF OldClearing, Global
<1>5. Bare([Global(OldSilent) EXCEPT !.drops = FALSE]) /\ Bare(OldKeeping(Global(OldSilent)))
  BY DEF OldKeeping, Global
<1>6. Bare(Filtered(OldSilent)) /\ Bare(OldClearing(Filtered(OldSilent)))
  BY DEF OldClearing, Filtered
<1>7. Bare([Global(OldWaiting) EXCEPT !.brittle = TRUE])
  BY DEF Global
<1>8. Bare(OldKeeping(Global(OldWaiting)))
  BY DEF OldKeeping, Global
<1> QED
  <2> HIDE DEF Fine, Bare, OldWaiting, OldSilent, OldPage, ReactPage
  <2>1. \A p \in Covering : Fine(p)
    BY <1>1, <1>2 DEF Covering
  <2>2. \A p \in OldOpen : Bare(p)
    BY <1>3, <1>4, <1>5, <1>6, <1>7, <1>8 DEF OldOpen
  <2> QED
    BY <2>1, <2>2 DEF Fine, Bare

LEMMA ReactFits ==
  ASSUME NEW p, p.panel = "react", NEW a \in ActRecord
  PROVE  Fits(p, a) /\ ~Covers(p)
  BY DEF Fits, Covers

LEMMA OldFits ==
  ASSUME NEW p, p.panel = "old", NEW a, Wired(a) PROVE Fits(p, a)
  BY DEF Fits, Wired

LEMMA ReactRouterPages ==
  \A p \in {HotspotActive, DhcpLeases, Interfaces, HotspotLog, SystemResource,
            InterfaceTraffic, TrafficCard, Dashboard, ParityTable} : PageFacts(p)
<1>1. \A p \in {HotspotActive, DhcpLeases, Interfaces, HotspotLog, SystemResource, ParityTable} :
        PageFacts(p)
  BY ReactBases DEF HotspotActive, DhcpLeases, Interfaces, HotspotLog, SystemResource, ParityTable,
     BaseFacts
<1> USE DEF ReactPage, PageFacts, PageRecord, OldFacts, ReactFacts
<1>2. PageFacts(InterfaceTraffic)
  BY DEF InterfaceTraffic
<1>3. PageFacts(TrafficCard)
  BY DEF TrafficCard
<1>4. PageFacts(Dashboard)
  BY DEF Dashboard
<1> QED
  BY <1>1, <1>2, <1>3, <1>4

LEMMA ReactRouterActs ==
  \A p \in {HotspotUsers, HotspotProfiles, PppoeActive, PppoeProfiles, PppoeSecrets, Scheduler,
            VoucherBatches, VoucherOperations, ReportSelling, Billing} : PageFacts(p)
<1> USE ReactActs, ReactBases, ReactFits, WithActs
<1>1. PageFacts(HotspotUsers) /\ PageFacts(HotspotProfiles)
  BY DEF HotspotUsers, HotspotProfiles
<1>2. PageFacts(PppoeActive) /\ PageFacts(PppoeProfiles)
  BY DEF PppoeActive, PppoeProfiles
<1>3. PageFacts(PppoeSecrets) /\ PageFacts(Scheduler)
  BY DEF PppoeSecrets, Scheduler
<1>4. PageFacts(VoucherBatches) /\ PageFacts(VoucherOperations)
  BY DEF VoucherBatches, VoucherOperations
<1>5. PageFacts(ReportSelling)
  BY DEF ReportSelling
<1>6. PageFacts(Billing)
  <2> DEFINE p == [Keeping(ReactPage) EXCEPT !.lags = TRUE]
  <2>1. BaseFacts(p) /\ p.panel = "react"
    OBVIOUS
  <2> HIDE DEF p
  <2>2. Billing = With(p, [saveCustomer |-> InDialog, action |-> OnRow, importJson |-> Loop])
    BY DEF p, Billing
  <2> QED
    BY <2>1, <2>2
<1> QED
  BY <1>1, <1>2, <1>3, <1>4, <1>5, <1>6

LEMMA ReactOtherPages ==
  \A p \in {Users, Resellers, BotResellers, RouterSessions, VoucherTypes, Payments, PaymentOrders,
            PaymentManagement, QrisMonitor, MobileApi} : PageFacts(p)
<1>1. PageFacts(QrisMonitor)
  BY ReactBases DEF QrisMonitor, BaseFacts
<1>2. PageFacts(MobileApi)
  BY DEF MobileApi, Global, ReactPage, PageFacts, PageRecord, OldFacts, ReactFacts
<1> USE ReactActs, ReactBases, ReactFits, WithActs
<1>3. PageFacts(Users) /\ PageFacts(Resellers)
  BY DEF Users, Resellers
<1>4. PageFacts(BotResellers) /\ PageFacts(RouterSessions)
  BY DEF BotResellers, RouterSessions
<1>5. PageFacts(VoucherTypes) /\ PageFacts(PaymentManagement)
  BY DEF VoucherTypes, PaymentManagement
<1>6. PageFacts(Payments) /\ PageFacts(PaymentOrders)
  BY DEF Payments, PaymentOrders
<1> QED
  BY <1>1, <1>2, <1>3, <1>4, <1>5, <1>6

LEMMA OldRouterPages ==
  \A p \in {loadDashboard, loadTraffic, loadHsActive, loadSelling, loadResume, loadLive} :
    PageFacts(p)
<1>1. \A p \in {loadHsActive, loadSelling, loadResume, loadLive} : PageFacts(p)
  BY OldBases DEF Covering, loadHsActive, loadSelling, loadResume, loadLive, BaseFacts
<1> USE DEF OldSilent, OldPage, ReactPage, PageFacts, PageRecord, OldFacts,
            ReactFacts, Covers
<1>2. PageFacts(loadDashboard)
  BY DEF loadDashboard
<1>3. PageFacts(loadTraffic)
  BY DEF loadTraffic
<1> QED
  BY <1>1, <1>2, <1>3

(* Pages that cover the rows of a router, and their acts. *)
LEMMA CoveringPages ==
  \A p \in {loadHsUsers, loadHsProfiles, loadPppActive, loadPppUsers, loadPppProfiles,
            loadResellers} : PageFacts(p)
<1> USE OldBases, OldActs, OldFits, WithActs DEF Covering
<1>1. PageFacts(loadHsUsers) /\ PageFacts(loadPppActive)
  BY DEF loadHsUsers, loadPppActive, Alike
<1>2. PageFacts(loadHsProfiles)
  <2> DEFINE p == [OldWaiting EXCEPT !.drops = FALSE]
  <2>1. BaseFacts(p) /\ p.panel = "old"
    OBVIOUS
  <2> HIDE DEF p
  <2>2. loadHsProfiles =
          With(p, [saveHsProfile |-> FetchedInDialog, delHsProfile |-> Fetched])
    BY DEF p, loadHsProfiles
  <2> QED
    BY <2>1, <2>2 DEF Alike
<1>3. PageFacts(loadPppUsers) /\ PageFacts(loadPppProfiles)
  BY DEF loadPppUsers, loadPppProfiles, Alike
<1>4. PageFacts(loadResellers)
  <2> DEFINE f == [saveReseller |-> saveReseller, delRs |-> delRs]
  <2>1. \A x \in DOMAIN f : Wired(f[x]) /\ ~f[x].locks
    OBVIOUS
  <2> HIDE DEF f
  <2>2. BaseFacts(OldKeeping(OldWaiting)) /\ OldKeeping(OldWaiting).panel = "old"
    OBVIOUS
  <2>3. loadResellers = With(OldKeeping(OldWaiting), f)
    BY DEF loadResellers, f
  <2> QED
    BY <2>1, <2>2, <2>3 DEF Alike
<1> QED
  BY <1>1, <1>2, <1>3, <1>4

(* The other pages, whose acts may lock or not. *)
LEMMA OldOpenPages ==
  \A p \in {initBatch, loadBatchList, importFromMikrotik, loadBilling, loadInvoices,
            openImportBillingModal, loadSessions, loadVoucherSettings, loadUserManagement,
            loadBotResellers, loadPayments, loadPaymentSettings, qmLoadOrders} : PageFacts(p)
<1>0. \A p \in OldOpen : BaseFacts(p) /\ p.panel = "old" /\ ~Covers(p)
  BY OldBases
<1>a. ASSUME NEW p \in OldOpen, NEW f, \A x \in DOMAIN f : Wired(f[x])
      PROVE  PageFacts(With(p, f))
  BY <1>0, <1>a, OldFits, WithActs
<1> USE OldActs DEF OldOpen
<1>1. PageFacts(initBatch) /\ PageFacts(importFromMikrotik)
  BY <1>a DEF initBatch, importFromMikrotik, startImport
<1>2. PageFacts(loadBatchList)
  BY <1>a DEF loadBatchList, confirmDeleteBatch, syncUsedFromMikrotik
<1>3. PageFacts(loadBilling)
  BY <1>a DEF loadBilling, saveBillCustomer, suspendCustomer
<1>4. PageFacts(loadInvoices) /\ PageFacts(openImportBillingModal)
  BY <1>a DEF loadInvoices, generateInvoices, confirmPay, openImportBillingModal,
     startBillingImport
<1>5. PageFacts(loadSessions)
  <2> DEFINE p == [Global(OldWaiting) EXCEPT !.brittle = TRUE]
  <2>1. p \in OldOpen
    OBVIOUS
  <2> HIDE DEF p
  <2>2. loadSessions = With(p, [saveSession |-> saveSession, delSession |-> delSession])
    BY DEF p, loadSessions
  <2> HIDE DEF OldOpen
  <2> QED
    BY <1>a, <2>1, <2>2
<1>6. PageFacts(loadVoucherSettings) /\ PageFacts(loadUserManagement)
  BY <1>a DEF loadVoucherSettings, loadUserManagement, saveUm, toggleUm, deleteUm
<1>7. PageFacts(loadBotResellers)
  BY <1>a DEF loadBotResellers, saveBrs, toggleBrs, doTopup
<1>8. PageFacts(loadPayments) /\ PageFacts(qmLoadOrders)
  BY <1>a DEF loadPayments, qmLoadOrders, qmVerifyOrder
<1>9. PageFacts(loadPaymentSettings)
  <2> DEFINE p == [Global(OldSilent) EXCEPT !.drops = FALSE]
  <2>1. p \in OldOpen
    OBVIOUS
  <2> HIDE DEF p
  <2>2. loadPaymentSettings = With(p, [save |-> OnRow])
    BY DEF p, loadPaymentSettings, savePaymentSettings
  <2> HIDE DEF OldOpen
  <2> QED
    BY <1>a, <2>1, <2>2
<1> QED
  BY <1>1, <1>2, <1>3, <1>4, <1>5, <1>6, <1>7, <1>8, <1>9

(* Every page of the two panels has the facts. *)
LEMMA EveryPage == \A p \in Pages : PageFacts(p)
  BY ReactRouterPages, ReactRouterActs, ReactOtherPages, OldRouterPages, CoveringPages,
     OldOpenPages DEF Pages, ReactPages, OldPages

-----------------------------------------------------------------------------
(* The calls *)

(* What a step does to the calls.  A slot that is not named keeps its call.  *)
Kept(i) == \A j \in InFlight \ {i} : calls'[j] = calls[j]

IsLoad(c, key) ==
  /\ c.kind # "act" /\ c.to = key /\ c.at = "sent" /\ c.ver = 0
  /\ c.kind = "list" => page.lists

Loads(key) ==
  \E i \in Slots \ InFlight :
    /\ InFlight' = InFlight \union {i} /\ Acting' = Acting
    /\ Kept(i) /\ IsLoad(calls'[i], key) /\ latest' = Last(i)

Presses(a) ==
  \E i \in Slots \ InFlight :
    /\ InFlight' = InFlight \union {i} /\ Acting' = Acting \union {i}
    /\ Kept(i)
    /\ LET c == calls'[i] IN
       /\ c.kind = "act" /\ c.act = a /\ c.to = session /\ c.at = "sent"
       /\ c.seen = IF Protected THEN rows.of ELSE None
       /\ c.left = IF a.many THEN 1 ELSE 0

Gone(i) ==
  /\ InFlight' = InFlight \ {i} /\ Acting' = Acting \ {i} /\ Kept(i)

Asks(i, key) ==
  /\ InFlight' = InFlight /\ Acting' = Acting \ {i}
  /\ Kept(i) /\ IsLoad(calls'[i], key) /\ latest' = Last(i)

SameAct(c, d) == c.act = d.act /\ c.seen = d.seen

Repeats(i) ==
  /\ InFlight' = InFlight /\ Acting' = Acting /\ Kept(i)
  /\ LET c == calls'[i] IN
     /\ c.kind = "act" /\ SameAct(c, calls[i]) /\ c.to = NextRouter(i)
     /\ c.at = "sent" /\ calls[i].left = 1 /\ c.left = 0

IsServed(i) ==
  /\ InFlight' = InFlight /\ Acting' = Acting /\ Kept(i)
  /\ LET c == calls'[i] IN
     /\ c.kind = calls[i].kind /\ c.to = calls[i].to /\ c.at # "sent"
     /\ c.kind = "act" => SameAct(c, calls[i]) /\ c.left = calls[i].left
     /\ c.kind # "act" =>
          IF c.at = "ok" THEN c.ver = data[StoreOf(c.to)] ELSE c.ver = calls[i].ver

(* A call is put into a slot, or taken out of it. *)
LEMMA Put ==
  ASSUME TypeOK, NEW i \in Slots, NEW c \in Call, calls' = [calls EXCEPT ![i] = c]
  PROVE  /\ calls' \in [Slots -> Call \union {None}]
         /\ calls'[i] = c /\ Kept(i)
         /\ InFlight' = InFlight \union {i}
         /\ Acting' = IF c.kind = "act" THEN Acting \union {i} ELSE Acting \ {i}
<1> USE NoneAssumption
<1> HIDE DEF Call
<1>1. /\ calls' \in [Slots -> Call \union {None}]
      /\ calls'[i] = c /\ \A j \in Slots \ {i} : calls'[j] = calls[j]
  BY DEF TypeOK
<1>2. c # None
  OBVIOUS
<1>3. InFlight' = InFlight \union {i}
  BY <1>1, <1>2 DEF InFlight
<1>4. Kept(i)
  BY <1>1 DEF Kept, InFlight
<1>5. Acting' = {j \in InFlight' : calls'[j].kind = "act"}
  BY DEF Acting
<1>6. Acting = {j \in InFlight : calls[j].kind = "act"}
  BY DEF Acting
<1>7. Acting' = IF c.kind = "act" THEN Acting \union {i} ELSE Acting \ {i}
  BY <1>1, <1>3, <1>4, <1>5, <1>6 DEF Kept
<1> QED
  BY <1>1, <1>3, <1>4, <1>7

LEMMA Drop ==
  ASSUME TypeOK, NEW i \in Slots, calls' = [calls EXCEPT ![i] = None]
  PROVE  calls' \in [Slots -> Call \union {None}] /\ Gone(i)
<1>1. /\ calls' \in [Slots -> Call \union {None}]
      /\ calls'[i] = None /\ \A j \in Slots \ {i} : calls'[j] = calls[j]
  BY DEF TypeOK
<1>3. InFlight' = InFlight \ {i}
  BY <1>1 DEF InFlight
<1>4. Kept(i)
  BY <1>1 DEF Kept, InFlight
<1>5. Acting' = {j \in InFlight' : calls'[j].kind = "act"}
  BY DEF Acting
<1>6. Acting = {j \in InFlight : calls[j].kind = "act"}
  BY DEF Acting
<1>7. Acting' = Acting \ {i}
  BY <1>1, <1>3, <1>4, <1>5, <1>6 DEF Kept
<1> QED
  BY <1>1, <1>3, <1>4, <1>7 DEF Gone

LEMMA CallKinds ==
  ASSUME NEW c \in Call
  PROVE  /\ c.to \in Keys /\ c.at \in Served
         /\ c.kind \in {"list", "load", "act"}
         /\ c.kind # "act" =>
              c \in [kind : {"list", "load"}, to : Keys, at : Served, ver : Versions]
         /\ c.kind = "act" =>
              c \in [kind : {"act"}, act : UNION {p.acts : p \in Pages}, to : Keys,
                     at : Served, seen : Keys \union {None}, left : 0 .. 1]
  BY DEF Call

LEMMA ASlotIsFree ==
  ASSUME TypeOK, SomeFree PROVE FirstFree \in Slots \ InFlight
<1>1. PICK i \in Slots : Free(i)
  BY DEF SomeFree
<1>2. FirstFree \in Slots /\ Free(FirstFree)
  BY <1>1 DEF FirstFree
<1> QED
  BY <1>2 DEF Free, InFlight

LEMMA LoadCalls ==
  ASSUME NEW key \in Keys, NEW c \in {LoadCall(key), [LoadCall(key) EXCEPT !.kind = "load"]}
  PROVE  c \in Call /\ IsLoad(c, key)
<1>1. 0 \in Versions /\ "sent" \in Served
  BY PanelsAssumption DEF Versions, Served
<1>2. CASE c = LoadCall(key)
  BY <1>1, <1>2 DEF LoadCall, Call, IsLoad
<1>3. CASE c = [LoadCall(key) EXCEPT !.kind = "load"]
  BY <1>1, <1>3 DEF LoadCall, Call, IsLoad
<1> QED
  BY <1>2, <1>3

LEMMA SentLoads ==
  ASSUME TypeOK, SomeFree, NEW key \in Keys,
         NEW c \in {LoadCall(key), [LoadCall(key) EXCEPT !.kind = "load"]},
         calls' = [calls EXCEPT ![FirstFree] = c], latest' = Last(FirstFree)
  PROVE  calls' \in [Slots -> Call \union {None}] /\ Loads(key)
<1> DEFINE i == FirstFree
<1>1. i \in Slots \ InFlight
  BY ASlotIsFree
<1>2. c \in Call /\ IsLoad(c, key)
  BY LoadCalls
<1>3. calls' = [calls EXCEPT ![i] = c] /\ latest' = Last(i)
  OBVIOUS
<1> HIDE DEF i
<1>4. /\ calls' \in [Slots -> Call \union {None}]
      /\ calls'[i] = c /\ Kept(i)
      /\ InFlight' = InFlight \union {i}
      /\ Acting' = IF c.kind = "act" THEN Acting \union {i} ELSE Acting \ {i}
  BY <1>1, <1>2, <1>3, Put
<1>5. Acting' = Acting
  BY <1>1, <1>2, <1>4 DEF IsLoad, Acting
<1> QED
  BY <1>1, <1>2, <1>3, <1>4, <1>5 DEF Loads

(* The steps of the operator, as far as the calls go. *)
LEMMA OpenLoads ==
  ASSUME TypeOK, Open PROVE calls' \in [Slots -> Call \union {None}] /\ Loads(router)
  BY SentLoads DEF Open, SendLoad, TypeOK

LEMMA EffectLoads ==
  ASSUME TypeOK, NEW key \in Keys, Effect(key)
  PROVE  calls' \in [Slots -> Call \union {None}] /\ Loads(key)
  BY SentLoads DEF Effect, SendLoad

LEMMA RefreshLoads ==
  ASSUME TypeOK, Refresh PROVE calls' \in [Slots -> Call \union {None}] /\ Loads(session)
  BY SentLoads DEF Refresh, TypeOK

LEMMA PressPresses ==
  ASSUME TypeOK, NEW a \in page.acts, Press(a)
  PROVE  calls' \in [Slots -> Call \union {None}] /\ Presses(a)
<1> DEFINE i == FirstFree
           c == [kind |-> "act", act |-> a, to |-> session, at |-> "sent",
                 seen |-> IF Protected THEN rows.of ELSE None,
                 left |-> IF a.many THEN 1 ELSE 0]
<1>1. i \in Slots \ InFlight
  BY ASlotIsFree DEF Press
<1>2. a \in UNION {p.acts : p \in Pages}
  BY DEF TypeOK
<1>3. rows.of \in Keys
  BY DEF Press, TypeOK, Listing
<1>4. c \in Call
  BY <1>2, <1>3 DEF Call, TypeOK, Served
<1>5. calls' = [calls EXCEPT ![i] = c]
  BY DEF Press
<1>6. c.kind = "act" /\ c.act = a /\ c.to = session /\ c.at = "sent"
  OBVIOUS
<1>7. c.seen = (IF Protected THEN rows.of ELSE None) /\ c.left = IF a.many THEN 1 ELSE 0
  OBVIOUS
<1> HIDE DEF i, c
<1>8. /\ calls' \in [Slots -> Call \union {None}]
      /\ calls'[i] = c /\ Kept(i)
      /\ InFlight' = InFlight \union {i}
      /\ Acting' = IF c.kind = "act" THEN Acting \union {i} ELSE Acting \ {i}
  BY <1>1, <1>4, <1>5, Put
<1> QED
  BY <1>1, <1>6, <1>7, <1>8 DEF Presses

LEMMA InFlightCalls ==
  ASSUME TypeOK, NEW i \in InFlight PROVE i \in Slots /\ calls[i] \in Call
  BY DEF InFlight, TypeOK

LEMMA StoreExists == ASSUME NEW key \in Keys PROVE StoreOf(key) \in Routers \union {Store}
  BY DEF StoreOf, Keys

LEMMA Answered ==
  ASSUME NEW c \in Call, NEW at \in Served, NEW d, d = [c EXCEPT !.at = at]
  PROVE  /\ d \in Call /\ d.kind = c.kind /\ d.to = c.to /\ d.at = at
         /\ c.kind = "act" => SameAct(d, c) /\ d.left = c.left
         /\ c.kind # "act" => d.ver = c.ver
<1>1. CASE c.kind = "act"
  <2>1. c \in [kind : {"act"}, act : UNION {p.acts : p \in Pages}, to : Keys,
               at : Served, seen : Keys \union {None}, left : 0 .. 1]
    BY <1>1, CallKinds
  <2> QED
    BY <1>1, <2>1 DEF Call, SameAct
<1>2. CASE c.kind # "act"
  <2>1. c \in [kind : {"list", "load"}, to : Keys, at : Served, ver : Versions]
    BY <1>2, CallKinds
  <2> QED
    BY <1>2, <2>1 DEF Call
<1> QED
  BY <1>1, <1>2

(* The back end answers a call: its kind and its router stay what they are. *)
LEMMA ServeServes ==
  ASSUME TypeOK, NEW i \in Slots, Serve(i)
  PROVE  /\ i \in InFlight /\ calls[i].at = "sent"
         /\ calls' \in [Slots -> Call \union {None}] /\ IsServed(i)
         /\ \/ data' = data
            \/ /\ calls[i].kind = "act"
               /\ data' = [data EXCEPT ![StoreOf(calls[i].to)] = @ + 1]
<1>1. i \in InFlight /\ calls[i].at = "sent"
  BY DEF Serve, Free, InFlight
<1> DEFINE c == calls[i]
           v == data[StoreOf(c.to)]
<1>2. c \in Call
  BY <1>1, InFlightCalls
<1>3. v \in Versions
  BY <1>2, CallKinds, StoreExists DEF TypeOK
<1>4. \E d \in Call :
        /\ calls' = [calls EXCEPT ![i] = d]
        /\ d.kind = c.kind /\ d.to = c.to /\ d.at # "sent"
        /\ d.kind = "act" => SameAct(d, c) /\ d.left = c.left
        /\ d.kind # "act" => IF d.at = "ok" THEN d.ver = v ELSE d.ver = c.ver
  <2>1. CASE \E at \in {"ok", "failed"} : c.kind = "act" /\ calls' = [calls EXCEPT ![i].at = at]
    <3>1. PICK at \in {"ok", "failed"} : c.kind = "act" /\ calls' = [calls EXCEPT ![i].at = at]
      BY <2>1
    <3> DEFINE d == [c EXCEPT !.at = at]
    <3>2. /\ d \in Call /\ d.kind = c.kind /\ d.to = c.to /\ d.at = at
          /\ SameAct(d, c) /\ d.left = c.left
      BY <1>2, <3>1, Answered DEF Served
    <3>3. calls' = [calls EXCEPT ![i] = d]
      BY <3>1
    <3> HIDE DEF d
    <3> QED
      BY <3>1, <3>2, <3>3
  <2>2. CASE c.kind # "act" /\ calls' = [calls EXCEPT ![i].at = "ok", ![i].ver = v]
    <3>1. PICK d : d = [c EXCEPT !.at = "ok", !.ver = v]
      OBVIOUS
    <3>2. calls' = [calls EXCEPT ![i] = d]
      BY <2>2, <3>1, <1>1 DEF TypeOK
    <3> HIDE DEF c, v
    <3>3. c \in [kind : {"list", "load"}, to : Keys, at : Served, ver : Versions]
      BY <1>2, <2>2, CallKinds
    <3>4. d \in Call /\ d.kind = c.kind /\ d.to = c.to /\ d.at = "ok" /\ d.ver = v
      BY <1>3, <3>1, <3>3 DEF Call, Served
    <3> QED
      BY <2>2, <3>2, <3>4
  <2>3. CASE calls' = [calls EXCEPT ![i].at = "failed"]
    <3> DEFINE d == [c EXCEPT !.at = "failed"]
    <3>1. /\ d \in Call /\ d.kind = c.kind /\ d.to = c.to /\ d.at = "failed"
          /\ c.kind = "act" => SameAct(d, c) /\ d.left = c.left
          /\ c.kind # "act" => d.ver = c.ver
      BY <1>2, Answered DEF Served
    <3>2. calls' = [calls EXCEPT ![i] = d]
      BY <2>3
    <3> HIDE DEF d
    <3> QED
      BY <3>1, <3>2
  <2> QED
    BY <2>1, <2>2, <2>3 DEF Serve
<1>5. \/ data' = data
      \/ calls[i].kind = "act" /\ data' = [data EXCEPT ![StoreOf(calls[i].to)] = @ + 1]
  <2>1. CASE calls[i].kind = "act" /\ data' = [data EXCEPT ![StoreOf(c.to)] = Counted(@)]
    <3>1. CASE page.waits
      BY <2>1, <3>1 DEF Counted
    <3>2. CASE ~page.waits
      BY <2>1, <3>2 DEF Counted, TypeOK
    <3> QED
      BY <3>1, <3>2
  <2> QED
    BY <2>1 DEF Serve
<1>6. PICK d \in Call :
        /\ calls' = [calls EXCEPT ![i] = d]
        /\ d.kind = c.kind /\ d.to = c.to /\ d.at # "sent"
        /\ d.kind = "act" => SameAct(d, c) /\ d.left = c.left
        /\ d.kind # "act" => IF d.at = "ok" THEN d.ver = v ELSE d.ver = c.ver
  BY <1>4
<1>7. /\ calls' \in [Slots -> Call \union {None}]
      /\ calls'[i] = d /\ Kept(i)
      /\ InFlight' = InFlight \union {i}
      /\ Acting' = IF d.kind = "act" THEN Acting \union {i} ELSE Acting \ {i}
  BY <1>6, Put
<1>8. InFlight' = InFlight /\ Acting' = Acting
  BY <1>1, <1>6, <1>7 DEF Acting
<1> QED
  BY <1>1, <1>5, <1>6, <1>7, <1>8 DEF IsServed

LEMMA AskAgain ==
  ASSUME TypeOK, NEW i \in InFlight, NEW key \in Keys,
         NEW c \in {LoadCall(key), [LoadCall(key) EXCEPT !.kind = "load"]},
         calls' = [calls EXCEPT ![i] = c], latest' = Last(i)
  PROVE  calls' \in [Slots -> Call \union {None}] /\ Asks(i, key)
<1>1. c \in Call /\ IsLoad(c, key)
  BY LoadCalls
<1>2. i \in Slots
  BY DEF InFlight
<1>3. /\ calls' \in [Slots -> Call \union {None}]
      /\ calls'[i] = c /\ Kept(i)
      /\ InFlight' = InFlight \union {i}
      /\ Acting' = IF c.kind = "act" THEN Acting \union {i} ELSE Acting \ {i}
  BY <1>1, <1>2, Put
<1> QED
  BY <1>1, <1>3 DEF Asks, IsLoad

(* A list is answered: the load is sent, or the page is left without rows.   *)
LEMMA ListAnswers ==
  ASSUME TypeOK, NEW i \in Slots, ListAnswered(i)
  PROVE  /\ calls' \in [Slots -> Call \union {None}]
         /\ i \in InFlight \ Acting /\ calls[i].kind = "list"
         /\ \/ Asks(i, session) /\ UNCHANGED <<rows, failed>> /\ busy' = (busy \/ page.waits)
            \/ Gone(i) /\ rows' = None /\ failed' = "load" /\ UNCHANGED <<latest, busy>>
<1>1. i \in InFlight \ Acting /\ calls[i].kind = "list" /\ session \in Keys
  BY DEF ListAnswered, Acting, TypeOK
<1>2. CASE calls[i].at = "ok"
  <2>1. /\ calls' = [calls EXCEPT ![i] = [LoadCall(session) EXCEPT !.kind = "load"]]
        /\ latest' = Last(i) /\ busy' = (busy \/ page.waits) /\ UNCHANGED <<rows, failed>>
    BY <1>2 DEF ListAnswered
  <2>2. calls' \in [Slots -> Call \union {None}] /\ Asks(i, session)
    BY <1>1, <2>1, AskAgain
  <2> QED
    BY <1>1, <2>1, <2>2
<1>3. CASE calls[i].at # "ok"
  <2>1. /\ calls' = [calls EXCEPT ![i] = None]
        /\ rows' = None /\ failed' = "load" /\ UNCHANGED <<latest, busy>>
    BY <1>3 DEF ListAnswered
  <2> QED
    BY <1>1, <2>1, Drop
<1> QED
  BY <1>2, <1>3

LEMMA LoadAnswers ==
  ASSUME TypeOK, NEW i \in Slots, LoadAnswered(i)
  PROVE  /\ calls' \in [Slots -> Call \union {None}]
         /\ i \in InFlight \ Acting /\ calls[i].kind = "load" /\ Gone(i)
  BY Drop DEF LoadAnswered, Acting

(* What the answer to an act does to the calls, and to what is on screen.    *)
ActSteps(i) ==
  \/ Repeats(i) /\ UNCHANGED <<rows, latest, busy, raced>>
  \/ calls[i].at = "failed" /\ Gone(i) /\ UNCHANGED <<rows, latest, busy, raced>>
  \/ /\ Asks(i, NextRouter(i))
     /\ busy' = IF calls[i].act.early THEN FALSE ELSE page.waits \/ (busy /\ ~calls[i].act.locks)
     /\ rows' = IF ~React /\ page.clears THEN None ELSE rows
     /\ raced' = (raced \/ calls[i].act.early)
  \/ /\ Gone(i) /\ (calls[i].act.reloads => calls[i].at # "ok")
     /\ busy' = (busy /\ ~calls[i].act.locks /\ ~React)
     /\ UNCHANGED <<rows, latest, raced>>

LEMMA ActAnswers ==
  ASSUME TypeOK, NEW i \in Slots, ActAnswered(i)
  PROVE  /\ calls' \in [Slots -> Call \union {None}]
         /\ i \in Acting /\ i \in InFlight /\ ActSteps(i)
<1>1. i \in Acting /\ i \in InFlight /\ calls[i].kind = "act"
  BY DEF ActAnswered, Acting
<1>2. calls[i] \in Call /\ NextRouter(i) \in Keys
  BY <1>1, InFlightCalls, CallKinds DEF NextRouter, TypeOK
<1>3. CASE /\ Continues(i)
           /\ calls' = [calls EXCEPT ![i].to = NextRouter(i), ![i].at = "sent", ![i].left = @ - 1]
           /\ UNCHANGED <<rows, latest, busy, raced>>
  <2> DEFINE c == calls[i]
             key == NextRouter(i)
             d == [c EXCEPT !.to = key, !.at = "sent", !.left = @ - 1]
  <2>1. /\ d \in Call /\ d.kind = "act" /\ SameAct(d, c) /\ d.to = key /\ d.at = "sent"
        /\ c.left = 1 /\ d.left = 0
    <3>1. c \in [kind : {"act"}, act : UNION {p.acts : p \in Pages}, to : Keys,
                 at : Served, seen : Keys \union {None}, left : 0 .. 1]
      BY <1>1, <1>2, CallKinds
    <3>2. c.left \in 0 .. 1 /\ c.left > 0
      BY <1>3, <3>1 DEF Continues
    <3>3. c.left = 1 /\ c.left - 1 = 0
      BY <3>2
    <3>4. d = [c EXCEPT !.to = key, !.at = "sent", !.left = 0]
      BY <3>3
    <3>5. 0 \in 0 .. 1
      OBVIOUS
    <3> HIDE DEF c, key, d
    <3> QED
      BY <1>2, <3>1, <3>3, <3>4, <3>5 DEF Call, SameAct, Served, key
  <2>2. calls' = [calls EXCEPT ![i] = d]
    BY <1>3 DEF TypeOK
  <2> HIDE DEF d
  <2>3. /\ calls' \in [Slots -> Call \union {None}]
        /\ calls'[i] = d /\ Kept(i)
        /\ InFlight' = InFlight \union {i}
        /\ Acting' = IF d.kind = "act" THEN Acting \union {i} ELSE Acting \ {i}
    BY <2>1, <2>2, Put
  <2>4. InFlight' = InFlight /\ Acting' = Acting
    BY <1>1, <2>1, <2>3
  <2>5. Repeats(i)
    BY <2>1, <2>3, <2>4 DEF Repeats
  <2> QED
    BY <1>1, <1>3, <2>3, <2>5 DEF ActSteps
<1>4. CASE /\ Dies(i) /\ calls' = [calls EXCEPT ![i] = None]
           /\ UNCHANGED <<rows, latest, busy, raced>>
  BY <1>1, <1>4, Drop DEF Dies, ActSteps
<1>5. CASE /\ calls' = [calls EXCEPT ![i] = LoadCall(NextRouter(i))] /\ latest' = Last(i)
           /\ busy' = IF calls[i].act.early THEN FALSE
                      ELSE page.waits \/ (busy /\ ~calls[i].act.locks)
           /\ rows' = IF ~React /\ page.clears THEN None ELSE rows
           /\ raced' = (raced \/ calls[i].act.early)
  <2>1. calls' \in [Slots -> Call \union {None}] /\ Asks(i, NextRouter(i))
    BY <1>1, <1>2, <1>5, AskAgain
  <2> QED
    BY <1>1, <1>5, <2>1 DEF ActSteps
<1>6. CASE /\ ~Reloads(i) /\ calls' = [calls EXCEPT ![i] = None]
           /\ busy' = (busy /\ ~calls[i].act.locks /\ ~React)
           /\ UNCHANGED <<rows, latest, raced>>
  BY <1>1, <1>6, Drop DEF Reloads, ActSteps
<1> QED
  BY <1>3, <1>4, <1>5, <1>6 DEF ActAnswered

LEMMA PageIs == ASSUME TypeOK PROVE PageFacts(page) /\ page \in PageRecord
  BY EveryPage DEF TypeOK, PageFacts

LEMMA PageStays == ASSUME [Next]_vars PROVE page' = page
  BY DEF Next, vars, Open, Leave, Sync, Refresh, SwitchAnswered, DashboardAnswered, ReloadPanel,
     Switch, SwitchRouter, Press, Progress, Serve, ListAnswered, LoadAnswered, ActAnswered

LEMMA OneMore ==
  ASSUME NEW S, IsFiniteSet(S), NEW x
  PROVE  /\ IsFiniteSet(S \union {x}) /\ Cardinality(S \union {x}) \in Nat
         /\ Cardinality(S \union {x}) <= Cardinality(S) + 1
<1>1. Cardinality(S) \in Nat
  BY FS_CardinalityType
<1>2. /\ IsFiniteSet(S \union {x})
      /\ \/ Cardinality(S \union {x}) = Cardinality(S)
         \/ Cardinality(S \union {x}) = Cardinality(S) + 1
  BY FS_AddElement
<1> QED
  BY <1>1, <1>2

LEMMA OutstandingIsFinite ==
  ASSUME TypeOK PROVE IsFiniteSet(Outstanding) /\ Cardinality(Outstanding) \in Nat
<1>1. IsFiniteSet({0, 1})
  <2>1. {0, 1} = {0} \union {1}
    OBVIOUS
  <2>2. IsFiniteSet({0})
    BY FS_Singleton
  <2> QED
    BY <2>1, <2>2, OneMore
<1>2. IsFiniteSet(Slots \X {0, 1})
  BY <1>1, FS_Product, PanelsAssumption
<1>3. Outstanding \subseteq Slots \X {0, 1}
  BY DEF Outstanding
<1>4. IsFiniteSet(Outstanding)
  BY <1>2, <1>3, FS_Subset
<1> QED
  BY <1>4, FS_CardinalityType

(* An act that is still to be done leaves room in the count of its store. *)
LEMMA AnActCounts ==
  ASSUME TypeOK, ActsCounted, NEW i \in Acting, calls[i].at = "sent",
         NEW s \in Routers \union {Store}
  PROVE  data[s] + 1 \in Versions
<1>1. <<i, 0>> \in Outstanding
  BY DEF Outstanding, Acting, InFlight
<1>2. Cardinality(Outstanding) # 0 /\ Cardinality(Outstanding) \in Nat
  BY <1>1, OutstandingIsFinite, FS_EmptySet
<1>3. data[s] \in Versions /\ pressed \in 0 .. MaxActs /\ MaxActs \in Nat
  BY PanelsAssumption DEF TypeOK
<1>4. data[s] + Cardinality(Outstanding) <= 2 * pressed
  BY DEF ActsCounted
<1> DEFINE n == Cardinality(Outstanding)
<1> HIDE DEF n
<1>5. n \in Nat /\ n # 0 /\ data[s] + n <= 2 * pressed
  BY <1>2, <1>4 DEF n
<1> QED
  BY <1>3, <1>5 DEF Versions

-----------------------------------------------------------------------------
(* Typing *)

LEMMA TypingInit == Init => TypeOK
<1> SUFFICES ASSUME Init PROVE TypeOK
  OBVIOUS
<1>1. AnyOf(Routers) \in Routers /\ AnyOf(Slots) \in Slots
  BY PanelsAssumption DEF AnyOf
<1>2. 0 \in Versions /\ 0 \in 0 .. MaxActs /\ 0 \in 0 .. MaxSwitches
  BY PanelsAssumption DEF Versions
<1> QED
  BY <1>1, <1>2 DEF Init, TypeOK, Keys

LEMMA TypingStep == TypeOK /\ ActsCounted /\ [Next]_vars => TypeOK'
<1> SUFFICES ASSUME TypeOK, ActsCounted, [Next]_vars PROVE TypeOK'
  OBVIOUS
<1>0. page \in PageRecord /\ {page.waits, page.lists} \subseteq BOOLEAN
  BY PageIs DEF PageRecord
<1>1. CASE Open
  <2>1. latest' \in Slots
    BY <1>1, ASlotIsFree DEF Open, SendLoad, Last, TypeOK
  <2> QED
    BY <1>0, <1>1, <2>1, OpenLoads DEF Open, SendLoad, TypeOK
<1>2. CASE Leave
  BY <1>2 DEF Leave, TypeOK
<1>3. CASE Sync
  <2>1. router \in Keys /\ latest' \in Slots
    BY <1>3, ASlotIsFree DEF Sync, Effect, SendLoad, Last, TypeOK
  <2> QED
    BY <1>0, <1>3, <2>1, EffectLoads DEF Sync, Effect, SendLoad, TypeOK
<1>4. CASE Refresh
  <2>1. latest' \in Slots
    BY <1>4, ASlotIsFree DEF Refresh, Last, TypeOK
  <2> QED
    BY <1>0, <1>4, <2>1, RefreshLoads DEF Refresh, TypeOK
<1>5. CASE SwitchAnswered
  BY <1>5 DEF SwitchAnswered, TypeOK
<1>6. CASE DashboardAnswered
  BY <1>6 DEF DashboardAnswered, TypeOK
<1>7. CASE ReloadPanel
  BY <1>7 DEF ReloadPanel, TypeOK
<1>8. ASSUME NEW key \in Routers, Switch(key) PROVE TypeOK'
  <2>1. key \in Keys /\ switched + 1 \in 0 .. MaxSwitches
    BY <1>8, PanelsAssumption DEF Switch, TypeOK, Keys
  <2>2. CASE page.lags
    BY <1>8, <2>1, <2>2 DEF Switch, TypeOK
  <2>3. CASE ~page.lags
    <3>1. Effect(key)
      BY <1>8, <2>3 DEF Switch
    <3>2. latest' \in Slots
      BY <3>1, ASlotIsFree DEF Effect, SendLoad, Last, TypeOK
    <3> QED
      BY <1>0, <1>8, <2>1, <3>1, <3>2, EffectLoads DEF Switch, Effect, SendLoad, TypeOK
  <2> QED
    BY <2>2, <2>3
<1>9. ASSUME NEW key \in Routers, SwitchRouter(key) PROVE TypeOK'
  <2>1. key \in Keys /\ switched + 1 \in 0 .. MaxSwitches
    BY <1>9, PanelsAssumption DEF SwitchRouter, TypeOK, Keys
  <2> QED
    BY <1>9, <2>1 DEF SwitchRouter, TypeOK
<1>10. ASSUME NEW a \in page.acts, Press(a) PROVE TypeOK'
  <2>1. pressed + 1 \in 0 .. MaxActs
    BY <1>10, PanelsAssumption DEF Press, TypeOK
  <2> QED
    BY <1>10, <2>1, PressPresses DEF Press, TypeOK
<1>11. ASSUME NEW i \in Slots, Serve(i) PROVE TypeOK'
  <2>1. data' \in [Routers \union {Store} -> Versions]
    <3>1. CASE data' = data
      BY <3>1 DEF TypeOK
    <3>2. CASE calls[i].kind = "act" /\ data' = [data EXCEPT ![StoreOf(calls[i].to)] = @ + 1]
      <4> DEFINE s == StoreOf(calls[i].to)
      <4>1. i \in Acting /\ calls[i].at = "sent"
        BY <1>11, <3>2, ServeServes DEF Acting
      <4>2. s \in Routers \union {Store}
        BY <1>11, ServeServes, InFlightCalls, CallKinds, StoreExists
      <4> HIDE DEF s
      <4>3. data[s] + 1 \in Versions
        BY <4>1, <4>2, AnActCounts
      <4> QED
        BY <3>2, <4>2, <4>3 DEF TypeOK, s
    <3> QED
      BY <1>11, <3>1, <3>2, ServeServes
  <2> QED
    BY <1>11, <2>1, ServeServes DEF Serve, TypeOK
<1>12. ASSUME NEW i \in Slots, ListAnswered(i) PROVE TypeOK'
  <2>1. calls' \in [Slots -> Call \union {None}]
    BY <1>12, ListAnswers
  <2> QED
    BY <1>0, <1>12, <2>1 DEF ListAnswered, Last, TypeOK
<1>13. ASSUME NEW i \in Slots, LoadAnswered(i) PROVE TypeOK'
  <2>1. calls' \in [Slots -> Call \union {None}] /\ i \in InFlight /\ calls[i].kind = "load"
    BY <1>13, LoadAnswers
  <2>2. [of |-> calls[i].to, ver |-> calls[i].ver] \in Listing
    BY <2>1, InFlightCalls, CallKinds DEF Listing
  <2> QED
    BY <1>0, <1>13, <2>1, <2>2 DEF LoadAnswered, BusyAfterLoad, TypeOK
<1>14. ASSUME NEW i \in Slots, ActAnswered(i) PROVE TypeOK'
  <2>1. calls' \in [Slots -> Call \union {None}]
    BY <1>14, ActAnswers
  <2> QED
    BY <1>0, <1>14, <2>1 DEF ActAnswered, Last, TypeOK
<1>15. CASE UNCHANGED vars
  BY <1>15 DEF vars, TypeOK
<1> QED
  BY <1>1, <1>2, <1>3, <1>4, <1>5, <1>6, <1>7, <1>8, <1>9, <1>10, <1>11, <1>12, <1>13, <1>14,
     <1>15 DEF Next, Progress

-----------------------------------------------------------------------------
(* The acts are counted *)

(* Calls that end, or are left alone, keep the count. *)
LEMMA CountKept ==
  ASSUME TypeOK, ActsCounted, Outstanding' \subseteq Outstanding, data' = data, pressed' = pressed
  PROVE  ActsCounted'
<1>1. IsFiniteSet(Outstanding) /\ Cardinality(Outstanding) \in Nat
  BY OutstandingIsFinite
<1>2. Cardinality(Outstanding') <= Cardinality(Outstanding) /\ Cardinality(Outstanding') \in Nat
  BY <1>1, FS_Subset, FS_CardinalityType
<1> DEFINE n == Cardinality(Outstanding)
           m == Cardinality(Outstanding')
<1>3. n \in Nat /\ m \in Nat /\ m <= n
  BY <1>1, <1>2
<1>4. \A s \in Routers \union {Store} :
        data[s] \in Int /\ data[s] + n <= 2 * pressed /\ pressed \in Int
  BY DEF ActsCounted, TypeOK, Versions
<1> HIDE DEF n, m
<1>5. \A s \in Routers \union {Store} : data'[s] + m <= 2 * pressed'
  BY <1>3, <1>4
<1> QED
  BY <1>5 DEF ActsCounted, m

LEMMA CountInit == Init => ActsCounted
<1> SUFFICES ASSUME Init PROVE ActsCounted
  OBVIOUS
<1>1. Outstanding = {}
  BY DEF Init, Outstanding, Acting, InFlight
<1> QED
  BY <1>1, FS_EmptySet DEF Init, ActsCounted

LEMMA MoreCalls ==
  ASSUME NEW x \in Outstanding'
  PROVE  /\ x = <<x[1], x[2]>> /\ x[1] \in Slots /\ x[1] \in Acting' /\ x[2] \in {0, 1}
         /\ \/ x[2] = 0 /\ calls'[x[1]].at = "sent"
            \/ x[2] = 1 /\ calls'[x[1]].left = 1
  BY DEF Outstanding

LEMMA CallsLeft ==
  ASSUME \A i \in Acting' :
           /\ i \in Acting
           /\ calls'[i].at = "sent" => calls[i].at = "sent"
           /\ calls'[i].left = 1 => calls[i].left = 1
  PROVE  Outstanding' \subseteq Outstanding
  BY DEF Outstanding

LEMMA CountStep == TypeOK /\ ActsCounted /\ [Next]_vars => ActsCounted'
<1> SUFFICES ASSUME TypeOK, ActsCounted, [Next]_vars PROVE ActsCounted'
  OBVIOUS
<1>0. Acting \subseteq InFlight
  BY DEF Acting
<1>1. ASSUME calls' = calls, data' = data, pressed' = pressed PROVE ActsCounted'
  <2>1. Outstanding' \subseteq Outstanding
    BY <1>1 DEF Outstanding, Acting, InFlight
  <2> QED
    BY <1>1, <2>1, CountKept
<1>2. ASSUME NEW key \in Keys, Loads(key), data' = data, pressed' = pressed PROVE ActsCounted'
  <2>1. Outstanding' \subseteq Outstanding
    BY <1>0, <1>2, CallsLeft DEF Loads, Kept
  <2> QED
    BY <1>2, <2>1, CountKept
<1>3. CASE Open
  BY <1>2, <1>3, OpenLoads DEF Open, TypeOK
<1>4. CASE Sync
  BY <1>2, <1>4, EffectLoads DEF Sync, TypeOK
<1>5. CASE Refresh
  BY <1>2, <1>5, RefreshLoads DEF Refresh, TypeOK
<1>6. ASSUME NEW key \in Routers, Switch(key) PROVE ActsCounted'
  <2>1. CASE page.lags
    BY <1>1, <1>6, <2>1 DEF Switch
  <2>2. CASE ~page.lags
    BY <1>2, <1>6, <2>2, EffectLoads DEF Switch, Keys
  <2> QED
    BY <2>1, <2>2
<1>7. CASE Leave \/ SwitchAnswered \/ DashboardAnswered
  BY <1>1, <1>7 DEF Leave, SwitchAnswered, DashboardAnswered
<1>8. ASSUME NEW key \in Routers, SwitchRouter(key) PROVE ActsCounted'
  BY <1>1, <1>8 DEF SwitchRouter
<1>9. CASE ReloadPanel
  <2>1. Outstanding' \subseteq Outstanding
    BY <1>9 DEF ReloadPanel, Outstanding, Acting, InFlight
  <2> QED
    BY <1>9, <2>1, CountKept DEF ReloadPanel
<1>10. ASSUME NEW a \in page.acts, Press(a) PROVE ActsCounted'
  <2>1. PICK i \in Slots \ InFlight :
          InFlight' = InFlight \union {i} /\ Acting' = Acting \union {i} /\ Kept(i)
    BY <1>10, PressPresses DEF Presses
  <2>2. Outstanding' \subseteq (Outstanding \union {<<i, 0>>}) \union {<<i, 1>>}
    <3> SUFFICES ASSUME NEW x \in Outstanding', x # <<i, 0>>, x # <<i, 1>>
                 PROVE  x \in Outstanding
      OBVIOUS
    <3>1. x[1] # i /\ x[1] \in Acting
      BY <2>1, MoreCalls
    <3>2. calls'[x[1]] = calls[x[1]]
      BY <1>0, <2>1, <3>1 DEF Kept
    <3> QED
      BY <3>1, <3>2, MoreCalls DEF Outstanding
  <2> DEFINE n == Cardinality(Outstanding)
             S == Outstanding \union {<<i, 0>>}
             T == S \union {<<i, 1>>}
  <2>3. n \in Nat /\ IsFiniteSet(S) /\ Cardinality(S) \in Nat /\ Cardinality(S) <= n + 1
    BY OutstandingIsFinite, OneMore
  <2>4. IsFiniteSet(T) /\ Cardinality(T) \in Nat /\ Cardinality(T) <= Cardinality(S) + 1
    BY <2>3, OneMore
  <2>5. Cardinality(Outstanding') \in Nat /\ Cardinality(Outstanding') <= Cardinality(T)
    BY <2>2, <2>4, FS_Subset, FS_CardinalityType
  <2> DEFINE m == Cardinality(Outstanding')
  <2>6. m \in Nat /\ n \in Nat /\ m <= n + 2
    <3> DEFINE k == Cardinality(S)
               l == Cardinality(T)
    <3>1. k \in Nat /\ l \in Nat /\ n \in Nat /\ m \in Nat /\ k <= n + 1 /\ l <= k + 1 /\ m <= l
      BY <2>3, <2>4, <2>5
    <3> HIDE DEF k, l, m, n
    <3> QED
      BY <3>1
  <2>7. data' = data /\ pressed' = pressed + 1
    BY <1>10 DEF Press
  <2>8. \A s \in Routers \union {Store} :
          data[s] \in Int /\ data[s] + n <= 2 * pressed /\ pressed \in Int
    BY DEF ActsCounted, TypeOK, Versions
  <2> HIDE DEF n, m
  <2>9. \A s \in Routers \union {Store} : data'[s] + m <= 2 * pressed'
    BY <2>6, <2>7, <2>8
  <2> QED
    BY <2>9 DEF ActsCounted, m
<1>11. ASSUME NEW i \in Slots, Serve(i) PROVE ActsCounted'
  <2>1. Outstanding' \subseteq Outstanding \ {<<i, 0>>} /\ pressed' = pressed
    <3>1. i \in InFlight /\ IsServed(i) /\ pressed' = pressed
      BY <1>11, ServeServes DEF Serve
    <3>2. Acting' = Acting /\ \A j \in Acting \ {i} : calls'[j] = calls[j]
      BY <1>0, <3>1 DEF IsServed, Kept
    <3>3. i \in Acting => calls'[i].at # "sent" /\ calls'[i].left = calls[i].left
      BY <3>1, <3>2 DEF IsServed, Acting
    <3>4. ASSUME NEW x \in Outstanding' PROVE x \in Outstanding /\ x # <<i, 0>>
      BY <3>2, <3>3, MoreCalls DEF Outstanding
    <3> QED
      BY <3>1, <3>4
  <2>2. CASE data' = data
    BY <2>1, <2>2, CountKept
  <2>3. CASE calls[i].kind = "act" /\ data' = [data EXCEPT ![StoreOf(calls[i].to)] = @ + 1]
    <3> DEFINE n == Cardinality(Outstanding)
               S == Outstanding \ {<<i, 0>>}
               m == Cardinality(Outstanding')
               r == StoreOf(calls[i].to)
    <3>1. <<i, 0>> \in Outstanding
      BY <1>11, <2>3, ServeServes DEF Outstanding, Acting
    <3>2. n \in Nat /\ IsFiniteSet(S) /\ Cardinality(S) = n - 1
      BY <3>1, OutstandingIsFinite, FS_RemoveElement
    <3>3. m \in Nat /\ m <= Cardinality(S)
      BY <2>1, <3>2, FS_Subset, FS_CardinalityType
    <3>4. n \in Nat /\ m \in Nat /\ m <= n - 1
      <4> HIDE DEF n, m
      <4> QED
        BY <3>2, <3>3
    <3>5. \A s \in Routers \union {Store} :
            data[s] \in Int /\ data[s] + n <= 2 * pressed /\ pressed \in Int
      BY DEF ActsCounted, TypeOK, Versions
    <3> HIDE DEF n, m, r
    <3>6. \A s \in Routers \union {Store} : data'[s] = IF s = r THEN data[s] + 1 ELSE data[s]
      BY <2>3 DEF TypeOK, r
    <3>7. \A s \in Routers \union {Store} : data'[s] + m <= 2 * pressed'
      BY <2>1, <3>4, <3>5, <3>6
    <3> QED
      BY <3>7 DEF ActsCounted, m
  <2> QED
    BY <1>11, <2>2, <2>3, ServeServes
<1>12. ASSUME NEW i \in Slots, Gone(i), data' = data, pressed' = pressed PROVE ActsCounted'
  <2>1. Outstanding' \subseteq Outstanding
    BY <1>0, <1>12, CallsLeft DEF Gone, Kept
  <2> QED
    BY <1>12, <2>1, CountKept
<1>13. ASSUME NEW i \in Slots, NEW key \in Keys, Asks(i, key), data' = data, pressed' = pressed
       PROVE  ActsCounted'
  <2>1. Outstanding' \subseteq Outstanding
    BY <1>0, <1>13, CallsLeft DEF Asks, Kept
  <2> QED
    BY <1>13, <2>1, CountKept
<1>14. ASSUME NEW i \in Slots, ListAnswered(i) PROVE ActsCounted'
  BY <1>12, <1>13, <1>14, ListAnswers DEF ListAnswered, TypeOK
<1>15. ASSUME NEW i \in Slots, LoadAnswered(i) PROVE ActsCounted'
  BY <1>12, <1>15, LoadAnswers DEF LoadAnswered
<1>16. ASSUME NEW i \in Slots, ActAnswered(i) PROVE ActsCounted'
  <2>1. i \in Acting /\ ActSteps(i) /\ data' = data /\ pressed' = pressed
    BY <1>16, ActAnswers DEF ActAnswered
  <2>2. CASE Repeats(i)
    <3>1. /\ Acting' = Acting /\ \A j \in Acting \ {i} : calls'[j] = calls[j]
          /\ calls[i].left = 1 /\ calls'[i].left = 0 /\ calls[i].at # "sent"
      BY <1>0, <1>16, <2>2 DEF Repeats, Kept, ActAnswered
    <3> DEFINE S == Outstanding \ {<<i, 1>>}
               T == S \union {<<i, 0>>}
               n == Cardinality(Outstanding)
               m == Cardinality(Outstanding')
    <3>2. <<i, 1>> \in Outstanding
      BY <2>1, <3>1 DEF Outstanding
    <3>3. Outstanding' \subseteq T
      <4> SUFFICES ASSUME NEW x \in Outstanding', x # <<i, 0>> PROVE x \in S
        OBVIOUS
      <4>1. x[1] \in Acting /\ x[1] # i
        BY <3>1, MoreCalls
      <4> QED
        BY <3>1, <4>1, MoreCalls DEF Outstanding
    <3>4. n \in Nat /\ IsFiniteSet(S) /\ Cardinality(S) = n - 1 /\ Cardinality(S) \in Nat
      BY <3>2, OutstandingIsFinite, FS_RemoveElement, FS_CardinalityType
    <3>5. IsFiniteSet(T) /\ Cardinality(T) \in Nat /\ Cardinality(T) <= Cardinality(S) + 1
      BY <3>4, OneMore
    <3>6. m \in Nat /\ m <= Cardinality(T)
      BY <3>3, <3>5, FS_Subset, FS_CardinalityType
    <3>7. n \in Nat /\ m \in Nat /\ m <= n
      <4> DEFINE k == Cardinality(S)
                 l == Cardinality(T)
      <4>1. k \in Nat /\ l \in Nat /\ n \in Nat /\ m \in Nat /\ k = n - 1 /\ l <= k + 1 /\ m <= l
        BY <3>4, <3>5, <3>6
      <4> HIDE DEF k, l, m, n
      <4> QED
        BY <4>1
    <3>8. \A s \in Routers \union {Store} :
            data[s] \in Int /\ data[s] + n <= 2 * pressed /\ pressed \in Int
      BY DEF ActsCounted, TypeOK, Versions
    <3> HIDE DEF n, m
    <3>9. \A s \in Routers \union {Store} : data'[s] + m <= 2 * pressed'
      BY <2>1, <3>7, <3>8
    <3> QED
      BY <3>9 DEF ActsCounted, m
  <2>3. CASE Gone(i)
    BY <1>12, <2>1, <2>3
  <2>4. CASE Asks(i, NextRouter(i))
    <3>1. NextRouter(i) \in Keys
      BY <1>0, <2>1, InFlightCalls, CallKinds DEF NextRouter, TypeOK
    <3> QED
      BY <1>13, <2>1, <2>4, <3>1
  <2> QED
    BY <2>1, <2>2, <2>3, <2>4 DEF ActSteps
<1>17. CASE UNCHANGED vars
  BY <1>1, <1>17 DEF vars
<1> QED
  BY <1>3, <1>4, <1>5, <1>6, <1>7, <1>8, <1>9, <1>10, <1>11, <1>14, <1>15, <1>16,
     <1>17 DEF Next, Progress

-----------------------------------------------------------------------------
(* What the page does *)

LEMMA SameCalls ==
  ASSUME calls' = calls
  PROVE  InFlight' = InFlight /\ Acting' = Acting
  BY DEF InFlight, Acting

LEMMA ReloadCalls == ASSUME ReloadPanel PROVE InFlight' = {} /\ Acting' = {}
  BY DEF ReloadPanel, InFlight, Acting

LEMMA CallsOfThePageInit == Init => CallsOfThePage
  BY DEF Init, CallsOfThePage, InFlight, Acting

LEMMA CallsOfThePageStep == TypeOK /\ CallsOfThePage /\ [Next]_vars => CallsOfThePage'
<1> SUFFICES ASSUME TypeOK, CallsOfThePage, [Next]_vars PROVE CallsOfThePage'
  OBVIOUS
<1>0. Acting \subseteq InFlight /\ page' = page
  BY PageStays DEF Acting
<1>1. ASSUME calls' = calls PROVE CallsOfThePage'
  BY <1>0, <1>1, SameCalls DEF CallsOfThePage
<1>2. ASSUME NEW key \in Keys, Loads(key) PROVE CallsOfThePage'
  BY <1>0, <1>2 DEF CallsOfThePage, Loads, Kept, IsLoad
<1>3. CASE Open
  BY <1>2, <1>3, OpenLoads DEF TypeOK
<1>4. CASE Sync
  BY <1>2, <1>4, EffectLoads DEF Sync, TypeOK
<1>5. CASE Refresh
  BY <1>2, <1>5, RefreshLoads DEF TypeOK
<1>6. ASSUME NEW key \in Routers, Switch(key) PROVE CallsOfThePage'
  <2>1. CASE page.lags
    BY <1>1, <1>6, <2>1 DEF Switch
  <2>2. CASE ~page.lags
    BY <1>2, <1>6, <2>2, EffectLoads DEF Switch, Keys
  <2> QED
    BY <2>1, <2>2
<1>7. CASE Leave \/ SwitchAnswered \/ DashboardAnswered
  BY <1>1, <1>7 DEF Leave, SwitchAnswered, DashboardAnswered
<1>8. ASSUME NEW key \in Routers, SwitchRouter(key) PROVE CallsOfThePage'
  BY <1>1, <1>8 DEF SwitchRouter
<1>9. CASE ReloadPanel
  BY <1>9, ReloadCalls DEF CallsOfThePage
<1>10. ASSUME NEW a \in page.acts, Press(a) PROVE CallsOfThePage'
  <2>1. a.many \in BOOLEAN
    BY PageIs DEF PageRecord, ActRecord
  <2>2. PICK i \in Slots \ InFlight :
          /\ InFlight' = InFlight \union {i} /\ Acting' = Acting \union {i} /\ Kept(i)
          /\ calls'[i].kind = "act" /\ calls'[i].act = a
          /\ calls'[i].left = IF a.many THEN 1 ELSE 0
    BY <1>10, PressPresses DEF Presses
  <2> QED
    BY <1>0, <2>1, <2>2 DEF CallsOfThePage, Kept
<1>11. ASSUME NEW i \in Slots, Serve(i) PROVE CallsOfThePage'
  <2>1. IsServed(i) /\ i \in InFlight
    BY <1>11, ServeServes
  <2> QED
    BY <1>0, <2>1 DEF CallsOfThePage, IsServed, Kept, SameAct, Acting
<1>12. ASSUME NEW i \in Slots, Gone(i) PROVE CallsOfThePage'
  BY <1>0, <1>12 DEF CallsOfThePage, Gone, Kept
<1>13. ASSUME NEW i \in Slots, NEW key \in Keys, Asks(i, key) PROVE CallsOfThePage'
  BY <1>0, <1>13 DEF CallsOfThePage, Asks, Kept, IsLoad
<1>14. ASSUME NEW i \in Slots, ListAnswered(i) PROVE CallsOfThePage'
  BY <1>12, <1>13, <1>14, ListAnswers DEF TypeOK
<1>15. ASSUME NEW i \in Slots, LoadAnswered(i) PROVE CallsOfThePage'
  BY <1>12, <1>15, LoadAnswers
<1>16. ASSUME NEW i \in Slots, ActAnswered(i) PROVE CallsOfThePage'
  <2>1. i \in Acting /\ ActSteps(i)
    BY <1>16, ActAnswers
  <2>2. CASE Repeats(i)
    BY <1>0, <2>1, <2>2 DEF CallsOfThePage, Repeats, Kept, SameAct
  <2>3. NextRouter(i) \in Keys
    BY <1>0, <2>1, InFlightCalls, CallKinds DEF NextRouter, TypeOK
  <2> QED
    BY <1>12, <1>13, <2>1, <2>2, <2>3 DEF ActSteps
<1>17. CASE UNCHANGED vars
  BY <1>1, <1>17 DEF vars
<1> QED
  BY <1>3, <1>4, <1>5, <1>6, <1>7, <1>8, <1>9, <1>10, <1>11, <1>14, <1>15, <1>16,
     <1>17 DEF Next, Progress

LEMMA PageFlagsInit == Init => PageFlags
  BY DEF Init, PageFlags, React, InFlight

LEMMA PageFlagsStep == TypeOK /\ PageFlags /\ [Next]_vars => PageFlags'
<1> SUFFICES ASSUME TypeOK, PageFlags, [Next]_vars PROVE PageFlags'
  OBVIOUS
<1>0. page' = page
  BY PageStays
<1>1. CASE Open
  BY <1>0, <1>1 DEF PageFlags, Open, React
<1>2. CASE Leave
  BY <1>0, <1>2, SameCalls DEF PageFlags, Leave, React
<1>3. CASE Sync
  BY <1>0, <1>3 DEF PageFlags, Sync, Effect, React
<1>4. CASE Refresh
  BY <1>0, <1>4 DEF PageFlags, Refresh, React
<1>5. CASE SwitchAnswered
  BY <1>0, <1>5, SameCalls DEF PageFlags, SwitchAnswered, React
<1>6. CASE DashboardAnswered
  BY <1>0, <1>6, SameCalls DEF PageFlags, DashboardAnswered, React
<1>7. CASE ReloadPanel
  BY <1>0, <1>7, ReloadCalls DEF PageFlags, ReloadPanel, React
<1>8. ASSUME NEW key \in Routers, Switch(key) PROVE PageFlags'
  BY <1>0, <1>8 DEF PageFlags, Switch, Effect, React
<1>9. ASSUME NEW key \in Routers, SwitchRouter(key) PROVE PageFlags'
  BY <1>0, <1>9, SameCalls DEF PageFlags, SwitchRouter, React
<1>10. ASSUME NEW a \in page.acts, Press(a) PROVE PageFlags'
  BY <1>0, <1>10 DEF PageFlags, Press, React
<1>11. ASSUME NEW i \in InFlight, UNCHANGED <<away, router, session, posting, dash>>
       PROVE  PageFlags'
  BY <1>0, <1>11 DEF PageFlags, React
<1>12. ASSUME NEW i \in Slots, Serve(i) PROVE PageFlags'
  BY <1>11, <1>12, ServeServes DEF Serve
<1>13. ASSUME NEW i \in Slots, ListAnswered(i) PROVE PageFlags'
  BY <1>11, <1>13, ListAnswers DEF ListAnswered
<1>14. ASSUME NEW i \in Slots, LoadAnswered(i) PROVE PageFlags'
  BY <1>11, <1>14, LoadAnswers DEF LoadAnswered
<1>15. ASSUME NEW i \in Slots, ActAnswered(i) PROVE PageFlags'
  BY <1>11, <1>15, ActAnswers DEF ActAnswered
<1>16. CASE UNCHANGED vars
  BY <1>16, SameCalls DEF vars, PageFlags, React
<1> QED
  BY <1>1, <1>2, <1>3, <1>4, <1>5, <1>6, <1>7, <1>8, <1>9, <1>10, <1>12, <1>13, <1>14, <1>15,
     <1>16 DEF Next, Progress

-----------------------------------------------------------------------------
(* The page, and what its calls carry *)
LEMMA SentToSessionInit == Init => SentToSession
  BY DEF Init, SentToSession, InFlight

LEMMA SentToSessionStep == TypeOK /\ PageFlags /\ SentToSession /\ [Next]_vars => SentToSession'
<1> SUFFICES ASSUME TypeOK, PageFlags, SentToSession, [Next]_vars PROVE SentToSession'
  OBVIOUS
<1>0. page' = page /\ Acting \subseteq InFlight /\ PageFacts(page)
  BY PageStays, PageIs DEF Acting
<1>2. ASSUME Loads(session'), ~raced' => \A i \in InFlight : calls[i].to = session'
      PROVE  SentToSession'
  BY <1>2 DEF SentToSession, Loads, Kept, IsLoad
<1>3. CASE Open
  <2>1. Loads(session') /\ (React => InFlight = {}) /\ (~React => session' = session)
    BY <1>0, <1>3, OpenLoads DEF Open, PageFlags, PageFacts, OldFacts, React, PageRecord
  <2> QED
    BY <1>2, <1>3, <2>1 DEF Open, SentToSession
<1>4. CASE Sync
  <2>1. Loads(session') /\ (~raced' => InFlight = {})
    BY <1>4, EffectLoads DEF Sync, Effect, TypeOK
  <2> QED
    BY <1>2, <2>1
<1>5. CASE Refresh
  <2>1. Loads(session') /\ session' = session /\ raced' = raced
    BY <1>5, RefreshLoads DEF Refresh
  <2> QED
    BY <1>2, <2>1 DEF SentToSession
<1>6. ASSUME NEW key \in Routers, Switch(key) PROVE SentToSession'
  <2>1. CASE page.lags
    BY <1>6, <2>1, SameCalls DEF Switch, SentToSession
  <2>2. CASE ~page.lags
    <3>1. Loads(session') /\ (~raced' => InFlight = {})
      BY <1>6, <2>2, EffectLoads DEF Switch, Effect, Keys
    <3> QED
      BY <1>2, <3>1
  <2> QED
    BY <2>1, <2>2
<1>7. CASE Leave \/ SwitchAnswered \/ DashboardAnswered
  BY <1>7, SameCalls DEF Leave, SwitchAnswered, DashboardAnswered, SentToSession
<1>8. ASSUME NEW key \in Routers, SwitchRouter(key) PROVE SentToSession'
  BY <1>8, SameCalls DEF SwitchRouter, SentToSession
<1>9. CASE ReloadPanel
  BY <1>9, ReloadCalls DEF SentToSession
<1>10. ASSUME NEW a \in page.acts, Press(a) PROVE SentToSession'
  <2>1. session' = session /\ raced' = raced
    BY <1>10 DEF Press
  <2> QED
    BY <1>10, <2>1, PressPresses DEF SentToSession, Presses, Kept
<1>11. ASSUME NEW i \in Slots, Serve(i) PROVE SentToSession'
  <2>1. session' = session /\ raced' = raced /\ i \in InFlight /\ IsServed(i)
    BY <1>11, ServeServes DEF Serve
  <2> QED
    BY <2>1 DEF SentToSession, IsServed, Kept
<1>12. ASSUME NEW i \in Slots, Gone(i), session' = session, ~raced' => ~raced PROVE SentToSession'
  BY <1>12 DEF SentToSession, Gone, Kept
<1>13. ASSUME NEW i \in Slots, NEW key \in Keys, Asks(i, key), session' = session,
              ~raced' => ~raced /\ key = session
       PROVE  SentToSession'
  BY <1>13 DEF SentToSession, Asks, Kept, IsLoad
<1>14. ASSUME NEW i \in Slots, ListAnswered(i) PROVE SentToSession'
  <2>1. session' = session /\ raced' = raced
    BY <1>14 DEF ListAnswered
  <2> QED
    BY <1>12, <1>13, <1>14, <2>1, ListAnswers DEF TypeOK
<1>15. ASSUME NEW i \in Slots, LoadAnswered(i) PROVE SentToSession'
  <2>1. session' = session /\ raced' = raced
    BY <1>15 DEF LoadAnswered
  <2> QED
    BY <1>12, <1>15, <2>1, LoadAnswers
<1>16. ASSUME NEW i \in Slots, ActAnswered(i) PROVE SentToSession'
  <2>1. i \in Acting /\ ActSteps(i) /\ session' = session
    BY <1>16, ActAnswers DEF ActAnswered
  <2>2. ~raced => NextRouter(i) = session
    BY <1>0, <2>1 DEF SentToSession, NextRouter
  <2>3. NextRouter(i) \in Keys
    BY <1>0, <2>1, InFlightCalls, CallKinds DEF NextRouter, TypeOK
  <2>4. CASE Repeats(i) /\ raced' = raced
    BY <2>1, <2>2, <2>4 DEF SentToSession, Repeats, Kept
  <2>5. ~raced' => ~raced
    BY <2>1 DEF ActSteps
  <2> QED
    BY <1>12, <1>13, <2>1, <2>2, <2>3, <2>4, <2>5 DEF ActSteps
<1>17. CASE UNCHANGED vars
  BY <1>17, SameCalls DEF vars, SentToSession
<1> QED
  BY <1>3, <1>4, <1>5, <1>6, <1>7, <1>8, <1>9, <1>10, <1>11, <1>14, <1>15, <1>16,
     <1>17 DEF Next, Progress

(* What is pressed under protection is pressed on rows of the page's router. *)
LEMMA PressedRows ==
  ASSUME TypeOK, StaleReact, StaleOld, OnTheWay, NEW a \in page.acts, Press(a), Protected
  PROVE  rows.of = session
<1> SUFFICES ASSUME Stale PROVE FALSE
  BY DEF Stale, Protected, Press
<1>1. page.keyed = "router" /\ posting = "none" /\ (failed = "load" => page.clears)
  BY DEF Protected
<1>2. ~away /\ ~Covered /\ (a.locks => ~busy)
  BY DEF Press, Unlocks
<1>3. CASE React
  <2>1. ~page.clears /\ failed # "load" /\ ((\A b \in page.acts : b.locks) => busy)
    BY <1>1, <1>3 DEF StaleReact
  <2>2. ~(\A b \in page.acts : b.locks)
    BY <1>2, <2>1
  <2>3. ~Loading
    BY <1>3, <2>2 DEF Protected
  <2>4. ~page.guards
    BY <1>1, <1>3, <2>1, PageIs DEF React, PageFacts, ReactFacts
  <2>5. Loading
    BY <1>1, <1>2, <2>1, <2>4 DEF OnTheWay, Loading
  <2> QED
    BY <2>3, <2>5
<1>4. CASE ~React
  <2>1. page.waits /\ ~busy
    BY <1>2, <1>4 DEF Protected, Covered
  <2>2. page.panel = "old"
    BY <1>4, PageIs DEF React, PageRecord
  <2>3. ~page.clears
    BY <2>1, <2>2, PageIs DEF PageFacts, OldFacts
  <2> QED
    BY <1>1, <1>2, <1>4, <2>1, <2>3 DEF StaleOld
<1> QED
  BY <1>3, <1>4

(* No loop is under way where the old panel can switch: loops have dialogs.  *)
LEMMA NoLoopBehindADialog ==
  ASSUME TypeOK, CallsOfThePage, ~Covered, ~React, NEW i \in Acting
  PROVE  ~(calls[i].left > 0)
<1>1. page.panel = "old"
  BY PageIs DEF React, PageRecord
<1>2. ~calls[i].act.modal
  BY DEF Covered, DialogOpen
<1> QED
  BY <1>1, <1>2, PageIs DEF CallsOfThePage, PageFacts, OldFacts

LEMMA SeenRowsInit == Init => SeenRows
  BY DEF Init, SeenRows, Acting, InFlight

LEMMA SeenRowsStep ==
  TypeOK /\ CallsOfThePage /\ PageFlags /\ StaleReact /\ StaleOld /\ OnTheWay /\ SeenRows
    /\ [Next]_vars => SeenRows'
<1> SUFFICES ASSUME TypeOK, CallsOfThePage, PageFlags, StaleReact, StaleOld, OnTheWay, SeenRows,
                    [Next]_vars
             PROVE  SeenRows'
  OBVIOUS
<1>0. page' = page /\ Acting \subseteq InFlight /\ PageFacts(page) /\ page \in PageRecord
  BY PageStays, PageIs DEF Acting
<1>1. ASSUME Acting' \subseteq Acting, \A i \in Acting' : calls'[i] = calls[i],
             ~React => session' = session \/ \A i \in Acting : ~(calls[i].left > 0)
      PROVE  SeenRows'
  BY <1>0, <1>1 DEF SeenRows, React
<1>2. ASSUME NEW key \in Keys, Loads(key),
             ~React => session' = session \/ \A i \in Acting : ~(calls[i].left > 0)
      PROVE  SeenRows'
  BY <1>0, <1>1, <1>2 DEF Loads, Kept
<1>3. CASE Open
  <2>1. Loads(router) /\ router \in Keys /\ (~React => session' = session)
    BY <1>0, <1>3, OpenLoads DEF Open, PageFlags, PageFacts, OldFacts, React, PageRecord, TypeOK
  <2> QED
    BY <1>2, <2>1
<1>4. CASE Sync
  <2>1. Loads(router) /\ router \in Keys
    BY <1>4, EffectLoads DEF Sync, TypeOK
  <2>2. React
    BY <1>0, <1>4 DEF Sync, PageFacts, OldFacts, React, PageRecord
  <2> QED
    BY <1>2, <2>1, <2>2
<1>5. CASE Refresh
  BY <1>2, <1>5, RefreshLoads DEF Refresh, TypeOK
<1>6. ASSUME NEW key \in Routers, Switch(key) PROVE SeenRows'
  <2>1. CASE page.lags
    BY <1>1, <1>6, <2>1, SameCalls DEF Switch
  <2>2. CASE ~page.lags
    <3>1. Loads(key) /\ key \in Keys /\ ~Covered
      BY <1>6, <2>2, EffectLoads DEF Switch, Keys
    <3> QED
      BY <1>2, <3>1, NoLoopBehindADialog
  <2> QED
    BY <2>1, <2>2
<1>7. CASE Leave \/ SwitchAnswered \/ DashboardAnswered
  BY <1>1, <1>7, SameCalls DEF Leave, SwitchAnswered, DashboardAnswered
<1>8. ASSUME NEW key \in Routers, SwitchRouter(key) PROVE SeenRows'
  BY <1>1, <1>8, SameCalls, NoLoopBehindADialog DEF SwitchRouter
<1>9. CASE ReloadPanel
  BY <1>9, ReloadCalls DEF SeenRows
<1>10. ASSUME NEW a \in page.acts, Press(a) PROVE SeenRows'
  <2>1. session' = session
    BY <1>10 DEF Press
  <2>2. PICK i \in Slots \ InFlight :
          /\ Acting' = Acting \union {i} /\ Kept(i) /\ calls'[i].to = session
          /\ calls'[i].seen = IF Protected THEN rows.of ELSE None
    BY <1>10, PressPresses DEF Presses
  <2>3. calls'[i].seen \in {session, None}
    BY <1>10, <2>2, PressedRows
  <2> QED
    BY <1>0, <2>1, <2>2, <2>3 DEF SeenRows, Kept, React
<1>11. ASSUME NEW i \in Slots, Serve(i) PROVE SeenRows'
  <2>1. session' = session /\ i \in InFlight /\ IsServed(i)
    BY <1>11, ServeServes DEF Serve
  <2> QED
    BY <1>0, <2>1 DEF SeenRows, IsServed, Kept, SameAct, React, Acting
<1>12. ASSUME NEW i \in Slots, Gone(i), session' = session PROVE SeenRows'
  BY <1>0, <1>1, <1>12 DEF Gone, Kept
<1>13. ASSUME NEW i \in Slots, NEW key \in Keys, Asks(i, key), session' = session PROVE SeenRows'
  BY <1>0, <1>1, <1>13 DEF Asks, Kept
<1>14. ASSUME NEW i \in Slots, ListAnswered(i) PROVE SeenRows'
  <2>1. session' = session
    BY <1>14 DEF ListAnswered
  <2> QED
    BY <1>12, <1>13, <1>14, <2>1, ListAnswers DEF TypeOK
<1>15. ASSUME NEW i \in Slots, LoadAnswered(i) PROVE SeenRows'
  BY <1>12, <1>15, LoadAnswers DEF LoadAnswered
<1>16. ASSUME NEW i \in Slots, ActAnswered(i) PROVE SeenRows'
  <2>1. i \in Acting /\ ActSteps(i) /\ session' = session
    BY <1>16, ActAnswers DEF ActAnswered
  <2>2. NextRouter(i) \in Keys
    BY <1>0, <2>1, InFlightCalls, CallKinds DEF NextRouter, TypeOK
  <2>3. CASE Repeats(i)
    <3>1. calls[i].left = 1 /\ calls'[i].left = 0
      BY <2>3 DEF Repeats
    <3>2. calls[i].left > 0 /\ ~(calls'[i].left > 0)
      BY <3>1
    <3>3. calls'[i].seen \in {calls'[i].to, None}
      BY <2>1, <2>3, <3>2 DEF SeenRows, Repeats, SameAct, NextRouter
    <3>4. Acting' = Acting /\ \A j \in Acting \ {i} : calls'[j] = calls[j]
      BY <1>0, <2>3 DEF Repeats, Kept
    <3> QED
      BY <1>0, <2>1, <3>2, <3>3, <3>4 DEF SeenRows, React
  <2> QED
    BY <1>12, <1>13, <2>1, <2>2, <2>3 DEF ActSteps
<1>17. CASE UNCHANGED vars
  BY <1>1, <1>17, SameCalls DEF vars
<1> QED
  BY <1>3, <1>4, <1>5, <1>6, <1>7, <1>8, <1>9, <1>10, <1>11, <1>14, <1>15, <1>16,
     <1>17 DEF Next, Progress

-----------------------------------------------------------------------------
(* What is on screen *)
LEMMA GuardedRowsInit == Init => GuardedRows
  BY DEF Init, GuardedRows, InFlight

LEMMA GuardedRowsStep ==
  TypeOK /\ CallsOfThePage /\ PageFlags /\ GuardedRows /\ [Next]_vars => GuardedRows'
<1> SUFFICES ASSUME TypeOK, CallsOfThePage, PageFlags, GuardedRows, [Next]_vars, page.guards
             PROVE  GuardedRows'
  BY PageStays DEF GuardedRows
<1>0. /\ page' = page /\ Acting = {} /\ React /\ page.clears /\ page.acts = {}
  BY PageStays, PageIs DEF PageFacts, CallsOfThePage, React
<1>1. ASSUME calls' = calls, UNCHANGED <<rows, session, latest>> PROVE GuardedRows'
  BY <1>0, <1>1, SameCalls DEF GuardedRows
<1>2. ASSUME Loads(session'), rows' = None \/ UNCHANGED <<rows, session>> PROVE GuardedRows'
  BY <1>0, <1>2 DEF GuardedRows, Loads, Kept, IsLoad, Last
<1>3. CASE Open
  BY <1>0, <1>2, <1>3, OpenLoads DEF Open, SendLoad
<1>4. CASE Sync
  BY <1>0, <1>2, <1>4, EffectLoads DEF Sync, Effect, SendLoad, TypeOK
<1>5. CASE Refresh
  <2>1. Loads(session') /\ UNCHANGED <<rows, session>>
    BY <1>0, <1>5, RefreshLoads DEF Refresh
  <2> QED
    BY <1>2, <2>1
<1>6. ASSUME NEW key \in Routers, Switch(key) PROVE GuardedRows'
  <2>1. CASE page.lags
    BY <1>1, <1>6, <2>1 DEF Switch
  <2>2. CASE ~page.lags
    BY <1>0, <1>2, <1>6, <2>2, EffectLoads DEF Switch, Effect, SendLoad, Keys
  <2> QED
    BY <2>1, <2>2
<1>7. CASE Leave \/ SwitchAnswered \/ DashboardAnswered
  BY <1>1, <1>7 DEF Leave, SwitchAnswered, DashboardAnswered
<1>8. ASSUME NEW key \in Routers, SwitchRouter(key) PROVE GuardedRows'
  BY <1>0, <1>8 DEF SwitchRouter
<1>9. CASE ReloadPanel
  BY <1>9, ReloadCalls DEF GuardedRows, ReloadPanel
<1>10. ASSUME NEW i \in Slots, Serve(i) PROVE GuardedRows'
  <2>1. UNCHANGED <<rows, session, latest>> /\ i \in InFlight /\ IsServed(i)
    BY <1>10, ServeServes DEF Serve
  <2> QED
    BY <1>0, <2>1 DEF GuardedRows, IsServed, Kept
<1>11. ASSUME NEW i \in Slots, ListAnswered(i) PROVE GuardedRows'
  <2>1. session' = session /\ i \in InFlight
    BY <1>11, ListAnswers DEF ListAnswered
  <2>2. CASE Asks(i, session) /\ rows' = rows
    BY <1>0, <2>1, <2>2 DEF GuardedRows, Asks, Kept, IsLoad, Last
  <2>3. CASE Gone(i) /\ rows' = None /\ latest' = latest
    BY <1>0, <2>1, <2>3 DEF GuardedRows, Gone, Kept
  <2> QED
    BY <1>11, <2>2, <2>3, ListAnswers
<1>12. ASSUME NEW i \in Slots, LoadAnswered(i) PROVE GuardedRows'
  <2>1. session' = session /\ i \in InFlight /\ Gone(i) /\ latest' = latest
    BY <1>12, LoadAnswers DEF LoadAnswered
  <2>2. rows' \in {rows, None} \/ (i = latest /\ rows'.of = calls[i].to)
    BY <1>0, <1>12 DEF LoadAnswered, Ignored
  <2> QED
    BY <1>0, <2>1, <2>2 DEF GuardedRows, Gone, Kept
<1>13. CASE UNCHANGED vars
  BY <1>1, <1>13 DEF vars
<1>14. ASSUME NEW i \in Slots, ActAnswered(i) PROVE FALSE
  BY <1>0, <1>14 DEF ActAnswered
<1> QED
  BY <1>0, <1>3, <1>4, <1>5, <1>6, <1>7, <1>8, <1>9, <1>10, <1>11, <1>12, <1>13,
     <1>14 DEF Next, Progress

LEMMA UntouchedInit == Init => Untouched
  BY DEF Init, Untouched, InFlight

LEMMA UntouchedStep == TypeOK /\ CallsOfThePage /\ Untouched /\ [Next]_vars => Untouched'
<1> SUFFICES ASSUME TypeOK, CallsOfThePage, Untouched, [Next]_vars, page.acts = {}
             PROVE  Untouched'
  BY PageStays DEF Untouched
<1>0. page' = page /\ Acting = {}
  BY PageStays DEF CallsOfThePage
<1>1. ASSUME calls' = calls, data' = data, rows' \in {rows, None} PROVE Untouched'
  BY <1>0, <1>1, SameCalls DEF Untouched
<1>2. ASSUME NEW key \in Keys, Loads(key), data' = data, rows' \in {rows, None} PROVE Untouched'
  BY <1>0, <1>2 DEF Untouched, Loads, Kept, IsLoad
<1>3. CASE Open
  BY <1>2, <1>3, OpenLoads DEF Open, SendLoad, TypeOK
<1>4. CASE Sync
  BY <1>2, <1>4, EffectLoads DEF Sync, Effect, SendLoad, TypeOK
<1>5. CASE Refresh
  BY <1>2, <1>5, RefreshLoads DEF Refresh, TypeOK
<1>6. ASSUME NEW key \in Routers, Switch(key) PROVE Untouched'
  <2>1. CASE page.lags
    BY <1>1, <1>6, <2>1 DEF Switch
  <2>2. CASE ~page.lags
    BY <1>2, <1>6, <2>2, EffectLoads DEF Switch, Effect, SendLoad, Keys
  <2> QED
    BY <2>1, <2>2
<1>7. CASE Leave \/ SwitchAnswered \/ DashboardAnswered
  BY <1>1, <1>7 DEF Leave, SwitchAnswered, DashboardAnswered
<1>8. ASSUME NEW key \in Routers, SwitchRouter(key) PROVE Untouched'
  BY <1>1, <1>8 DEF SwitchRouter
<1>9. CASE ReloadPanel
  BY <1>0, <1>9, ReloadCalls DEF Untouched, ReloadPanel
<1>10. ASSUME NEW i \in Slots, Serve(i) PROVE Untouched'
  <2>1. rows' = rows /\ i \in InFlight /\ IsServed(i) /\ calls[i].kind # "act"
    BY <1>0, <1>10, ServeServes DEF Serve, Acting
  <2>2. data' = data /\ StoreOf(calls[i].to) \in Routers \union {Store}
    BY <1>10, <2>1, ServeServes, InFlightCalls, CallKinds, StoreExists
  <2> QED
    BY <1>0, <2>1, <2>2 DEF Untouched, IsServed, Kept
<1>11. ASSUME NEW i \in Slots, ListAnswered(i) PROVE Untouched'
  <2>1. data' = data /\ i \in InFlight
    BY <1>11, ListAnswers DEF ListAnswered
  <2>2. CASE Asks(i, session) /\ rows' = rows
    BY <1>0, <2>1, <2>2 DEF Untouched, Asks, Kept, IsLoad
  <2>3. CASE Gone(i) /\ rows' = None
    BY <1>0, <2>1, <2>3 DEF Untouched, Gone, Kept
  <2> QED
    BY <1>11, <2>2, <2>3, ListAnswers
<1>12. ASSUME NEW i \in Slots, LoadAnswered(i) PROVE Untouched'
  <2>1. data' = data /\ i \in InFlight /\ Gone(i)
    BY <1>12, LoadAnswers DEF LoadAnswered
  <2>2. rows' \in {rows, None} \/ rows'.ver = calls[i].ver
    BY <1>0, <1>12 DEF LoadAnswered
  <2> QED
    BY <1>0, <2>1, <2>2 DEF Untouched, Gone, Kept
<1>13. CASE UNCHANGED vars
  BY <1>1, <1>13 DEF vars
<1>14. ASSUME NEW i \in Slots, ActAnswered(i) PROVE FALSE
  BY <1>0, <1>14 DEF ActAnswered
<1> QED
  BY <1>3, <1>4, <1>5, <1>6, <1>7, <1>8, <1>9, <1>10, <1>11, <1>12, <1>13, <1>14 DEF Next, Progress

LEMMA ActScreen ==
  ASSUME NEW i \in Slots, ActSteps(i)
  PROVE  rows' \in {rows, None} /\ (~raced' => ~raced)
<1>1. rows' \in {rows, None}
  BY DEF ActSteps
<1>2. ~raced' => ~raced
  BY DEF ActSteps
<1> QED
  BY <1>1, <1>2

LEMMA StaleReactInit == Init => StaleReact
  BY DEF Init, StaleReact, Stale

LEMMA StaleReactStep ==
  TypeOK /\ CallsOfThePage /\ PageFlags /\ SentToSession /\ StaleReact /\ [Next]_vars => StaleReact'
<1> SUFFICES ASSUME TypeOK, CallsOfThePage, PageFlags, SentToSession, StaleReact, [Next]_vars,
                    React, page.keyed = "router", Stale'
             PROVE  /\ ~page.clears
                    /\ \/ failed' = "load"
                       \/ (\A a \in page.acts : a.locks) => busy' /\ Acting' = {}
  BY PageStays DEF StaleReact, React
<1> DEFINE AllLock == \A a \in page.acts : a.locks
           Goal == ~page.clears /\ (failed' = "load" \/ (AllLock => busy' /\ Acting' = {}))
<1>0. /\ page' = page /\ Acting \subseteq InFlight
      /\ ~page.clears => page.waits /\ ~page.lists /\ ~page.guards
  BY PageStays, PageIs DEF Acting, PageFacts, ReactFacts, React
<1>1. ~raced' /\ rows' # None /\ rows'.of # session'
  BY DEF Stale
<1>2. Stale => ~page.clears /\ (failed = "load" \/ (AllLock => busy /\ Acting = {}))
  BY DEF StaleReact
<1>3. ASSUME Stale, failed' = failed, busy => busy', Acting' \subseteq Acting PROVE Goal
  BY <1>2, <1>3
<1>4. ASSUME NEW key \in Keys, Effect(key), page' = page PROVE Goal
  <2>1. Acting' = {} /\ ~page.clears
    BY <1>0, <1>1, <1>4, EffectLoads DEF Effect, SendLoad, Loads
  <2> QED
    BY <1>0, <1>4, <2>1 DEF Effect, SendLoad
<1>5. CASE Open
  BY <1>1, <1>5 DEF Open, SendLoad
<1>6. CASE Sync
  BY <1>0, <1>4, <1>6 DEF Sync, TypeOK
<1>7. CASE Refresh
  <2>1. Stale /\ failed' = failed /\ (busy => busy') /\ Acting' = Acting
    BY <1>1, <1>7, RefreshLoads DEF Refresh, Stale, Loads
  <2> QED
    BY <1>3, <2>1
<1>8. ASSUME NEW key \in Routers, Switch(key) PROVE Goal
  <2>1. CASE page.lags
    BY <1>1, <1>3, <1>8, <2>1, SameCalls DEF Switch, Stale
  <2>2. CASE ~page.lags
    BY <1>0, <1>4, <1>8, <2>2 DEF Switch, Keys
  <2> QED
    BY <2>1, <2>2
<1>9. CASE Leave \/ SwitchAnswered
  BY <1>1, <1>3, <1>9, SameCalls DEF Leave, SwitchAnswered, Stale
<1>10. CASE DashboardAnswered
  BY <1>10 DEF DashboardAnswered, PageFlags
<1>11. ASSUME NEW key \in Routers, SwitchRouter(key) PROVE Goal
  BY <1>11 DEF SwitchRouter
<1>12. CASE ReloadPanel
  BY <1>1, <1>12 DEF ReloadPanel
<1>13. ASSUME NEW a \in page.acts, Press(a) PROVE Goal
  <2>1. Stale /\ (AllLock => ~busy) /\ failed' = failed
    BY <1>0, <1>1, <1>13 DEF Press, Unlocks, Stale
  <2> QED
    BY <1>2, <2>1
<1>14. ASSUME NEW i \in Slots, Serve(i) PROVE Goal
  <2>1. Stale /\ failed' = failed /\ busy' = busy /\ Acting' = Acting
    BY <1>1, <1>14, ServeServes DEF Serve, Stale, IsServed
  <2> QED
    BY <1>3, <2>1
<1>15. ASSUME NEW i \in Slots, ListAnswered(i) PROVE Goal
  <2>1. page.lists /\ Stale
    BY <1>1, <1>15, ListAnswers DEF ListAnswered, CallsOfThePage, Stale
  <2> QED
    BY <1>0, <1>2, <2>1
<1>16. ASSUME NEW i \in Slots, LoadAnswered(i) PROVE Goal
  <2>1. i \in InFlight /\ Acting' \subseteq Acting /\ session' = session /\ raced' = raced
    BY <1>16, LoadAnswers DEF Gone, LoadAnswered
  <2>2. calls[i].to = session
    BY <1>1, <2>1 DEF SentToSession
  <2>3. rows' = rows
    BY <1>1, <1>16, <2>1, <2>2 DEF LoadAnswered
  <2>4. Stale
    BY <1>1, <2>1, <2>3 DEF Stale
  <2>5. failed' = "load" \/ (failed' = failed /\ busy' = busy)
    BY <1>1, <1>16, <2>1, <2>2 DEF LoadAnswered
  <2> QED
    BY <1>2, <2>1, <2>4, <2>5
<1>17. ASSUME NEW i \in Slots, ActAnswered(i) PROVE Goal
  <2>1. i \in Acting /\ ActSteps(i) /\ session' = session
    BY <1>17, ActAnswers DEF ActAnswered
  <2>2. rows' = rows /\ ~raced
    BY <1>1, <2>1, ActScreen
  <2>3. Stale
    BY <1>1, <2>1, <2>2 DEF Stale
  <2>4. failed = "load" => failed' = "load"
    BY <1>17 DEF ActAnswered
  <2> QED
    BY <1>2, <2>1, <2>3, <2>4
<1>18. CASE UNCHANGED vars
  BY <1>1, <1>3, <1>18, SameCalls DEF vars, Stale
<1> QED
  BY <1>5, <1>6, <1>7, <1>8, <1>9, <1>10, <1>11, <1>12, <1>13, <1>14, <1>15, <1>16, <1>17,
     <1>18 DEF Next, Progress

-----------------------------------------------------------------------------
LEMMA OnTheWayInit == Init => OnTheWay
  BY DEF Init, OnTheWay, Stale

LEMMA OnTheWayStep == TypeOK /\ SentToSession /\ OnTheWay /\ [Next]_vars => OnTheWay'
<1> SUFFICES ASSUME TypeOK, SentToSession, OnTheWay, [Next]_vars, Stale', ~page.guards, ~away',
                    posting' = "none", failed' # "load"
             PROVE  \E i \in InFlight' : calls'[i].kind # "act"
  BY PageStays DEF OnTheWay
<1> DEFINE Goal == \E i \in InFlight' : calls'[i].kind # "act"
<1>1. ~raced' /\ rows' # None /\ rows'.of # session' /\ Acting \subseteq InFlight
  BY DEF Stale, Acting
<1>2. Stale /\ ~away /\ posting = "none" /\ failed # "load"
        => \E i \in InFlight : calls[i].kind # "act"
  BY DEF OnTheWay
<1>3. ASSUME NEW key, Loads(key) PROVE Goal
  BY <1>3 DEF Loads, IsLoad
<1>4. ASSUME Stale, ~away, posting = "none", failed # "load", calls' = calls PROVE Goal
  BY <1>2, <1>4, SameCalls
<1>5. CASE Open
  BY <1>3, <1>5, OpenLoads
<1>6. CASE Sync
  BY <1>3, <1>6, EffectLoads DEF Sync, TypeOK
<1>7. CASE Refresh
  BY <1>3, <1>7, RefreshLoads
<1>8. ASSUME NEW key \in Routers, Switch(key) PROVE Goal
  <2>1. CASE page.lags
    BY <1>1, <1>4, <1>8, <2>1 DEF Switch, Stale
  <2>2. CASE ~page.lags
    BY <1>3, <1>8, <2>2, EffectLoads DEF Switch, Keys
  <2> QED
    BY <2>1, <2>2
<1>9. CASE Leave \/ SwitchAnswered \/ ReloadPanel
  BY <1>9 DEF Leave, SwitchAnswered, ReloadPanel
<1>10. CASE DashboardAnswered
  BY <1>1, <1>4, <1>10 DEF DashboardAnswered, Stale
<1>11. ASSUME NEW key \in Routers, SwitchRouter(key) PROVE Goal
  BY <1>11 DEF SwitchRouter
<1>12. ASSUME NEW a \in page.acts, Press(a) PROVE Goal
  <2>1. \E i \in InFlight : calls[i].kind # "act"
    BY <1>1, <1>2, <1>12 DEF Press, Stale
  <2> QED
    BY <1>12, <2>1, PressPresses DEF Presses, Kept
<1>13. ASSUME NEW i \in Slots, Serve(i) PROVE Goal
  <2>1. \E j \in InFlight : calls[j].kind # "act"
    BY <1>1, <1>2, <1>13 DEF Serve, Stale
  <2> QED
    BY <1>13, <2>1, ServeServes DEF IsServed, Kept
<1>14. ASSUME NEW i \in Slots, ListAnswered(i) PROVE Goal
  <2>1. i \in InFlight /\ Asks(i, session)
    BY <1>1, <1>14, ListAnswers
  <2> QED
    BY <2>1 DEF Asks, IsLoad
<1>15. ASSUME NEW i \in Slots, LoadAnswered(i) PROVE FALSE
  <2>1. i \in InFlight /\ session' = session /\ raced' = raced /\ calls[i].to = session
    BY <1>1, <1>15, LoadAnswers DEF LoadAnswered, SentToSession
  <2>2. ~Ignored(i)
    BY DEF Ignored
  <2> QED
    BY <1>1, <1>15, <2>1, <2>2 DEF LoadAnswered
<1>16. ASSUME NEW i \in Slots, ActAnswered(i) PROVE Goal
  <2>1. i \in Acting /\ i \in InFlight /\ ActSteps(i) /\ UNCHANGED <<session, away, posting>>
    BY <1>16, ActAnswers DEF ActAnswered
  <2>2. rows' = rows /\ ~raced
    BY <1>1, <2>1, ActScreen
  <2>3. failed # "load"
    BY <1>16 DEF ActAnswered
  <2>4. PICK j \in InFlight : calls[j].kind # "act"
    BY <1>1, <1>2, <2>1, <2>2, <2>3 DEF Stale
  <2>5. j # i
    BY <2>1, <2>4 DEF Acting
  <2>6. j \in InFlight' /\ calls'[j] = calls[j]
    BY <2>1, <2>5 DEF ActSteps, Repeats, Gone, Asks, Kept
  <2> QED
    BY <2>4, <2>6
<1>17. CASE UNCHANGED vars
  BY <1>1, <1>4, <1>17 DEF vars, Stale
<1> QED
  BY <1>5, <1>6, <1>7, <1>8, <1>9, <1>10, <1>11, <1>12, <1>13, <1>14, <1>15, <1>16,
     <1>17 DEF Next, Progress

(* A page all of whose calls lock it has one call in flight. *)
LEMMA OneCallInit == Init => OneCall
  BY DEF Init, OneCall, InFlight

LEMMA OneCallStep ==
  TypeOK /\ CallsOfThePage /\ OneCall /\ [Next]_vars => OneCall'
<1> SUFFICES ASSUME TypeOK, CallsOfThePage, OneCall, [Next]_vars, Locked, ~raced'
             PROVE  (\A i, j \in InFlight' : i = j) /\ (InFlight' # {} => busy')
  BY PageStays DEF OneCall, Locked
<1> DEFINE Goal == (\A i, j \in InFlight' : i = j) /\ (InFlight' # {} => busy')
<1>0. /\ Acting \subseteq InFlight
      /\ page.waits /\ ~page.lists /\ ~page.polls /\ \A a \in page.acts : a.reloads /\ a.locks
  BY PageIs DEF PageFacts, Locked, Acting
<1>1. ~raced => (\A i, j \in InFlight : i = j) /\ (InFlight # {} => busy)
  BY DEF OneCall
<1>2. ASSUME NEW key, Loads(key), InFlight = {}, busy' PROVE Goal
  BY <1>2 DEF Loads
<1>3. ASSUME calls' = calls, InFlight = {} \/ (~raced /\ busy' = busy) PROVE Goal
  BY <1>1, <1>3, SameCalls
<1>4. CASE Open
  <2>1. InFlight = {} /\ busy'
    BY <1>0, <1>1, <1>4 DEF Open, SendLoad
  <2> QED
    BY <1>2, <1>4, <2>1, OpenLoads
<1>5. ASSUME NEW key \in Keys, Effect(key) PROVE Goal
  BY <1>0, <1>2, <1>5, EffectLoads DEF Effect, SendLoad
<1>6. CASE Sync
  BY <1>5, <1>6 DEF Sync, TypeOK
<1>7. CASE Refresh
  <2>1. InFlight = {} /\ busy'
    BY <1>0, <1>1, <1>7 DEF Refresh
  <2> QED
    BY <1>2, <1>7, <2>1, RefreshLoads
<1>8. ASSUME NEW key \in Routers, Switch(key) PROVE Goal
  <2>1. CASE page.lags
    BY <1>3, <1>8, <2>1 DEF Switch
  <2>2. CASE ~page.lags
    BY <1>5, <1>8, <2>2 DEF Switch, Keys
  <2> QED
    BY <2>1, <2>2
<1>9. CASE Leave \/ SwitchAnswered \/ DashboardAnswered
  BY <1>3, <1>9 DEF Leave, SwitchAnswered, DashboardAnswered
<1>10. ASSUME NEW key \in Routers, SwitchRouter(key) PROVE Goal
  BY <1>3, <1>10 DEF SwitchRouter
<1>11. CASE ReloadPanel
  BY <1>11, ReloadCalls
<1>12. ASSUME NEW a \in page.acts, Press(a) PROVE Goal
  <2>1. InFlight = {} /\ busy'
    BY <1>0, <1>1, <1>12 DEF Press, Unlocks
  <2> QED
    BY <1>12, <2>1, PressPresses DEF Presses
<1>13. ASSUME NEW i \in Slots, Serve(i) PROVE Goal
  <2>1. InFlight' = InFlight /\ busy' = busy /\ ~raced
    BY <1>13, ServeServes DEF Serve, IsServed
  <2> QED
    BY <1>1, <2>1
<1>14. ASSUME NEW i \in Slots, ListAnswered(i) PROVE FALSE
  BY <1>0, <1>14, ListAnswers DEF CallsOfThePage
<1>15. ASSUME NEW i \in InFlight, Gone(i), ~raced PROVE Goal
  BY <1>1, <1>15 DEF Gone
<1>16. ASSUME NEW i \in Slots, LoadAnswered(i) PROVE Goal
  BY <1>15, <1>16, LoadAnswers DEF LoadAnswered
<1>17. ASSUME NEW i \in Slots, ActAnswered(i) PROVE Goal
  <2>1. i \in InFlight /\ ActSteps(i) /\ ~raced
    BY <1>17, ActAnswers, ActScreen
  <2>2. CASE Gone(i)
    BY <1>15, <2>1, <2>2
  <2>3. CASE ~Gone(i)
    <3>1. InFlight' = InFlight
      BY <2>1, <2>3 DEF ActSteps, Repeats, Asks
    <3>2. \/ UNCHANGED <<rows, latest, busy, raced>>
          \/ /\ busy' = IF calls[i].act.early THEN FALSE
                       ELSE page.waits \/ (busy /\ ~calls[i].act.locks)
             /\ raced' = (raced \/ calls[i].act.early)
      BY <2>1, <2>3 DEF ActSteps
    <3>3. busy' = busy \/ busy'
      BY <1>0, <3>2
    <3> QED
      BY <1>1, <2>1, <3>1, <3>3
  <2> QED
    BY <2>2, <2>3
<1>18. CASE UNCHANGED vars
  BY <1>3, <1>18 DEF vars
<1> QED
  BY <1>4, <1>6, <1>7, <1>8, <1>9, <1>10, <1>11, <1>12, <1>13, <1>14, <1>16, <1>17,
     <1>18 DEF Next, Progress

LEMMA StaleOldInit == Init => StaleOld
  BY DEF Init, StaleOld, Stale

LEMMA SameLocking ==
  ASSUME Acting' \subseteq Acting, \A i \in Acting' : calls'[i].act = calls[i].act
  PROVE  LockingActs' \subseteq LockingActs
  BY DEF LockingActs

(* Without the overlay no such act is in flight: where all acts lock the     *)
(* page, nothing is.                                                         *)
LEMMA NothingLocks ==
  ASSUME TypeOK, CallsOfThePage, OneCall, Covers(page), ~raced, ~busy
  PROVE  LockingActs = {}
<1>1. LockingActs \subseteq Acting /\ Acting \subseteq InFlight
  BY DEF LockingActs, Acting
<1>2. page.waits /\ \A i \in Acting : calls[i].act \in page.acts
  BY DEF Covers, CallsOfThePage
<1>3. CASE \A a \in page.acts : ~a.locks
  BY <1>2, <1>3 DEF LockingActs
<1>4. CASE page.acts = {}
  BY <1>1, <1>2, <1>4
<1>5. CASE page.acts # {} /\ \A a \in page.acts : a.locks /\ a.reloads
  BY <1>1, <1>2, <1>5 DEF OneCall, Locked
<1> QED
  BY <1>3, <1>4, <1>5, PageIs DEF PageFacts, OldFacts, Covers

LEMMA StaleOldStep ==
  TypeOK /\ CallsOfThePage /\ PageFlags /\ SentToSession /\ OneCall /\ OnTheWay /\ StaleOld
    /\ [Next]_vars => StaleOld'
<1> DEFINE Goal == busy' /\ LockingActs' = {}
<1> SUFFICES ASSUME TypeOK, CallsOfThePage, PageFlags, SentToSession, OneCall, OnTheWay, StaleOld,
                    [Next]_vars, ~React, page.keyed = "router", page.waits, Stale',
                    ~away', posting' = "none", failed' # "load"
             PROVE  Goal
  BY PageStays DEF StaleOld, React
<1>0. /\ page' = page /\ Acting \subseteq InFlight /\ LockingActs \subseteq Acting
      /\ ~page.lists /\ ~page.polls /\ ~page.lags /\ ~page.guards /\ Covers(page)
  BY PageStays, PageIs DEF LockingActs, Acting, PageFacts, OldFacts, Covers, React, PageRecord
<1>1. ~raced' /\ rows' # None /\ rows'.of # session'
  BY DEF Stale
<1>2. Stale /\ ~away /\ posting = "none" /\ failed # "load" => busy /\ LockingActs = {}
  BY DEF StaleOld
<1>3. ASSUME Stale, ~away, posting = "none", failed # "load",
             LockingActs' \subseteq LockingActs, busy' = busy
      PROVE  Goal
  BY <1>2, <1>3
<1>4. ASSUME NEW key, Loads(key), LockingActs = {} PROVE LockingActs' = {}
  <2>1. LockingActs' \subseteq LockingActs
    BY <1>0, <1>4, SameLocking DEF Loads, Kept
  <2> QED
    BY <1>4, <2>1
<1>5. ASSUME calls' = calls PROVE LockingActs' = LockingActs
  BY <1>5, SameCalls DEF LockingActs
<1>6. CASE Open
  <2>1. InFlight = {} \/ ~raced
    BY <1>1, <1>6 DEF Open
  <2>2. LockingActs = {}
    BY <1>0, <1>6, <2>1, NothingLocks DEF Open
  <2>3. busy'
    BY <1>0, <1>6 DEF Open, SendLoad
  <2> QED
    BY <1>4, <1>6, <2>2, <2>3, OpenLoads
<1>7. CASE Sync
  BY <1>0, <1>7 DEF Sync
<1>8. CASE Refresh
  <2>1. LockingActs = {} /\ busy'
    BY <1>0, <1>1, <1>8, NothingLocks DEF Refresh
  <2> QED
    BY <1>4, <1>8, <2>1, RefreshLoads
<1>9. ASSUME NEW key \in Routers, Switch(key) PROVE Goal
  BY <1>9 DEF Switch
<1>10. CASE Leave \/ SwitchAnswered
  BY <1>10 DEF Leave, SwitchAnswered
<1>11. CASE DashboardAnswered
  <2>1. /\ Stale /\ InFlight = {}
        /\ away' = away /\ posting' = posting /\ failed' = failed
    BY <1>1, <1>11 DEF DashboardAnswered, Stale
  <2> QED
    BY <1>0, <2>1 DEF OnTheWay
<1>12. ASSUME NEW key \in Routers, SwitchRouter(key) PROVE Goal
  BY <1>12 DEF SwitchRouter
<1>13. CASE ReloadPanel
  BY <1>1, <1>13 DEF ReloadPanel
<1>14. ASSUME NEW a \in page.acts, Press(a) PROVE FALSE
  <2>1. Stale /\ ~busy /\ ~away /\ posting' = posting /\ failed' = failed
    BY <1>1, <1>14 DEF Press, Covered, Stale
  <2> QED
    BY <1>2, <2>1
<1>15. ASSUME NEW i \in Slots, Serve(i) PROVE Goal
  <2>1. /\ Stale /\ busy' = busy /\ away' = away /\ posting' = posting /\ failed' = failed
        /\ i \in InFlight /\ IsServed(i)
    BY <1>1, <1>15, ServeServes DEF Serve, Stale
  <2>2. LockingActs' \subseteq LockingActs
    BY <1>0, <2>1, SameLocking DEF IsServed, Kept, SameAct, Acting
  <2> QED
    BY <1>3, <2>1, <2>2
<1>16. ASSUME NEW i \in Slots, ListAnswered(i) PROVE FALSE
  BY <1>0, <1>16, ListAnswers DEF CallsOfThePage
<1>17. ASSUME NEW i \in Slots, LoadAnswered(i) PROVE FALSE
  <2>1. i \in InFlight /\ session' = session /\ raced' = raced /\ calls[i].to = session
    BY <1>1, <1>17, LoadAnswers DEF LoadAnswered, SentToSession
  <2>2. ~Ignored(i)
    BY <1>0 DEF Ignored
  <2> QED
    BY <1>0, <1>1, <1>17, <2>1, <2>2 DEF LoadAnswered
<1>18. ASSUME NEW i \in Slots, ActAnswered(i) PROVE Goal
  <2>1. /\ i \in Acting /\ i \in InFlight /\ ActSteps(i)
        /\ session' = session /\ away' = away /\ posting' = posting
        /\ failed = "load" => failed' = "load"
    BY <1>18, ActAnswers DEF ActAnswered
  <2>2. busy /\ LockingActs = {}
    BY <1>1, <1>2, <2>1, ActScreen DEF Stale
  <2>3. LockingActs' = {}
    <3>1. \A j \in Acting \ {i} : calls'[j] = calls[j]
      BY <1>0, <2>1 DEF ActSteps, Repeats, Gone, Asks, Kept
    <3>2. CASE Repeats(i)
      BY <1>0, <2>2, <3>1, <3>2, SameLocking DEF Repeats, SameAct
    <3>3. CASE Acting' = Acting \ {i}
      BY <2>2, <3>1, <3>3, SameLocking
    <3> QED
      BY <2>1, <3>2, <3>3 DEF ActSteps, Gone, Asks
  <2>4. ~calls[i].act.locks
    BY <2>1, <2>2 DEF LockingActs
  <2>5. busy'
    BY <1>1, <2>1, <2>2, <2>4 DEF ActSteps
  <2> QED
    BY <2>3, <2>5
<1>19. CASE UNCHANGED vars
  BY <1>1, <1>3, <1>5, <1>19 DEF vars, Stale
<1> QED
  BY <1>6, <1>7, <1>8, <1>9, <1>10, <1>11, <1>12, <1>13, <1>14, <1>15, <1>16, <1>17, <1>18,
     <1>19 DEF Next, Progress

LEMMA FreshInit == Init => Fresh
  BY DEF Init, Fresh, InFlight

LEMMA FreshStep == TypeOK /\ CallsOfThePage /\ OneCall /\ Fresh /\ [Next]_vars => Fresh'
<1> DEFINE Shown == failed = "no" /\ InFlight = {} /\ rows # None
                      => rows.ver = data[StoreOf(rows.of)]
           Carried == \A i \in InFlight : calls[i].kind # "act" /\ calls[i].at = "ok"
                        => calls[i].ver = data[StoreOf(calls[i].to)]
           Goal == /\ failed' = "no" /\ InFlight' = {} /\ rows' # None
                        => rows'.ver = data'[StoreOf(rows'.of)]
                   /\ \A i \in InFlight' : calls'[i].kind # "act" /\ calls'[i].at = "ok"
                        => calls'[i].ver = data'[StoreOf(calls'[i].to)]
<1> SUFFICES ASSUME TypeOK, CallsOfThePage, OneCall, Fresh, [Next]_vars, Locked, ~raced'
             PROVE  Goal
  BY PageStays DEF Fresh, Locked, StoreOf
<1>0. /\ Acting \subseteq InFlight
      /\ page.waits /\ ~page.lists /\ ~page.polls /\ \A a \in page.acts : a.reloads /\ a.locks
  BY PageIs DEF PageFacts, Locked, Acting
<1>1. ~raced => (\A i, j \in InFlight : i = j) /\ (InFlight # {} => busy)
  BY DEF OneCall
<1>2. ~raced => Shown /\ Carried
  BY DEF Fresh
<1>3. ASSUME NEW key, Loads(key), InFlight = {} PROVE Goal
  BY <1>3 DEF Loads, IsLoad
<1>4. ASSUME ~raced, UNCHANGED <<calls, rows, data, failed>> PROVE Goal
  BY <1>2, <1>4, SameCalls
<1>5. CASE Open
  <2>1. InFlight = {}
    BY <1>1, <1>5 DEF Open
  <2> QED
    BY <1>3, <1>5, <2>1, OpenLoads
<1>6. ASSUME NEW key \in Keys, Effect(key) PROVE Goal
  BY <1>3, <1>6, EffectLoads DEF Effect
<1>7. CASE Sync
  BY <1>6, <1>7 DEF Sync, TypeOK
<1>8. CASE Refresh
  <2>1. InFlight = {}
    BY <1>0, <1>1, <1>8 DEF Refresh
  <2> QED
    BY <1>3, <1>8, <2>1, RefreshLoads
<1>9. ASSUME NEW key \in Routers, Switch(key) PROVE Goal
  <2>1. CASE page.lags
    BY <1>4, <1>9, <2>1 DEF Switch
  <2>2. CASE ~page.lags
    BY <1>6, <1>9, <2>2 DEF Switch, Keys
  <2> QED
    BY <2>1, <2>2
<1>10. CASE Leave \/ SwitchAnswered \/ DashboardAnswered
  BY <1>4, <1>10 DEF Leave, SwitchAnswered, DashboardAnswered
<1>11. ASSUME NEW key \in Routers, SwitchRouter(key) PROVE Goal
  BY <1>4, <1>11 DEF SwitchRouter
<1>12. CASE ReloadPanel
  BY <1>12, ReloadCalls DEF ReloadPanel
<1>13. ASSUME NEW a \in page.acts, Press(a) PROVE Goal
  <2>1. InFlight = {}
    BY <1>0, <1>1, <1>13 DEF Press, Unlocks
  <2> QED
    BY <1>13, <2>1, PressPresses DEF Presses
<1>14. ASSUME NEW i \in Slots, Serve(i) PROVE Goal
  <2>1. ~raced /\ i \in InFlight /\ IsServed(i) /\ calls[i].at = "sent"
    BY <1>14, ServeServes DEF Serve
  <2>2. InFlight' = {i}
    BY <1>1, <2>1 DEF IsServed
  <2>3. calls'[i].kind # "act" => data' = data
    BY <1>14, <2>1, ServeServes DEF IsServed
  <2> QED
    BY <2>1, <2>2, <2>3 DEF IsServed
<1>15. ASSUME NEW i \in Slots, ListAnswered(i) PROVE FALSE
  BY <1>0, <1>15, ListAnswers DEF CallsOfThePage
<1>16. ASSUME NEW i \in Slots, LoadAnswered(i) PROVE Goal
  <2>1. ~raced /\ i \in InFlight /\ Gone(i) /\ calls[i].kind = "load" /\ data' = data
    BY <1>16, LoadAnswers DEF LoadAnswered
  <2>2. InFlight' = {}
    BY <1>1, <2>1 DEF Gone
  <2>3. ~Ignored(i)
    BY <1>0, PageIs DEF Ignored, PageFacts, Locked
  <2>4. CASE calls[i].at = "ok" /\ rows' = [of |-> calls[i].to, ver |-> calls[i].ver]
    BY <1>2, <2>1, <2>2, <2>4
  <2>5. CASE failed' = "load"
    BY <2>2, <2>5
  <2> QED
    BY <1>16, <2>3, <2>4, <2>5 DEF LoadAnswered
<1>17. ASSUME NEW i \in Slots, ActAnswered(i) PROVE Goal
  <2>1. i \in Acting /\ i \in InFlight /\ ActSteps(i) /\ ~raced
    BY <1>17, ActAnswers, ActScreen
  <2>2. calls[i].at \in {"ok", "failed"} /\ calls[i].act.reloads
    BY <1>0, <1>17, <2>1, InFlightCalls, CallKinds DEF ActAnswered, CallsOfThePage, Served
  <2>3. calls[i].at = "failed" => failed' # "no"
    BY <1>17 DEF ActAnswered
  <2>4. CASE Repeats(i)
    BY <1>1, <2>1, <2>4 DEF Repeats
  <2>5. CASE Asks(i, NextRouter(i))
    BY <1>1, <2>1, <2>5 DEF Asks, IsLoad
  <2>6. CASE Gone(i) /\ calls[i].at = "failed"
    BY <1>1, <2>1, <2>3, <2>6 DEF Gone
  <2> QED
    BY <2>1, <2>2, <2>4, <2>5, <2>6 DEF ActSteps
<1>18. CASE UNCHANGED vars
  BY <1>4, <1>18 DEF vars
<1> QED
  BY <1>5, <1>7, <1>8, <1>9, <1>10, <1>11, <1>12, <1>13, <1>14, <1>15, <1>16, <1>17,
     <1>18 DEF Next, Progress

-----------------------------------------------------------------------------
(* The theorems *)

LEMMA InductiveInit == Init => Inductive
  BY TypingInit, CountInit, CallsOfThePageInit, PageFlagsInit, SentToSessionInit, SeenRowsInit,
     StaleReactInit, StaleOldInit, OnTheWayInit, GuardedRowsInit, OneCallInit,
     FreshInit, UntouchedInit DEF Inductive

LEMMA InductiveStep == Inductive /\ [Next]_vars => Inductive'
  BY TypingStep, CountStep, CallsOfThePageStep, PageFlagsStep, SentToSessionStep, SeenRowsStep,
     StaleReactStep, StaleOldStep, OnTheWayStep, GuardedRowsStep, OneCallStep,
     FreshStep, UntouchedStep DEF Inductive

(* The parts together are inductive. *)
LEMMA InductiveHolds == Spec => []Inductive
  BY InductiveInit, InductiveStep, PTL DEF Spec

(* The page, its flags, its rows, its calls and the stores keep their types. *)
THEOREM PanelsTyping == Spec => []TypeOK
<1>1. Inductive => TypeOK
  BY DEF Inductive
<1> QED
  BY <1>1, InductiveHolds, PTL

(* Except where the code leaves it unprotected (see Protected: the React      *)
(* billing page during a load is such a case), what the operator presses is  *)
(* done on the router whose rows were on the screen, to the last call of a   *)
(* loop: on every page, in both panels, however calls and switches overlap.  *)
THEOREM ActsHitRows == Spec => []ActsHitTheRowsSeen
<1>1. Inductive => ActsHitTheRowsSeen
  BY DEF Inductive, SeenRows, ActsHitTheRowsSeen
<1> QED
  BY <1>1, InductiveHolds, PTL

(* Rows of another router would have their load in flight, or failed. *)
LEMMA RestingRows == Inductive => RowsAreOfTheRouter
<1> SUFFICES ASSUME Inductive, Settled, rows # None, failed # "load", raced => page.guards,
                    rows.of # session
             PROVE  FALSE
  BY DEF RowsAreOfTheRouter
<1>1. ~page.guards
  BY DEF Inductive, GuardedRows
<1>2. Stale
  BY <1>1 DEF Stale
<1>3. \E i \in InFlight : calls[i].kind # "act"
  BY <1>1, <1>2 DEF Inductive, OnTheWay, Settled
<1> QED
  BY <1>3 DEF Settled

(* With one call at a time, the last reload has been served after each act. *)
LEMMA RestingActs == Inductive => RowsFollowActs
<1> SUFFICES ASSUME Inductive, Settled, rows # None, failed = "no", ~raced, page.waits,
                    \A a \in page.acts : a.reloads /\ a.locks
             PROVE  rows.ver = data[StoreOf(rows.of)]
  BY DEF RowsFollowActs
<1>1. InFlight = {}
  BY DEF Settled
<1>2. CASE page.acts = {}
  <2>1. rows.of \in Keys
    BY DEF Inductive, TypeOK, Listing
  <2>2. StoreOf(rows.of) \in Routers \union {Store}
    BY <2>1, StoreExists
  <2> QED
    BY <1>2, <2>2 DEF Inductive, Untouched
<1>3. CASE page.acts # {}
  BY <1>1, <1>3 DEF Inductive, Fresh, Locked
<1> QED
  BY <1>2, <1>3

(* A page at rest shows the router that is selected, and, if its loads and   *)
(* acts lock it and the acts all reload it, everything done from it.  (The   *)
(* import of the React billing page locks nothing: that page is not meant.)  *)
THEOREM RestingPage == Spec => []RestingPageIsTrue
<1>1. Inductive => RestingPageIsTrue
  BY RestingRows, RestingActs DEF RestingPageIsTrue
<1> QED
  BY <1>1, InductiveHolds, PTL
===============================================================================
