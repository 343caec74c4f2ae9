---------------------------- MODULE PanelPages ----------------------------
(***************************************************************************)
(* What tells one page of a panel from another, as data for the machine of *)
(* Panels.                                                                 *)
(*                                                                         *)
(* The repository has two panels over one API: the React frontend, whose   *)
(* pages keep their own rows, busy flag and notice, and the older panel of *)
(* main-node-service, whose pages share the global CS (the selected        *)
(* router), one table per page and one loading overlay.                    *)
(*                                                                         *)
(* A page is a record:                                                     *)
(*   panel    which of the two it belongs to                               *)
(*   keyed    what its listing is asked for: the selected router, a filter *)
(*            of its own, or nothing                                       *)
(*   clears   the old rows are removed when another key is chosen          *)
(*   drops    a load that failed leaves an empty table                     *)
(*   keeps    unless the answer was an error and no list: the handler      *)
(*            stops there, with the old rows on screen                     *)
(*   waits    a load sets the busy flag (React) or the overlay (old)       *)
(*   guards   an answer that a later load has overtaken is ignored         *)
(*   polls    a timer loads the page again                                 *)
(*   lists    a first request finds out what the load has to ask for       *)
(*   lags     the page learns of a router switch from the page's select,   *)
(*            by a timer of its own                                        *)
(*   brittle  an answer that is no list leaves the overlay on              *)
(*   acts     what its buttons and forms do to the listed data             *)
(***************************************************************************)
EXTENDS Functions

(* One act of a page.  modal: it is sent from a dialog that covers the     *)
(* panel until it is answered; locks: the act sets busy, and its button is *)
(* disabled (or covered) while busy; caught: a failed call still clears    *)
(* busy; reloads / always: the listing is loaded again after success / at  *)
(* all events; early: busy is cleared while that load still runs; many: it *)
(* is a loop of calls, one per row of a file.                              *)
Act == [modal |-> FALSE, locks |-> TRUE, caught |-> TRUE, reloads |-> TRUE,
        always |-> FALSE, early |-> FALSE, many |-> FALSE]

OnRow    == Act
InDialog == [Act EXCEPT !.modal = TRUE]
Unlocked == [Act EXCEPT !.locks = FALSE]

(* The billing page's file input is the one control of a router's React    *)
(* page that busy does not disable.                                        *)
Loop == [Unlocked EXCEPT !.many = TRUE]

(* Calls of the old panel: post() and del() return null when they fail,    *)
(* a bare fetch rejects and the rest of the handler never runs.            *)
Reloading == [Act EXCEPT !.always = TRUE]
Fetched   == [Act EXCEPT !.caught = FALSE]
FetchedInDialog == [Fetched EXCEPT !.modal = TRUE]
LoopInDialog == [Loop EXCEPT !.modal = TRUE, !.always = TRUE]
Quiet     == [Unlocked EXCEPT !.caught = FALSE]

Acts(named) == Range(named)

ReactPage ==
  [panel |-> "react", keyed |-> "router", clears |-> TRUE, drops |-> FALSE,
   keeps |-> FALSE, waits |-> TRUE, guards |-> FALSE, polls |-> FALSE,
   lists |-> FALSE, lags |-> FALSE, brittle |-> FALSE, acts |-> {}]

OldPage == [ReactPage EXCEPT !.panel = "old", !.clears = FALSE, !.drops = TRUE]

Global(p) == [p EXCEPT !.keyed = "nothing"]
Filtered(p) == [p EXCEPT !.keyed = "filter", !.clears = FALSE]
Keeping(p) == [p EXCEPT !.clears = FALSE]
With(p, named) == [p EXCEPT !.acts = Acts(named)]

---------------------------------------------------------------------------
(* React: pages of one router that only show it. *)
HotspotActive == ReactPage
DhcpLeases    == ReactPage
Interfaces    == ReactPage
HotspotLog    == ReactPage
SystemResource == Keeping(ReactPage)

InterfaceTraffic ==
  [ReactPage EXCEPT !.guards = TRUE, !.polls = TRUE, !.lists = TRUE]

TrafficCard ==
  [ReactPage EXCEPT !.polls = TRUE, !.lists = TRUE, !.lags = TRUE, !.waits = FALSE]

Dashboard ==
  [ReactPage EXCEPT !.polls = TRUE, !.lags = TRUE, !.drops = TRUE]

(* App keeps one result for the pages it renders itself, whatever page or  *)
(* router it was asked for.                                                *)
ParityTable == Keeping(ReactPage)

(* React: pages of one router with acts. *)
HotspotUsers ==
  With(Keeping(ReactPage), [add |-> InDialog, removeOne |-> OnRow, removeSelected |-> OnRow])

HotspotProfiles ==
  With(Keeping(ReactPage), [submit |-> InDialog, remove |-> OnRow])

PppoeActive == With(ReactPage, [disconnect |-> OnRow])

PppoeProfiles == With(ReactPage, [submit |-> InDialog, remove |-> OnRow])

PppoeSecrets ==
  With(ReactPage, [submit |-> InDialog, toggle |-> OnRow, remove |-> OnRow])

Scheduler == With(ReactPage, [save |-> InDialog])

VoucherBatches ==
  With(ReactPage, [sync |-> OnRow, remove |-> OnRow, markUsed |-> OnRow])

VoucherOperations ==
  With(ReactPage, [createBatch |-> InDialog, deleteBatch |-> OnRow, sync |-> OnRow])

ReportSelling == With(ReactPage, [clear |-> OnRow])

Billing ==
  With([Keeping(ReactPage) EXCEPT !.lags = TRUE],
       [saveCustomer |-> InDialog, action |-> OnRow, importJson |-> Loop])

(* React: pages that are not about a router. *)
Users == With(Global(ReactPage),
              [save |-> InDialog, toggle |-> OnRow, remove |-> OnRow,
               resetPassword |-> InDialog])

Resellers == With(Global(ReactPage),
                  [save |-> OnRow, remove |-> Unlocked, toggle |-> Unlocked,
                   topup |-> InDialog])

BotResellers == With(Global(ReactPage),
                     [save |-> InDialog, remove |-> OnRow, doTopup |-> InDialog])

RouterSessions == With(Global(ReactPage),
                       [save |-> InDialog, remove |-> OnRow, activate |-> OnRow])

VoucherTypes == With(Global(ReactPage),
                     [save |-> InDialog, remove |-> OnRow, toggle |-> OnRow])

Payments   == With(Filtered(ReactPage), [check |-> Unlocked])
PaymentOrders == With(Filtered(ReactPage), [check |-> OnRow])
PaymentManagement == With(Global(ReactPage), [runCheck |-> OnRow])
QrisMonitor == Global(ReactPage)
MobileApi   == [Global(ReactPage) EXCEPT !.waits = FALSE]

ReactPages ==
  {HotspotActive, DhcpLeases, Interfaces, HotspotLog, SystemResource,
   InterfaceTraffic, TrafficCard, Dashboard, ParityTable, HotspotUsers,
   HotspotProfiles, PppoeActive, PppoeProfiles, PppoeSecrets, Scheduler,
   VoucherBatches, VoucherOperations, ReportSelling, Billing, Users, Resellers,
   BotResellers, RouterSessions, VoucherTypes, Payments, PaymentOrders,
   PaymentManagement, QrisMonitor, MobileApi}

---------------------------------------------------------------------------
(* The old panel: pages of one router.  Tables are cleared by an empty     *)
(* answer only, so `clears` is FALSE unless the load itself begins with    *)
(* that (OldClearing).                                                     *)
OldWaiting == OldPage
OldSilent  == [OldPage EXCEPT !.waits = FALSE]
OldKeeping(p) == [p EXCEPT !.keeps = TRUE]
OldClearing(p) == [p EXCEPT !.clears = TRUE]

loadDashboard == [OldSilent EXCEPT !.drops = FALSE, !.polls = TRUE]
loadTraffic   == [OldSilent EXCEPT !.drops = FALSE, !.polls = TRUE, !.lists = TRUE]
loadHsActive  == OldWaiting
loadSelling   == OldWaiting
loadResume    == OldWaiting
loadLive      == OldWaiting

bulkDelHs == [Act EXCEPT !.early = TRUE]
loadHsUsers == With(OldWaiting, [removeHsUser |-> Reloading, bulkDelHs |-> bulkDelHs])

loadHsProfiles ==
  With([OldWaiting EXCEPT !.drops = FALSE],
       [saveHsProfile |-> FetchedInDialog, delHsProfile |-> Fetched])

loadPppActive == With(OldWaiting, [disconnectPpp |-> OnRow])

loadPppUsers ==
  With(OldWaiting, [savePppUser |-> FetchedInDialog, togglePppUser |-> Fetched,
                    delPppUser |-> Reloading])

loadPppProfiles ==
  With(OldWaiting, [savePppProfile |-> FetchedInDialog, delPppProfile |-> Reloading])

saveReseller == [Unlocked EXCEPT !.modal = TRUE]
delRs == [Unlocked EXCEPT !.always = TRUE]
loadResellers ==
  With(OldKeeping(OldWaiting), [saveReseller |-> saveReseller, delRs |-> delRs])

generateVouchers == [Act EXCEPT !.reloads = FALSE]
initBatch == With(OldSilent, [generate |-> generateVouchers])

markVoucherUsed == [Fetched EXCEPT !.reloads = FALSE]
confirmDeleteBatch == OnRow
syncUsedFromMikrotik == OnRow
loadBatchList ==
  With(OldClearing(OldSilent),
       [used |-> markVoucherUsed, delete |-> confirmDeleteBatch,
        sync |-> syncUsedFromMikrotik])

startImport == LoopInDialog
importFromMikrotik == With(OldClearing(OldSilent), [import |-> startImport])

saveBillCustomer == FetchedInDialog
deleteBillCustomer == [Fetched EXCEPT !.always = TRUE]
suspendCustomer == Unlocked
loadBilling ==
  With(OldKeeping(OldSilent),
       [save |-> saveBillCustomer, delete |-> deleteBillCustomer, reEnable |-> Fetched,
        suspend |-> suspendCustomer, runOverdue |-> Fetched])

generateInvoices == Fetched
confirmPay == FetchedInDialog
loadInvoices ==
  With(OldKeeping(OldSilent), [generate |-> generateInvoices, pay |-> confirmPay])

startBillingImport == LoopInDialog
openImportBillingModal == With(OldSilent, [import |-> startBillingImport])

(* The old panel: pages that are not about a router. *)
saveSession == [Unlocked EXCEPT !.modal = TRUE]
delSession == [Unlocked EXCEPT !.always = TRUE]
loadSessions ==
  With([Global(OldWaiting) EXCEPT !.brittle = TRUE],
       [saveSession |-> saveSession, delSession |-> delSession])

loadVoucherSettings ==
  With(Global(OldSilent), [saveVt |-> FetchedInDialog, deleteVt |-> Reloading,
                           toggleVt |-> Quiet])

saveUm == FetchedInDialog
deleteUm == Fetched
toggleUm == Quiet
loadUserManagement ==
  With(OldKeeping(Global(OldWaiting)), [save |-> saveUm, toggle |-> toggleUm, delete |-> deleteUm])

saveBrs == FetchedInDialog
toggleBrs == Quiet
deleteBrs == [Fetched EXCEPT !.always = TRUE]
doTopup == FetchedInDialog
loadBotResellers ==
  With(OldKeeping(Global(OldSilent)),
       [save |-> saveBrs, toggle |-> toggleBrs, delete |-> deleteBrs, topup |-> doTopup])

checkPaymentStatusNow == [Quiet EXCEPT !.modal = TRUE]
loadPayments == With(Filtered(OldSilent), [check |-> checkPaymentStatusNow])
savePaymentSettings == OnRow
loadPaymentSettings ==
  With([Global(OldSilent) EXCEPT !.drops = FALSE], [save |-> savePaymentSettings])
qmVerifyOrder == OnRow
qmLoadOrders == With(OldClearing(Filtered(OldSilent)), [verify |-> qmVerifyOrder])

OldPages ==
  {loadDashboard, loadTraffic, loadHsActive, loadSelling, loadResume, loadLive,
   loadHsUsers, loadHsProfiles, loadPppActive, loadPppUsers, loadPppProfiles,
   loadResellers, initBatch, loadBatchList, importFromMikrotik, loadBilling,
   loadInvoices, openImportBillingModal, loadSessions, loadVoucherSettings,
   loadUserManagement, loadBotResellers, loadPayments, loadPaymentSettings,
   qmLoadOrders}

Pages == ReactPages \union OldPages
=============================================================================
