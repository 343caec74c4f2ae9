------------------------------ MODULE Panels ------------------------------
(***************************************************************************)
(* One page of one of the two panels, the calls it has in flight, and the  *)
(* operator who works on it (src/frontend/src and the old panel's          *)
(* src/main-node-service/public/assets/app.js).  PanelPages says what the  *)
(* pages are; here is what happens to any of them:                         *)
(*                                                                         *)
(* - the operator opens and leaves the page, chooses another router (or    *)
(*   another filter), reloads, and presses what acts on the rows shown;    *)
(* - every call is served by the back end and answered later, calls        *)
(*   overtake each other, and each may fail;                               *)
(* - a React page clears and loads in an effect on the chosen router; its  *)
(*   handlers keep the router they were rendered with.  The old panel      *)
(*   stores the router in the global CS at once, waits for                 *)
(*   POST /session/router with the page still on screen, and only then     *)
(*   goes to the dashboard; its handlers read CS when they run.            *)
(*                                                                         *)
(* A listing is abstracted to the key it was asked for and the number of   *)
(* acts it includes (none on a page whose loads lock nothing, which is     *)
(* never promised to show them).  Opening and leaving are modelled between the calls   *)
(* of a React page, whose late answers an unmounted page would ignore.     *)
(***************************************************************************)
EXTENDS Integers, FiniteSets, PanelPages

CONSTANTS Routers,      \* the routers (or filter values) the operator chooses from
          None,         \* no rows, an empty slot
          Store,        \* the one store behind the pages that no router keys
          Slots,        \* calls the page can have in flight
          MaxActs,      \* acts the operator presses
          MaxSwitches   \* choices of another router or filter

ASSUME PanelsAssumption ==
  /\ IsFiniteSet(Routers) /\ Routers # {} /\ IsFiniteSet(Slots) /\ Slots # {}
  /\ None \notin Routers \union Slots /\ Store \notin Routers
  /\ MaxActs \in Nat /\ MaxSwitches \in Nat

VARIABLES page,      \* the page
          away,      \* another page is open
          router,    \* what the select shows: App's session, CS, or the filter
          session,   \* what the page works with (it lags behind in some)
          posting,   \* the old panel's POST /session/router: "none" | "sent" | "lost"
          dash,      \* the old panel's dashboard load is in flight
          rows,      \* the listing on screen
          busy,      \* the page's busy flag, the panel's overlay
          calls,     \* slot -> call in flight
          latest,    \* the slot of the last load sent
          ready,     \* a page that lists first knows what to load
          data,      \* store -> acts done on it, as far as they are counted
          pressed, switched,  \* counters of the bounds
          failed,    \* (history) the last load, or else the last act, failed
          raced,     \* (history) a switch or a foreign hideL overtook a call
          stuck      \* (history) a handler died before it cleared busy

vars == <<page, away, router, session, posting, dash, rows, busy, calls, latest,
          ready, data, pressed, switched, failed, raced, stuck>>

Keys == Routers
Versions == 0 .. 2 * MaxActs
Listing == [of : Keys, ver : Versions]
Served == {"sent", "ok", "failed"}
Call == [kind : {"list", "load"}, to : Keys, at : Served, ver : Versions]
        \union [kind : {"act"}, act : UNION {p.acts : p \in Pages}, to : Keys,
                at : Served, seen : Keys \union {None}, left : 0 .. 1]

\* Nothing is not a call, and not a listing.
ASSUME NoneAssumption == None \notin Call \union Listing

StoreOf(key) == IF page.keyed = "router" THEN key ELSE Store
React == page.panel = "react"
InFlight == {i \in Slots : calls[i] # None}
Acting == {i \in InFlight : calls[i].kind = "act"}
DialogOpen == \E i \in Acting : calls[i].act.modal
Free(i) == calls[i] = None
SomeFree == \E i \in Slots : Free(i)
FirstFree == CHOOSE i \in Slots : Free(i)

AnyOf(S) == CHOOSE x \in S : TRUE

\* `overlay' covers the whole old panel; a React page disables its own buttons.
Covered == DialogOpen \/ (~React /\ busy)

\* A load of `key' is sent from slot i of the calls f; the table is emptied where the page does so.
LoadCall(key) == [kind |-> IF page.lists THEN "list" ELSE "load", to |-> key,
                  at |-> "sent", ver |-> 0]

Last(i) == IF page.guards THEN i ELSE latest

SendLoad(f, i, key, cleared) ==
  /\ calls' = [f EXCEPT ![i] = LoadCall(key)]
  /\ latest' = Last(i)
  /\ busy' = IF page.waits /\ ~page.lists THEN TRUE ELSE busy
  /\ rows' = IF cleared THEN None ELSE rows

---------------------------------------------------------------------------
Init ==
  /\ page \in Pages
  /\ away = TRUE
  /\ router = AnyOf(Routers) /\ session = router
  /\ posting = "none"
  /\ dash = (page.panel = "old")
  /\ rows = None /\ busy = FALSE
  /\ calls = [i \in Slots |-> None]
  /\ latest = AnyOf(Slots) /\ ready = FALSE
  /\ data = [s \in Routers \union {Store} |-> 0]
  /\ pressed = 0 /\ switched = 0
  /\ failed = "no" /\ raced = FALSE /\ stuck = FALSE

(* The page is mounted (React), or shown again with its old rows (go and loadPage). *)
Open ==
  /\ away /\ ~busy /\ posting # "sent"
  /\ SomeFree /\ SendLoad(calls, FirstFree, router, React \/ page.clears)
  /\ away' = FALSE /\ session' = router /\ posting' = "none"
  /\ raced' = (raced /\ InFlight # {})
  /\ failed' = "no" /\ ready' = FALSE
  /\ UNCHANGED <<page, router, dash, data, pressed, switched, stuck>>

(* Another page is opened from the menu. *)
Leave ==
  /\ ~away /\ ~Covered
  /\ React => InFlight = {}
  /\ away' = TRUE
  /\ UNCHANGED <<page, router, session, posting, dash, rows, busy, calls, latest,
                 ready, data, pressed, switched, failed, raced, stuck>>

(* React: the select (or the page's own filter) changes, and the effect on *)
(* it empties the page and loads again; other pages than the open one show *)
(* the choice when they are mounted.  A filter of the old panel does this  *)
(* too.                                                                    *)
Effect(key) ==
  /\ SomeFree
  /\ session' = key
  /\ SendLoad(calls, FirstFree, key, page.clears)
  /\ ready' = FALSE
  /\ raced' = (raced \/ InFlight # {})

Switch(key) ==
  /\ ~away /\ ~Covered /\ switched < MaxSwitches /\ key # router
  /\ page.keyed = "filter" \/ (page.keyed = "router" /\ React)
  /\ router' = key
  /\ switched' = switched + 1
  /\ IF page.lags
     THEN UNCHANGED <<session, calls, latest, ready, busy, rows, raced>>
     ELSE Effect(key)
  /\ UNCHANGED <<page, away, posting, dash, data, pressed, failed, stuck>>

(* A page that reads the select by itself notices the choice. *)
Sync ==
  /\ ~away /\ page.lags /\ session # router
  /\ Effect(router)
  /\ UNCHANGED <<page, away, router, posting, dash, data, pressed, switched, failed, stuck>>

(* The old panel: CS is the new router from here on. *)
SwitchRouter(key) ==
  /\ ~away /\ ~React /\ page.keyed = "router" /\ ~Covered
  /\ posting # "sent" /\ switched < MaxSwitches /\ key # router
  /\ router' = key /\ session' = key
  /\ posting' = "sent"
  /\ switched' = switched + 1
  /\ raced' = (raced \/ InFlight # {})
  /\ UNCHANGED <<page, away, dash, rows, busy, calls, latest, ready, data,
                 pressed, failed, stuck>>

(* POST /session/router is answered and the dashboard opens; a lost one    *)
(* rejects, and the page stays as it was.                                  *)
SwitchAnswered ==
  /\ posting = "sent"
  /\ \/ posting' = "none" /\ away' = TRUE /\ dash' = TRUE
     \/ posting' = "lost" /\ UNCHANGED <<away, dash>>
  /\ UNCHANGED <<page, router, session, rows, busy, calls, latest, ready, data,
                 pressed, switched, failed, raced, stuck>>

(* loadDashboard ends with hideL() whatever page is open by then. *)
DashboardAnswered ==
  /\ dash
  /\ dash' = FALSE
  /\ busy' = FALSE
  /\ raced' = (raced \/ InFlight # {})
  /\ stuck' = FALSE
  /\ UNCHANGED <<page, away, router, session, posting, rows, calls, latest, ready, data,
                 pressed, switched, failed>>

(* The reload button, and the timer of a page that has one. *)
Refresh ==
  /\ ~away
  /\ \/ ~busy /\ ~Covered
     \/ page.polls
  /\ page.lists => ready
  /\ SomeFree
  /\ calls' = [calls EXCEPT ![FirstFree] = [LoadCall(session) EXCEPT !.kind = "load"]]
  /\ latest' = Last(FirstFree)
  /\ busy' = (busy \/ page.waits)
  /\ rows' = IF ~React /\ page.clears THEN None ELSE rows
  /\ UNCHANGED <<page, away, router, session, posting, dash, ready, data,
                 pressed, switched, failed, raced, stuck>>

Loading == \E i \in InFlight : calls[i].kind # "act"

(* The rows on screen cannot be another router's: no call was overtaken,   *)
(* no switch of the old panel is under way or was lost, the page keeps no  *)
(* rows when a load fails, and its loads hide the old ones: a waiting page *)
(* of the old panel by the overlay, a React page by the busy flag, but for *)
(* the billing page, whose import ignores it (BillingPage.tsx:142).        *)
Protected ==
  /\ page.keyed = "router" /\ ~raced /\ posting = "none"
  /\ failed = "load" => page.clears
  /\ IF React THEN Loading => \A a \in page.acts : a.locks
     ELSE page.waits

Unlocks(a) == a.locks => ~busy

(* A button or a form: the call goes to the router the handler has. *)
Press(a) ==
  /\ ~away /\ rows # None /\ ~Covered
  /\ Unlocks(a)
  /\ pressed < MaxActs
  /\ pressed' = pressed + 1
  /\ busy' = (busy \/ React \/ a.locks)
  /\ SomeFree
  /\ calls' = [calls EXCEPT ![FirstFree] =
            [kind |-> "act", act |-> a, to |-> session, at |-> "sent",
             seen |-> IF Protected THEN rows.of ELSE None,
             left |-> IF a.many THEN 1 ELSE 0]]
  /\ UNCHANGED <<page, away, router, session, posting, dash, rows, latest, ready, data,
                 switched, failed, raced, stuck>>

---------------------------------------------------------------------------
(* Acts are counted on the pages that RowsFollowActs speaks of. *)
Counted(n) == IF page.waits THEN n + 1 ELSE n

(* The back end takes a call, or the call fails; an act whose answer is    *)
(* lost may have been done.                                                *)
Serve(i) ==
  /\ ~Free(i) /\ calls[i].at = "sent"
  /\ LET store == StoreOf(calls[i].to) IN
     \/ /\ calls[i].kind = "act"
        /\ data' = [data EXCEPT ![store] = Counted(@)]
        /\ \E at \in {"ok", "failed"} : calls' = [calls EXCEPT ![i].at = at]
     \/ /\ calls[i].kind # "act"
        /\ calls' = [calls EXCEPT ![i].at = "ok", ![i].ver = data[store]]
        /\ UNCHANGED data
     \/ calls' = [calls EXCEPT ![i].at = "failed"] /\ UNCHANGED data
  /\ UNCHANGED <<page, away, router, session, posting, dash, rows, busy, latest, ready,
                 pressed, switched, failed, raced, stuck>>

(* The list of interfaces arrived: the page selects one and asks for its   *)
(* traffic.  Without it nothing is asked for, and nothing clears a busy    *)
(* flag that an ignored answer has left behind.                            *)
ListAnswered(i) ==
  /\ i \in InFlight /\ calls[i].kind = "list" /\ calls[i].at # "sent"
  /\ IF calls[i].at = "ok"
     THEN /\ calls' = [calls EXCEPT ![i] = [LoadCall(session) EXCEPT !.kind = "load"]]
          /\ latest' = Last(i) /\ ready' = TRUE
          /\ busy' = (busy \/ page.waits)
          /\ UNCHANGED <<rows, failed, stuck>>
     ELSE /\ calls' = [calls EXCEPT ![i] = None]
          /\ rows' = None /\ ready' = FALSE /\ failed' = "load"
          /\ stuck' = (stuck \/ busy)
          /\ UNCHANGED <<latest, busy>>
  /\ UNCHANGED <<page, away, router, session, posting, dash, data, pressed, switched, raced>>

(* A load ends: the listing is replaced, or the notice is set (React) and  *)
(* an empty answer shown (old, on most pages); busy is cleared in either   *)
(* case.                                                                   *)
BusyAfterSuccess(i) == busy /\ (calls[i].at = "failed" \/ ~page.waits)
BusyAfterLoad(i) == busy /\ ~page.waits
IgnoredNever(i) == FALSE
Ignored(i) == page.guards /\ i # latest

LoadAnswered(i) ==
  /\ i \in InFlight /\ calls[i].kind = "load" /\ calls[i].at # "sent"
  /\ calls' = [calls EXCEPT ![i] = None]
  /\ IF Ignored(i)
     THEN UNCHANGED <<rows, failed, busy, stuck>>
     ELSE \/ /\ calls[i].at = "ok"
             /\ rows' = [of |-> calls[i].to, ver |-> calls[i].ver]
             /\ failed' = IF failed = "act" /\ calls[i].ver # data[StoreOf(calls[i].to)]
                          THEN failed ELSE "no"
             /\ busy' = BusyAfterLoad(i)
             /\ stuck' = (stuck /\ busy')
          \/ /\ calls[i].at = "failed"
             /\ \/ page.drops /\ rows' = None
                \/ (page.drops => page.keeps) /\ UNCHANGED rows
             /\ failed' = "load"
             /\ busy' = BusyAfterLoad(i)
             /\ stuck' = (stuck /\ busy')
          \/ /\ calls[i].at = "failed" /\ page.brittle
             /\ failed' = "load" /\ stuck' = TRUE
             /\ UNCHANGED <<rows, busy>>
  /\ UNCHANGED <<page, away, router, session, posting, dash, latest, ready, data, pressed,
                 switched, raced>>

(* The answer to an act, in the order of the handlers: the next call of a  *)
(* loop; the reload, by a React handler of the router it was sent to, by   *)
(* the old panel of CS; or the end of the handler.                         *)
NextRouterOfPage(i) == session
NextRouter(i) == IF React THEN calls[i].to ELSE session

ContinuesPastTheEnd(i) == calls[i].at = "ok"
Continues(i) == calls[i].left > 0 /\ (React => calls[i].at = "ok")
Reloads(i) == calls[i].act.always \/ (calls[i].act.reloads /\ calls[i].at = "ok")
Dies(i) == calls[i].at = "failed" /\ ~calls[i].act.caught

ActAnswered(i) ==
  /\ i \in Acting /\ calls[i].at # "sent"
  /\ LET a == calls[i].act IN
     \/ /\ Continues(i)
        /\ calls' = [calls EXCEPT ![i].to = NextRouter(i), ![i].at = "sent", ![i].left = @ - 1]
        /\ UNCHANGED <<rows, latest, busy, raced, stuck>>
     \/ /\ ~Continues(i) /\ Dies(i)
        /\ calls' = [calls EXCEPT ![i] = None]
        /\ stuck' = (stuck \/ a.locks)
        /\ UNCHANGED <<rows, latest, busy, raced>>
     \/ /\ ~Continues(i) /\ ~Dies(i) /\ Reloads(i)
        /\ calls' = [calls EXCEPT ![i] = LoadCall(NextRouter(i))]
        /\ latest' = Last(i)
        /\ busy' = IF a.early THEN FALSE ELSE page.waits \/ (busy /\ ~a.locks)
        /\ rows' = IF ~React /\ page.clears THEN None ELSE rows
        /\ raced' = (raced \/ a.early)
        /\ stuck' = (stuck /\ busy')
     \/ /\ ~Continues(i) /\ ~Dies(i) /\ ~Reloads(i)
        /\ calls' = [calls EXCEPT ![i] = None]
        /\ busy' = (busy /\ ~a.locks /\ ~React)
        /\ stuck' = (stuck /\ busy')
        /\ UNCHANGED <<rows, latest, raced>>
  /\ failed' = IF calls[i].at = "failed" /\ failed = "no" THEN "act" ELSE failed
  /\ UNCHANGED <<page, away, router, session, posting, dash, ready, data, pressed, switched>>

(* The operator reloads a panel that an overlay covers for good. *)
ReloadPanel ==
  /\ stuck
  /\ away' = TRUE /\ rows' = None /\ busy' = FALSE /\ stuck' = FALSE
  /\ calls' = [i \in Slots |-> None]
  /\ posting' = "none" /\ dash' = FALSE /\ session' = router
  /\ failed' = "no" /\ raced' = FALSE /\ ready' = FALSE
  /\ UNCHANGED <<page, router, latest, data, pressed, switched>>

Progress(i) == Serve(i) \/ ListAnswered(i) \/ LoadAnswered(i) \/ ActAnswered(i)

Next ==
  \/ Open \/ Leave \/ Sync \/ Refresh
  \/ SwitchAnswered \/ DashboardAnswered \/ ReloadPanel
  \/ \E key \in Routers : Switch(key) \/ SwitchRouter(key)
  \/ \E a \in page.acts : Press(a)
  \/ \E i \in Slots : Progress(i)

Spec == Init /\ [][Next]_vars

(* While calls are in flight, some call is served or its answer handled. *)
FairSpec == Spec /\ WF_vars(\E i \in Slots : Progress(i))

---------------------------------------------------------------------------
(* The types of the page's state. *)
TypeOK ==
  /\ page \in Pages
  /\ {away, busy, dash, ready, raced, stuck} \subseteq BOOLEAN
  /\ router \in Keys /\ session \in Keys
  /\ posting \in {"none", "sent", "lost"} /\ failed \in {"no", "load", "act"}
  /\ rows \in Listing \union {None}
  /\ calls \in [Slots -> Call \union {None}]
  /\ latest \in Slots
  /\ data \in [Routers \union {Store} -> Versions]
  /\ pressed \in 0 .. MaxActs /\ switched \in 0 .. MaxSwitches

Settled == ~away /\ InFlight = {} /\ posting = "none" /\ session = router

(* Once the page has come to rest it shows the router (or the filter) that *)
(* is selected: unless its last load failed, or a switch overtook a call   *)
(* that was in flight, and then only where the page does not ignore such   *)
(* answers, as the interface traffic page does with requestRef.            *)
RowsAreOfTheRouter ==
  (Settled /\ rows # None /\ failed # "load" /\ (raced => page.guards))
    => rows.of = session

(* What the operator presses is done on the router whose rows were on the  *)
(* screen, to the last call of an import, except for the presses that the  *)
(* code leaves unprotected: those carry no rows here.  Protected says      *)
(* which; among them is everything pressed on the React billing page while *)
(* a load runs, for its import may be started then, and frees the others.  *)
ActsHitTheRowsSeen ==
  \A i \in Acting : calls[i].seen \in {calls[i].to, None}

(* A page at rest shows what was done from it, if its loads and its acts   *)
(* all lock the page and the acts all reload it: no load that was served   *)
(* before an act replaces the listing that the act has loaded.  The React  *)
(* billing page is not one of these: its import locks nothing, and a load  *)
(* sent before it may be answered after its own.                           *)
RowsFollowActs ==
  (Settled /\ rows # None /\ failed = "no" /\ ~raced
     /\ page.waits /\ \A a \in page.acts : a.reloads /\ a.locks)
    => rows.ver = data[StoreOf(rows.of)]

(* A page at rest tells the truth: its rows are those of the router that   *)
(* is selected, and what was done from the page is in them, each as far as *)
(* the pages guarantee it (see the two parts).                             *)
RestingPageIsTrue == RowsAreOfTheRouter /\ RowsFollowActs

(* Waiting ends: busy and the overlay are cleared once the calls are       *)
(* answered, unless a handler died first (a bare fetch that rejects).  A   *)
(* page that ignores overtaken answers and polls may wait for ever on a    *)
(* router slower than its timer, so it is left out.                        *)
WaitingEnds == (busy /\ ~page.guards) ~> (~busy \/ stuck)
=============================================================================
