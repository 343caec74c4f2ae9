------------------------- MODULE VoucherOrdersProofs -------------------------
(***************************************************************************)
(* Proofs about VoucherOrders, for every number of orders and requests and *)
(* every set of amounts, events, payloads and usernames.                   *)
(***************************************************************************)
EXTENDS VoucherOrders, TLAPS

(* A request past its lookup has an order, one between its claim and its   *)
(* commit has drawn a username, a reconciliation has a callback row.       *)
Shape(r) ==
  /\ req[r].pc \in {"read", "claim", "refetch", "router", "commit", "undo",
                    "settled", "failed", "routerFailed", "saveQr"}
       => req[r].order \in Orders
  /\ req[r].pc \in {"router", "commit"} => req[r].user \in Users
  /\ req[r].kind = "reconcile" => req[r].log \in Requests

RequestShape == \A r \in Requests : Shape(r)

TypeInv == TypeOK /\ RequestShape

(* A request that arrives, waits at another await or answers is a request. *)
LEMMA RequestTypes ==
  ASSUME TypeOK, NEW r \in Requests
  PROVE  /\ NewRequest \in Request
         /\ [NewRequest EXCEPT !.pc = "done"] \in Request
         /\ \A pc \in Awaits : [req[r] EXCEPT !.pc = pc] \in Request
<1>1. "new" \in Awaits /\ "done" \in Awaits
  BY DEF Awaits
<1>2. NewRequest \in Request
  BY <1>1 DEF NewRequest, Request, NoOrder, NoRequest
<1>3. ASSUME NEW rq \in Request, NEW pc \in Awaits
      PROVE  [rq EXCEPT !.pc = pc] \in Request
  BY DEF Request
<1>4. req[r] \in Request
  BY DEF TypeOK
<1> QED
  BY <1>1, <1>2, <1>3, <1>4

(* Saving a callback row keeps the table well typed. *)
LEMMA SaveLogTypes ==
  ASSUME TypeOK, NEW r \in Requests, NEW e \in Events \cup {NoEvent},
         NEW a \in Amounts \cup {NoAmount}, NEW o \in Orders \cup {NoOrder},
         NEW rec \in {"none", "candidate"},
         NEW note \in {"received", "settled", "failed", "routerFailed"},
         SaveLog(r, e, a, o, rec, note)
  PROVE  logs' \in [Requests -> LogRow]
  BY DEF TypeOK, SaveLog, LogRow

(* Waiting at another await keeps the shape of a request, given what the   *)
(* new await needs of it.                                                  *)
LEMMA GotoShape ==
  ASSUME TypeInv, NEW r \in Requests, NEW pc \in Awaits, Goto(r, pc),
         pc = "router" => req[r].user \in Users,
         pc = "commit" => req[r].user \in Users,
         pc \in {"lookup", "matchExpired", "new", "saveUnmatched", "done"}
           \/ req[r].order \in Orders
  PROVE  req' \in [Requests -> Request] /\ RequestShape'
<1>1. req' \in [Requests -> Request]
  BY RequestTypes DEF TypeInv, TypeOK, Goto
<1>2. RequestShape'
  <2> SUFFICES ASSUME NEW q \in Requests
               PROVE  Shape(q)'
    BY DEF RequestShape, Shape
  <2>1. CASE q = r
    BY <2>1 DEF TypeInv, TypeOK, RequestShape, Shape, Goto, Request
  <2>2. CASE q # r
    BY <2>2 DEF TypeInv, TypeOK, RequestShape, Shape, Goto
  <2> QED
    BY <2>1, <2>2
<1> QED
  BY <1>1, <1>2

LEMMA AnswerShape ==
  ASSUME TypeInv, NEW r \in Requests, Answer(r)
  PROVE  req' \in [Requests -> Request] /\ RequestShape'
  BY RequestTypes DEF TypeInv, TypeOK, RequestShape, Shape, Answer, NewRequest

(* The claim, and the arrival of a request, replace its whole record. *)
LEMMA ReplaceShape ==
  ASSUME TypeInv, NEW r \in Requests, NEW new \in Request,
         req' = [req EXCEPT ![r] = new],
         new.pc \in {"lookup", "matchExpired", "new", "saveUnmatched", "done"}
           \/ new.order \in Orders,
         new.pc \in {"router", "commit"} => new.user \in Users,
         new.kind = "reconcile" => new.log \in Requests
  PROVE  req' \in [Requests -> Request] /\ RequestShape'
  BY DEF TypeInv, TypeOK, RequestShape, Shape

-----------------------------------------------------------------------------

LEMMA TypeInit == Init => TypeInv
<1> SUFFICES ASSUME Init PROVE TypeInv
  OBVIOUS
<1>1. NewRequest \in Request /\ NoLog \in LogRow
  BY DEF NewRequest, Request, Awaits, NoLog, LogRow, NoOrder, NoRequest
<1>2. TypeOK
  BY <1>1 DEF Init, TypeOK, OrderStatus
<1>3. RequestShape
  BY DEF Init, RequestShape, Shape, NewRequest
<1> QED
  BY <1>2, <1>3 DEF TypeInv

LEMMA TypeRequestStep ==
  ASSUME TypeInv, NEW r \in Requests, RequestStep(r)
  PROVE  TypeInv'
<1> USE DEF OrderStatus
<1>1. ASSUME NEW d \in Deliveries, ReceiveWebhook(r, d) PROVE TypeInv'
  <2>1. /\ d.event \in Events \cup {NoEvent}
        /\ d.amount \in Amounts \cup {NoAmount}
    BY DeliveriesAssumption
  <2>2. logs' \in [Requests -> LogRow]
    BY <1>1, <2>1, SaveLogTypes DEF ReceiveWebhook, TypeInv, TypeOK, NoOrder
  <2> DEFINE new == [NewRequest EXCEPT !.kind = "webhook", !.pc = "lookup",
                                       !.event = d.event, !.amount = d.amount]
  <2>3. new \in Request /\ new.pc = "lookup" /\ new.kind = "webhook"
    BY <2>1 DEF NewRequest, Request, Awaits, NoOrder, NoRequest
  <2>4. CASE d.amount = NoAmount
    BY <1>1, <2>2, <2>4, AnswerShape DEF ReceiveWebhook, TypeInv, TypeOK
  <2>5. CASE d.amount # NoAmount
    BY <1>1, <2>2, <2>3, <2>5, ReplaceShape DEF ReceiveWebhook, TypeInv, TypeOK
  <2> QED
    BY <2>4, <2>5
<1>2. ASSUME NEW l \in Requests, NEW o \in Orders, BeginReconcile(r, l, o)
      PROVE  TypeInv'
  <2>1. logs' \in [Requests -> LogRow]
    BY <1>2 DEF BeginReconcile, TypeInv, TypeOK, LogRow
  <2> DEFINE new == [NewRequest EXCEPT !.kind = "reconcile", !.pc = "read",
                                       !.order = o, !.log = l]
  <2>2. new \in Request /\ new.pc = "read" /\ new.order = o /\ new.log = l
    BY DEF NewRequest, Request, Awaits
  <2>3. req' \in [Requests -> Request] /\ RequestShape'
    BY <1>2, <2>2, ReplaceShape DEF BeginReconcile
  <2> QED
    BY <1>2, <2>1, <2>3 DEF BeginReconcile, TypeInv, TypeOK
<1>3. ASSUME NEW o \in Orders, VerifyManually(r, o) PROVE TypeInv'
  <2> DEFINE new == [NewRequest EXCEPT !.kind = "manual", !.order = o,
                       !.pc = IF IsPaid(o) THEN "settled" ELSE "claim"]
  <2>1. new \in Request /\ new.order = o /\ new.kind = "manual"
        /\ new.pc \in {"settled", "claim"}
    BY DEF NewRequest, Request, Awaits, NoRequest
  <2>2. req' \in [Requests -> Request] /\ RequestShape'
    BY <1>3, <2>1, ReplaceShape DEF VerifyManually
  <2> QED
    BY <1>3, <2>2 DEF VerifyManually, TypeInv, TypeOK
<1>4. ASSUME NEW o \in Orders, BeginRegenerate(r, o) PROVE TypeInv'
  <2> DEFINE new == [NewRequest EXCEPT !.kind = "regenerate", !.pc = "saveQr",
                                       !.order = o, !.user = creds[o]]
  <2>1. new \in Request /\ new.order = o /\ new.kind = "regenerate"
        /\ new.pc = "saveQr"
    BY DEF NewRequest, Request, Awaits, NoRequest, TypeInv, TypeOK
  <2>2. req' \in [Requests -> Request] /\ RequestShape'
    BY <1>4, <2>1, ReplaceShape DEF BeginRegenerate
  <2> QED
    BY <1>4, <2>2 DEF BeginRegenerate, TypeInv, TypeOK
<1>5. CASE Lookup(r)
  <2>1. req' \in [Requests -> Request] /\ RequestShape'
    <3>1. CASE Goto(r, "matchExpired")
      BY <3>1, GotoShape DEF Awaits
    <3>2. ASSUME NEW o \in LivePending(req[r].amount),
                 req' = [req EXCEPT ![r] = [@ EXCEPT !.pc = "claim", !.order = o]]
          PROVE  req' \in [Requests -> Request] /\ RequestShape'
      <4> DEFINE new == [req[r] EXCEPT !.pc = "claim", !.order = o]
      <4>1. /\ new \in Request /\ new.order \in Orders /\ new.pc = "claim"
            /\ new.kind = req[r].kind /\ new.log = req[r].log
        <5>1. req[r] \in Request /\ o \in Orders /\ "claim" \in Awaits
          BY DEF LivePending, TypeInv, TypeOK, Awaits
        <5> QED
          BY <5>1 DEF Request, Awaits
      <4>2. new.kind = "reconcile" => new.log \in Requests
        BY <4>1 DEF TypeInv, RequestShape, Shape
      <4>3. req' = [req EXCEPT ![r] = new]
        BY <3>2
      <4> QED
        BY <4>1, <4>2, <4>3, ReplaceShape
    <3> QED
      BY <1>5, <3>1, <3>2 DEF Lookup
  <2> QED
    BY <1>5, <2>1 DEF Lookup, TypeInv, TypeOK
<1>6. CASE MatchExpired(r)
  <2> DEFINE rec == IF \E o \in Orders : ExpiredWith(req[r].amount) = {o}
                    THEN "candidate" ELSE "none"
             new == [req[r] EXCEPT !.pc = "saveUnmatched", !.rec = rec]
  <2>1. rec \in {"none", "candidate"}
    OBVIOUS
  <2>2. /\ new \in Request /\ new.pc = "saveUnmatched"
        /\ new.kind = req[r].kind /\ new.log = req[r].log
    <3>1. req[r] \in Request /\ "saveUnmatched" \in Awaits
      BY DEF TypeInv, TypeOK, Awaits
    <3> HIDE DEF rec
    <3>2. new \in Request
      BY <2>1, <3>1 DEF Request
    <3>3. /\ new.pc = "saveUnmatched"
          /\ new.kind = req[r].kind /\ new.log = req[r].log
      BY <3>1 DEF Request
    <3> QED
      BY <3>2, <3>3
  <2>3. new.kind = "reconcile" => new.log \in Requests
    BY <2>2 DEF TypeInv, RequestShape, Shape
  <2>4. req' = [req EXCEPT ![r] = new]
    BY <1>6 DEF MatchExpired
  <2>5. req' \in [Requests -> Request] /\ RequestShape'
    BY <2>2, <2>3, <2>4, ReplaceShape
  <2> QED
    BY <1>6, <2>5 DEF MatchExpired, TypeInv, TypeOK
<1>7. CASE SaveUnmatched(r)
  <2>1. /\ req[r].event \in Events \cup {NoEvent}
        /\ req[r].amount \in Amounts \cup {NoAmount}
        /\ req[r].rec \in {"none", "candidate"}
    BY DEF TypeInv, TypeOK, Request
  <2>2. logs' \in [Requests -> LogRow]
    BY <1>7, <2>1, SaveLogTypes DEF SaveUnmatched, TypeInv
  <2> QED
    BY <1>7, <2>2, AnswerShape DEF SaveUnmatched, TypeInv, TypeOK
<1>8. CASE ReadReconciled(r)
  <2>1. req[r].order \in Orders
    BY <1>8 DEF ReadReconciled, TypeInv, RequestShape, Shape
  <2>2. req' \in [Requests -> Request] /\ RequestShape'
    BY <1>8, <2>1, GotoShape, AnswerShape DEF ReadReconciled, Awaits
  <2> QED
    BY <1>8, <2>2 DEF ReadReconciled, TypeInv, TypeOK
<1>9. CASE Claim(r)
  <2>1. req[r].order \in Orders
    BY <1>9 DEF Claim, Claimable, TypeInv, RequestShape, Shape
  <2>2. status' \in [Orders -> OrderStatus]
    BY <1>9 DEF Claim, Claimable, TypeInv, TypeOK
  <2>3. ASSUME NEW u \in Users,
               req' = [req EXCEPT ![r] = [@ EXCEPT !.pc = "router", !.user = u]]
        PROVE  req' \in [Requests -> Request] /\ RequestShape'
    <3> DEFINE new == [req[r] EXCEPT !.pc = "router", !.user = u]
    <3>1. /\ new \in Request /\ new.order \in Orders /\ new.user = u
          /\ new.kind = req[r].kind /\ new.log = req[r].log
      <4>1. req[r] \in Request /\ "router" \in Awaits
        BY DEF TypeInv, TypeOK, Awaits
      <4> QED
        BY <2>1, <4>1 DEF Request, Awaits
    <3>2. new.kind = "reconcile" => new.log \in Requests
      BY <3>1 DEF TypeInv, RequestShape, Shape
    <3>3. req' = [req EXCEPT ![r] = new]
      BY <2>3
    <3> QED
      BY <3>1, <3>2, <3>3, ReplaceShape
  <2>4. ASSUME Goto(r, "refetch")
        PROVE  req' \in [Requests -> Request] /\ RequestShape'
    <3>1. "refetch" \in Awaits
      BY DEF Awaits
    <3> QED
      BY <2>1, <2>4, <3>1, GotoShape
  <2>5. req' \in [Requests -> Request] /\ RequestShape'
    <3>1. CASE status[req[r].order] = "pending"
      <4>1. PICK u \in Users :
              req' = [req EXCEPT ![r] = [@ EXCEPT !.pc = "router", !.user = u]]
        BY <1>9, <3>1 DEF Claim, Claimable
      <4> QED
        BY <4>1, <2>3
    <3>2. CASE status[req[r].order] # "pending"
      BY <1>9, <2>4, <3>2 DEF Claim, Claimable
    <3> QED
      BY <3>1, <3>2
  <2> QED
    BY <1>9, <2>2, <2>5 DEF Claim, Claimable, TypeInv, TypeOK
<1>10. CASE Refetch(r) \/ DatabaseError(r)
  <2>1. req[r].order \in Orders
    BY <1>10 DEF Refetch, DatabaseError, TypeInv, RequestShape, Shape
  <2>2. req' \in [Requests -> Request] /\ RequestShape'
    BY <1>10, <2>1, GotoShape DEF Refetch, DatabaseError, Awaits
  <2> QED
    BY <1>10, <2>2 DEF Refetch, DatabaseError, TypeInv, TypeOK
<1>11. CASE RouterAdds(r) \/ RouterFails(r)
  <2>1. req[r].order \in Orders /\ req[r].user \in Users
    BY <1>11 DEF RouterAdds, RouterFails, TypeInv, RequestShape, Shape
  <2>2. req' \in [Requests -> Request] /\ RequestShape'
    BY <1>11, <2>1, GotoShape DEF RouterAdds, RouterFails, Awaits
  <2>3. router' \subseteq Users
    BY <1>11, <2>1 DEF RouterAdds, RouterFails, TypeInv, TypeOK
  <2> QED
    BY <1>11, <2>2, <2>3 DEF RouterAdds, RouterFails, TypeInv, TypeOK
<1>12. CASE Commit(r)
  <2>1. req[r].order \in Orders /\ req[r].user \in Users
    BY <1>12 DEF Commit, TypeInv, RequestShape, Shape
  <2>2. req' \in [Requests -> Request] /\ RequestShape'
    BY <1>12, <2>1, GotoShape DEF Commit, Awaits
  <2>3. /\ status' \in [Orders -> OrderStatus]
        /\ creds' \in [Orders -> Users \cup {NoUser}]
    BY <1>12, <2>1 DEF Commit, Stored, TypeInv, TypeOK
  <2>4. outbox' \subseteq OutboxRow
    BY <1>12, <2>1 DEF Commit, SettlementRows, OutboxRow, TypeInv, TypeOK
  <2> QED
    BY <1>12, <2>2, <2>3, <2>4 DEF Commit, TypeInv, TypeOK
<1>13. CASE Undo(r)
  <2>1. req[r].order \in Orders
    BY <1>13 DEF Undo, TypeInv, RequestShape, Shape
  <2>2. req' \in [Requests -> Request] /\ RequestShape'
    BY <1>13, <2>1, GotoShape DEF Undo, Awaits
  <2>3. status' \in [Orders -> OrderStatus]
    BY <1>13, <2>1 DEF Undo, Stored, TypeInv, TypeOK
  <2> QED
    BY <1>13, <2>2, <2>3 DEF Undo, TypeInv, TypeOK
<1>14. CASE FinishWebhook(r)
  <2>1. /\ req[r].event \in Events \cup {NoEvent}
        /\ req[r].amount \in Amounts \cup {NoAmount}
        /\ req[r].order \in Orders \cup {NoOrder}
        /\ req[r].pc \in {"settled", "failed", "routerFailed"}
    BY <1>14 DEF FinishWebhook, TypeInv, TypeOK, Request
  <2>2. SaveLog(r, req[r].event, req[r].amount, req[r].order, "none", req[r].pc)
    BY <1>14 DEF FinishWebhook
  <2>3. logs' \in [Requests -> LogRow]
    BY <2>1, <2>2 DEF SaveLog, LogRow, TypeInv, TypeOK
  <2> QED
    BY <1>14, <2>3, AnswerShape DEF FinishWebhook, TypeInv, TypeOK
<1>15. CASE FinishManual(r)
  <2>1. req[r].order \in Orders
    BY <1>15 DEF FinishManual, TypeInv, RequestShape, Shape
  <2>2. amount[req[r].order] \in Amounts \cup {NoAmount}
    BY <2>1 DEF TypeInv, TypeOK
  <2>3. logs' \in [Requests -> LogRow]
    BY <1>15, <2>1, <2>2, SaveLogTypes DEF FinishManual, TypeInv, TypeOK
  <2> QED
    BY <1>15, <2>3, AnswerShape DEF FinishManual, TypeInv, TypeOK
<1>16. CASE FinishReconcile(r)
  <2>1. req[r].log \in Requests /\ req[r].order \in Orders
    BY <1>16 DEF FinishReconcile, Released, TypeInv, RequestShape, Shape
  <2>2. logs' \in [Requests -> LogRow]
    BY <1>16, <2>1 DEF FinishReconcile, Released, TypeInv, TypeOK, LogRow
  <2>3. status' \in [Orders -> OrderStatus]
    BY <1>16, <2>1 DEF FinishReconcile, Released, TypeInv, TypeOK
  <2> QED
    BY <1>16, <2>2, <2>3, AnswerShape DEF FinishReconcile, Released, TypeInv, TypeOK
<1>17. CASE SaveQr(r)
  <2>1. req[r].order \in Orders /\ req[r].user \in Users \cup {NoUser}
    BY <1>17 DEF SaveQr, TypeInv, RequestShape, Shape, TypeOK, Request
  <2> QED
    BY <1>17, <2>1, AnswerShape DEF SaveQr, TypeInv, TypeOK
<1> QED
  BY <1>1, <1>2, <1>3, <1>4, <1>5, <1>6, <1>7, <1>8, <1>9, <1>10, <1>11, <1>12,
     <1>13, <1>14, <1>15, <1>16, <1>17 DEF RequestStep

LEMMA TypeStep == TypeInv /\ [Next]_vars => TypeInv'
<1> SUFFICES ASSUME TypeInv, [Next]_vars PROVE TypeInv'
  OBVIOUS
<1> USE DEF OrderStatus
<1>1. ASSUME NEW o \in Orders, NEW a \in Amounts, BeginCreate(o, a)
      PROVE  TypeInv'
  BY <1>1 DEF TypeInv, TypeOK, RequestShape, Shape, BeginCreate
<1>2. ASSUME NEW o \in Orders, InsertOrder(o) PROVE TypeInv'
  BY <1>2 DEF TypeInv, TypeOK, RequestShape, Shape, InsertOrder
<1>3. ASSUME NEW r \in Requests, RequestStep(r) PROVE TypeInv'
  BY <1>3, TypeRequestStep
<1>4. CASE ExpireStaleOrders \/ PruneOldUnpaidOrders
  BY <1>4 DEF TypeInv, TypeOK, RequestShape, Shape, ExpireStaleOrders,
              PruneOldUnpaidOrders
<1>5. ASSUME NEW o \in Orders, Lapse(o) \/ AgeOut(o) PROVE TypeInv'
  BY <1>5 DEF TypeInv, TypeOK, RequestShape, Shape, Lapse, AgeOut
<1>6. CASE Crash
  <2>1. req' \in [Requests -> Request]
    BY <1>6, RequestTypes DEF Crash, TypeInv, TypeOK
  <2>2. RequestShape'
    BY <1>6 DEF Crash, TypeInv, TypeOK, RequestShape, Shape, NewRequest, InFlight
  <2> QED
    BY <1>6, <2>1, <2>2 DEF TypeInv, TypeOK, Crash
<1>7. CASE UNCHANGED vars
  BY <1>7 DEF TypeInv, TypeOK, RequestShape, Shape, vars
<1> QED
  BY <1>1, <1>2, <1>3, <1>4, <1>5, <1>6, <1>7 DEF Next

LEMMA TypeInvariant == Spec => []TypeInv
  BY TypeInit, TypeStep, PTL DEF Spec

(* Every column, row, router user and waiting request keeps its type under *)
(* every request, sweep and crash.                                         *)
THEOREM Typing == Spec => []TypeOK
<1>1. TypeInv => TypeOK
  BY DEF TypeInv
<1> QED
  BY <1>1, TypeInvariant, PTL

-----------------------------------------------------------------------------
(* Exclusion.  An order that is expired or deleted, or that a              *)
(* reconciliation has reopened, is past its expiry; so on an undisturbed   *)
(* order only the conditional UPDATE of Claim lets a settlement start, and *)
(* it leaves "processing" only by the commit or the undo of that one.      *)

LateInv ==
  /\ \A o \in Orders : status[o] \in {"expired", "deleted"} => age[o] # "live"
  /\ \A r \in Requests :
       /\ req[r].kind = "reconcile" =>
            req[r].order \in Orders /\ age[req[r].order] # "live"
       /\ req[r].pc = "lookup" => req[r].kind = "webhook"

Exclusive(o) ==
  /\ Settlers(o) # {} => status[o] = "processing"
  /\ \A r, s \in Settlers(o) : r = s
  /\ SettledBy(o) # {} => status[o] = "paid"
  /\ \A r, s \in SettledBy(o) : r = s

ExclusionInv ==
  /\ TypeInv
  /\ LateInv
  /\ \A o \in Orders : ~Disturbed(o) => Exclusive(o)

(* What Goto and Answer do to the table of requests. *)
LEMMA GotoEffect ==
  ASSUME TypeInv, NEW r \in Requests, NEW pc, Goto(r, pc)
  PROVE  /\ req'[r].pc = pc
         /\ \A q \in Requests :
              /\ q # r => req'[q] = req[q]
              /\ req'[q].kind = req[q].kind
              /\ req'[q].order = req[q].order
              /\ req'[q].user = req[q].user
  BY DEF TypeInv, TypeOK, Goto, Request

LEMMA AnswerEffect ==
  ASSUME TypeInv, NEW r \in Requests, Answer(r)
  PROVE  /\ req'[r].pc = "done" /\ req'[r].kind = "none"
         /\ req'[r].order = NoOrder
         /\ \A q \in Requests : q # r => req'[q] = req[q]
  BY DEF TypeInv, TypeOK, Answer, NewRequest

(* A delivery is answered at once or leaves its request at the lookup. *)
LEMMA WebhookEffect ==
  ASSUME TypeInv, NEW r \in Requests, NEW d \in Deliveries,
         ReceiveWebhook(r, d)
  PROVE  /\ \A q \in Requests : q # r => req'[q] = req[q]
         /\ \/ req'[r].kind = "none" /\ req'[r].pc = "done"
            \/ req'[r].kind = "webhook" /\ req'[r].pc = "lookup"
<1>1. CASE d.amount = NoAmount
  BY <1>1, AnswerEffect DEF ReceiveWebhook
<1>2. CASE d.amount # NoAmount
  <2> DEFINE new == [NewRequest EXCEPT !.kind = "webhook", !.pc = "lookup",
                                       !.event = d.event, !.amount = d.amount]
  <2>1. new.kind = "webhook" /\ new.pc = "lookup"
    BY DEF NewRequest
  <2>2. req' = [req EXCEPT ![r] = new]
    BY <1>2 DEF ReceiveWebhook
  <2> HIDE DEF new
  <2>3. req'[r] = new /\ \A q \in Requests : q # r => req'[q] = req[q]
    BY <2>2 DEF TypeInv, TypeOK
  <2> QED
    BY <2>1, <2>3
<1> QED
  BY <1>1, <1>2

(* The lookup leads to the claim of an order or to the expired match. *)
LEMMA LookupEffect ==
  ASSUME TypeInv, NEW r \in Requests, Lookup(r)
  PROVE  /\ \A q \in Requests : q # r => req'[q] = req[q]
         /\ req'[r].kind = req[r].kind
         /\ req'[r].pc \in {"matchExpired", "claim"}
<1>1. CASE LivePending(req[r].amount) = {}
  BY <1>1, GotoEffect DEF Lookup
<1>2. CASE LivePending(req[r].amount) # {}
  <2>1. PICK p : req' = [req EXCEPT ![r] = [@ EXCEPT !.pc = "claim",
                                                     !.order = p]]
    BY <1>2 DEF Lookup
  <2>2. req[r] \in Request
    BY DEF TypeInv, TypeOK
  <2>3. /\ \A q \in Requests : q # r => req'[q] = req[q]
        /\ req'[r] = [req[r] EXCEPT !.pc = "claim", !.order = p]
    BY <2>1 DEF TypeInv, TypeOK
  <2>4. req'[r].kind = req[r].kind /\ req'[r].pc = "claim"
    BY <2>2, <2>3 DEF Request
  <2> QED
    BY <2>3, <2>4
<1> QED
  BY <1>1, <1>2

(* A claim succeeds on a pending order alone, and touches that order. *)
LEMMA ClaimEffect ==
  ASSUME TypeInv, NEW r \in Requests, Claim(r)
  PROVE  /\ \A q \in Requests : q # r => req'[q] = req[q]
         /\ req'[r].kind = req[r].kind /\ req'[r].order = req[r].order
         /\ \/ /\ status[req[r].order] = "pending"
               /\ status' = [status EXCEPT ![req[r].order] = "processing"]
               /\ req'[r].pc = "router"
            \/ /\ status' = status
               /\ req'[r].pc = "refetch"
<1>1. CASE status[req[r].order] = "pending"
  <2>1. PICK u \in Users :
          req' = [req EXCEPT ![r] = [@ EXCEPT !.pc = "router", !.user = u]]
    BY <1>1 DEF Claim, Claimable
  <2>2. req[r] \in Request
    BY DEF TypeInv, TypeOK
  <2>3. /\ \A q \in Requests : q # r => req'[q] = req[q]
        /\ req'[r] = [req[r] EXCEPT !.pc = "router", !.user = u]
    BY <2>1 DEF TypeInv, TypeOK
  <2>4. /\ req'[r].kind = req[r].kind /\ req'[r].order = req[r].order
        /\ req'[r].pc = "router"
    BY <2>2, <2>3 DEF Request
  <2> QED
    BY <1>1, <2>3, <2>4 DEF Claim, Claimable
<1>2. CASE status[req[r].order] # "pending"
  BY <1>2, GotoEffect DEF Claim, Claimable
<1> QED
  BY <1>1, <1>2

(* A step under which no order newly ends and no reconciliation starts.    *)
LEMMA LateFrame ==
  ASSUME LateInv, age' = age,
         \A o \in Orders : status'[o] \in {"expired", "deleted"} =>
             status[o] \in {"expired", "deleted"} \/ age[o] # "live",
         \A q \in Requests :
           /\ req'[q].kind = "reconcile" =>
                req[q].kind = "reconcile" /\ req'[q].order = req[q].order
           /\ req'[q].pc = "lookup" => req'[q].kind = "webhook"
  PROVE  LateInv'
  BY DEF LateInv

LEMMA LateStep == TypeInv /\ LateInv /\ [Next]_vars => LateInv'
<1> SUFFICES ASSUME TypeInv, LateInv, [Next]_vars PROVE LateInv'
  OBVIOUS
<1> USE DEF TypeInv, TypeOK
<1>1. ASSUME NEW o \in Orders, NEW a \in Amounts, BeginCreate(o, a)
      PROVE  LateInv'
  BY <1>1 DEF BeginCreate, LateInv
<1>2. ASSUME NEW o \in Orders, InsertOrder(o) PROVE LateInv'
  BY <1>2 DEF InsertOrder, LateInv
<1>3. ASSUME NEW r \in Requests, RequestStep(r) PROVE LateInv'
  <2>1. ASSUME NEW d \in Deliveries, ReceiveWebhook(r, d) PROVE LateInv'
    <3>1. /\ \A q \in Requests : q # r => req'[q] = req[q]
          /\ req'[r].kind # "reconcile"
          /\ req'[r].pc = "lookup" => req'[r].kind = "webhook"
      BY <2>1, WebhookEffect
    <3>2. age' = age /\ status' = status
      BY <2>1 DEF ReceiveWebhook
    <3> QED
      BY <3>1, <3>2, LateFrame DEF LateInv
  <2>2. ASSUME NEW l \in Requests, NEW o \in Orders, BeginReconcile(r, l, o)
        PROVE  LateInv'
    BY <2>2 DEF BeginReconcile, LateInv, NewRequest
  <2>3. ASSUME NEW o \in Orders, VerifyManually(r, o) PROVE LateInv'
    <3>1. \A q \in Requests :
            \/ req'[q] = req[q]
            \/ req'[q].kind = "manual" /\ req'[q].pc # "lookup"
      BY <2>3 DEF VerifyManually, NewRequest
    <3> QED
      BY <2>3, <3>1, LateFrame DEF VerifyManually, LateInv
  <2>4. ASSUME NEW o \in Orders, BeginRegenerate(r, o) PROVE LateInv'
    BY <2>4 DEF BeginRegenerate, LateInv, NewRequest
  <2>5. CASE Lookup(r)
    <3>1. \A q \in Requests :
            \/ req'[q] = req[q]
            \/ req'[q].kind = "webhook" /\ req'[q].pc # "lookup"
      BY <2>5, LookupEffect DEF Lookup, LateInv
    <3> QED
      BY <2>5, <3>1, LateFrame DEF Lookup, LateInv
  <2>6. CASE MatchExpired(r)
    <3>1. \A q \in Requests :
            \/ req'[q] = req[q]
            \/ /\ req'[q].kind = req[q].kind /\ req'[q].pc # "lookup"
               /\ req'[q].order = req[q].order
      BY <2>6 DEF MatchExpired, Request
    <3> QED
      BY <2>6, <3>1, LateFrame DEF MatchExpired, LateInv
  <2>7. CASE SaveUnmatched(r) \/ FinishWebhook(r) \/ FinishManual(r)
    BY <2>7, AnswerEffect, LateFrame
       DEF SaveUnmatched, FinishWebhook, FinishManual, LateInv
  <2>8. CASE ReadReconciled(r)
    BY <2>8, GotoEffect, AnswerEffect, LateFrame DEF ReadReconciled, LateInv
  <2>9. CASE Refetch(r) \/ DatabaseError(r) \/ RouterAdds(r) \/ RouterFails(r)
    BY <2>9, GotoEffect, LateFrame
       DEF Refetch, DatabaseError, RouterAdds, RouterFails, LateInv
  <2>10. CASE Claim(r)
    <3>1. \A o \in Orders : status'[o] # status[o] => status'[o] = "processing"
      BY <2>10, ClaimEffect
    <3>2. /\ req'[r].kind = req[r].kind /\ req'[r].order = req[r].order
          /\ req'[r].pc # "lookup"
          /\ \A q \in Requests : q # r => req'[q] = req[q]
      BY <2>10, ClaimEffect
    <3>3. UNCHANGED <<age, logs>>
      BY <2>10 DEF Claim
    <3> QED
      BY <3>1, <3>2, <3>3, LateFrame DEF LateInv
  <2>11. CASE Commit(r) \/ Undo(r)
    <3>1. \A o \in Orders : status'[o] # status[o] =>
              status'[o] \in {"paid", "pending"}
      BY <2>11 DEF Commit, Undo, Stored
    <3> QED
      BY <2>11, <3>1, GotoEffect, LateFrame DEF Commit, Undo, LateInv
  <2>12. CASE FinishReconcile(r)
    <3>1. req[r].order \in Orders /\ age[req[r].order] # "live"
      BY <2>12 DEF FinishReconcile, Released, LateInv
    <3>2. \A o \in Orders : status'[o] # status[o] => o = req[r].order
      BY <2>12 DEF FinishReconcile, Released
    <3> QED
      BY <2>12, <3>1, <3>2, AnswerEffect, LateFrame DEF FinishReconcile, Released, LateInv
  <2>13. CASE SaveQr(r)
    <3>1. \A o \in Orders : status'[o] # status[o] => status'[o] = "pending"
      BY <2>13 DEF SaveQr
    <3> QED
      BY <2>13, <3>1, AnswerEffect, LateFrame DEF SaveQr, LateInv
  <2> QED
    BY <1>3, <2>1, <2>2, <2>3, <2>4, <2>5, <2>6, <2>7, <2>8, <2>9, <2>10,
       <2>11, <2>12, <2>13 DEF RequestStep
<1>4. CASE ExpireStaleOrders \/ PruneOldUnpaidOrders
  BY <1>4 DEF ExpireStaleOrders, Expirable, PruneOldUnpaidOrders, LateInv
<1>5. ASSUME NEW o \in Orders, Lapse(o) \/ AgeOut(o) PROVE LateInv'
  <2>1. \A p \in Orders : age[p] # "live" => age'[p] # "live"
    BY <1>5 DEF Lapse, AgeOut
  <2>2. status' = status /\ req' = req
    BY <1>5 DEF Lapse, AgeOut
  <2> QED
    BY <2>1, <2>2 DEF LateInv
<1>6. CASE Crash
  BY <1>6 DEF Crash, InFlight, LateInv, NewRequest
<1>7. CASE UNCHANGED vars
  BY <1>7 DEF vars, LateInv
<1> QED
  BY <1>1, <1>2, <1>3, <1>4, <1>5, <1>6, <1>7 DEF Next

(* A step that starts no settlement on o and hands nothing of o to the     *)
(* outbox, on an order whose status it leaves alone.                       *)
LEMMA ExclusiveFrame ==
  ASSUME NEW o \in Orders, Exclusive(o), status'[o] = status[o],
         Settlers(o)' \subseteq Settlers(o), SettledBy(o)' = SettledBy(o)
  PROVE  Exclusive(o)'
  BY DEF Exclusive

(* The same, on an order that nobody is settling any more. *)
LEMMA ExclusiveIdle ==
  ASSUME NEW o \in Orders, Settlers(o)' = {}, SettledBy(o)' = {}
  PROVE  Exclusive(o)'
  BY DEF Exclusive

LEMMA SettledByFrame ==
  ASSUME NEW o \in Orders, outbox' = outbox
  PROVE  SettledBy(o)' = SettledBy(o)
  BY DEF SettledBy

(* A request that waits elsewhere, answers or arrives starts no settlement.*)
LEMMA SettlersFrame ==
  ASSUME NEW o \in Orders,
         \A q \in Requests :
           \/ req'[q] = req[q]
           \/ req'[q].pc \notin {"router", "commit", "undo"}
           \/ /\ req[q].pc \in {"router", "commit", "undo"}
              /\ req'[q].order = req[q].order
  PROVE  Settlers(o)' \subseteq Settlers(o)
  BY DEF Settlers

LEMMA ExclusionStep == ExclusionInv /\ [Next]_vars => ExclusionInv'
<1> SUFFICES ASSUME ExclusionInv, [Next]_vars PROVE ExclusionInv'
  OBVIOUS
<1>1. TypeInv' /\ LateInv'
  BY TypeStep, LateStep DEF ExclusionInv
<1> SUFFICES ASSUME NEW o \in Orders, ~Disturbed(o)' PROVE Exclusive(o)'
  BY <1>1 DEF ExclusionInv
<1>2. ~Disturbed(o)
  <2>1. CASE UNCHANGED vars
    BY <2>1 DEF Disturbed, vars
  <2>2. ASSUME NEW r \in Requests, SaveQr(r) PROVE ~Disturbed(o)
    BY <2>2 DEF Disturbed, SaveQr
  <2>3. ASSUME NEW p \in Orders, Lapse(p) \/ AgeOut(p) PROVE ~Disturbed(o)
    BY <2>3 DEF Disturbed, Lapse, AgeOut, ExclusionInv, TypeInv, TypeOK
  <2>4. CASE age' = age /\ overwritten' = overwritten
    BY <2>4 DEF Disturbed
  <2>5. ASSUME NEW r \in Requests, RequestStep(r) PROVE ~Disturbed(o)
    <3>1. SaveQr(r) \/ (age' = age /\ overwritten' = overwritten)
      BY <2>5
         DEF RequestStep, ReceiveWebhook, Lookup, MatchExpired, SaveUnmatched,
             BeginReconcile, ReadReconciled, VerifyManually, BeginRegenerate,
             Claim, Refetch, RouterAdds, RouterFails, Commit, Undo,
             DatabaseError, FinishWebhook, FinishManual, FinishReconcile
    <3> QED
      BY <2>2, <2>4, <3>1
  <2>6. ASSUME NEW p \in Orders, NEW a \in Amounts, BeginCreate(p, a)
        PROVE  ~Disturbed(o)
    BY <2>4, <2>6 DEF BeginCreate
  <2>7. ASSUME NEW p \in Orders, InsertOrder(p) PROVE ~Disturbed(o)
    BY <2>4, <2>7 DEF InsertOrder
  <2>8. CASE ExpireStaleOrders \/ PruneOldUnpaidOrders \/ Crash
    BY <2>4, <2>8 DEF ExpireStaleOrders, PruneOldUnpaidOrders, Crash
  <2> QED
    BY <2>1, <2>3, <2>5, <2>6, <2>7, <2>8 DEF Next
<1>3. /\ TypeInv /\ LateInv /\ Exclusive(o) /\ age[o] = "live"
      /\ status[o] \notin {"expired", "deleted"} /\ o \notin overwritten'
      /\ age'[o] = "live"
  BY <1>2 DEF ExclusionInv, Disturbed, LateInv
<1> USE <1>3
<1>4. ASSUME NEW p \in Orders, NEW a \in Amounts, BeginCreate(p, a)
      PROVE  Exclusive(o)'
  <2>1. CASE p = o
    <3>1. status[o] = "none" /\ Settlers(o)' = Settlers(o)
      BY <1>4, <2>1 DEF BeginCreate, Settlers
    <3> QED
      BY <1>4, <3>1, SettledByFrame, ExclusiveIdle DEF BeginCreate, Exclusive
  <2>2. CASE p # o
    BY <1>4, <2>2, SettledByFrame, ExclusiveFrame
       DEF BeginCreate, Settlers, TypeInv, TypeOK
  <2> QED
    BY <2>1, <2>2
<1>5. ASSUME NEW p \in Orders, InsertOrder(p) PROVE Exclusive(o)'
  <2>1. CASE p = o
    <3>1. status[o] = "creating" /\ Settlers(o)' = Settlers(o)
      BY <1>5, <2>1 DEF InsertOrder, Settlers
    <3> QED
      BY <1>5, <3>1, SettledByFrame, ExclusiveIdle DEF InsertOrder, Exclusive
  <2>2. CASE p # o
    BY <1>5, <2>2, SettledByFrame, ExclusiveFrame
       DEF InsertOrder, Settlers, TypeInv, TypeOK
  <2> QED
    BY <2>1, <2>2
<1>6. ASSUME NEW r \in Requests, RequestStep(r) PROVE Exclusive(o)'
  <2>1. ASSUME NEW d \in Deliveries, ReceiveWebhook(r, d) PROVE Exclusive(o)'
    <3>1. \A q \in Requests : req'[q] = req[q]
                              \/ req'[q].pc \in {"lookup", "done"}
      BY <2>1, WebhookEffect
    <3> QED
      BY <2>1, <3>1, SettlersFrame, SettledByFrame, ExclusiveFrame
         DEF ReceiveWebhook
  <2>2. ASSUME NEW l \in Requests, NEW p \in Orders, BeginReconcile(r, l, p)
        PROVE  Exclusive(o)'
    <3>1. \A q \in Requests : req'[q] = req[q] \/ req'[q].pc = "read"
      BY <2>2 DEF BeginReconcile, NewRequest, TypeInv, TypeOK
    <3>2. status'[o] = status[o]
      BY <2>2 DEF BeginReconcile, TypeInv, TypeOK
    <3> QED
      BY <2>2, <3>1, <3>2, SettlersFrame, SettledByFrame, ExclusiveFrame
         DEF BeginReconcile
  <2>3. ASSUME NEW p \in Orders, VerifyManually(r, p) \/ BeginRegenerate(r, p)
        PROVE  Exclusive(o)'
    <3>1. \A q \in Requests : req'[q] = req[q]
                              \/ req'[q].pc \in {"settled", "claim", "saveQr"}
      <4>1. CASE VerifyManually(r, p)
        BY <4>1 DEF VerifyManually, NewRequest, TypeInv, TypeOK
      <4>2. CASE BeginRegenerate(r, p)
        BY <4>2 DEF BeginRegenerate, NewRequest, TypeInv, TypeOK
      <4> QED
        BY <2>3, <4>1, <4>2
    <3> QED
      BY <2>3, <3>1, SettlersFrame, SettledByFrame, ExclusiveFrame
         DEF VerifyManually, BeginRegenerate
  <2>4. CASE Lookup(r)
    <3>1. \A q \in Requests : req'[q] = req[q]
                              \/ req'[q].pc \in {"matchExpired", "claim"}
      BY <2>4, LookupEffect
    <3> QED
      BY <2>4, <3>1, SettlersFrame, SettledByFrame, ExclusiveFrame DEF Lookup
  <2>5. CASE MatchExpired(r)
    <3>1. \A q \in Requests : req'[q] = req[q] \/ req'[q].pc = "saveUnmatched"
      BY <2>5 DEF MatchExpired, TypeInv, TypeOK, Request
    <3> QED
      BY <2>5, <3>1, SettlersFrame, SettledByFrame, ExclusiveFrame
         DEF MatchExpired
  <2>6. CASE SaveUnmatched(r) \/ FinishWebhook(r) \/ FinishManual(r)
    BY <2>6, AnswerEffect, SettlersFrame, SettledByFrame, ExclusiveFrame
       DEF SaveUnmatched, FinishWebhook, FinishManual
  <2>7. CASE ReadReconciled(r)
    <3>1. \A q \in Requests : req'[q] = req[q]
                        \/ req'[q].pc \in {"settled", "claim", "done"}
      BY <2>7, AnswerEffect, GotoEffect DEF ReadReconciled
    <3> QED
      BY <2>7, <3>1, SettlersFrame, SettledByFrame, ExclusiveFrame
         DEF ReadReconciled
  <2>8. CASE Claim(r)
    <3>1. SettledBy(o)' = SettledBy(o)
      BY <2>8, SettledByFrame DEF Claim, Claimable
    <3>2. CASE status' = status /\ req'[r].pc = "refetch"
      BY <2>8, <3>1, <3>2, ClaimEffect, SettlersFrame, ExclusiveFrame
    <3>3. CASE /\ status[req[r].order] = "pending"
               /\ status' = [status EXCEPT ![req[r].order] = "processing"]
               /\ req'[r].pc = "router"
      <4>1. CASE req[r].order # o
        <5>1. Settlers(o)' \subseteq Settlers(o)
          BY <2>8, <4>1, ClaimEffect DEF Settlers
        <5> QED
          BY <3>1, <3>3, <4>1, <5>1, ExclusiveFrame DEF TypeInv, TypeOK
      <4>2. CASE req[r].order = o
        <5>1. Settlers(o) = {} /\ SettledBy(o)' = {}
          BY <3>1, <3>3, <4>2 DEF Exclusive
        <5>2. \A q \in Settlers(o)' : q = r
          BY <2>8, <5>1, ClaimEffect DEF Settlers
        <5>3. status'[o] = "processing"
          BY <3>3, <4>2 DEF TypeInv, TypeOK
        <5> QED
          BY <5>1, <5>2, <5>3 DEF Exclusive
      <4> QED
        BY <4>1, <4>2
    <3> QED
      BY <2>8, <3>2, <3>3, ClaimEffect
  <2>9. CASE Refetch(r) \/ DatabaseError(r)
    BY <2>9, GotoEffect, SettlersFrame, SettledByFrame, ExclusiveFrame
       DEF Refetch, DatabaseError
  <2>10. CASE RouterAdds(r) \/ RouterFails(r)
    BY <2>10, GotoEffect, SettlersFrame, SettledByFrame, ExclusiveFrame
       DEF RouterAdds, RouterFails
  <2>11. CASE Commit(r)
    <3>1. CASE req[r].order # o
      <4>1. status'[o] = status[o]
        BY <2>11, <3>1 DEF Commit, Stored, TypeInv, TypeOK
      <4>2. SettledBy(o)' = SettledBy(o)
        BY <2>11, <3>1 DEF Commit, SettledBy, SettlementRows
      <4>3. Settlers(o)' \subseteq Settlers(o)
        BY <2>11, GotoEffect, SettlersFrame DEF Commit
      <4> QED
        BY <4>1, <4>2, <4>3, ExclusiveFrame
    <3>2. CASE req[r].order = o
      <4>1. r \in Settlers(o)
        BY <2>11, <3>2 DEF Commit, Settlers
      <4>2. status[o] = "processing" /\ SettledBy(o) = {} /\ Settlers(o) = {r}
        BY <4>1 DEF Exclusive
      <4>3. status'[o] = "paid"
        BY <2>11, <3>2, <4>2 DEF Commit, Stored, TypeInv, TypeOK
      <4>4. Settlers(o)' = {}
        BY <2>11, <4>2, GotoEffect DEF Commit, Settlers
      <4>5. \A q \in SettledBy(o)' : q = r
        BY <2>11, <4>2 DEF Commit, SettledBy, SettlementRows
      <4> QED
        BY <4>3, <4>4, <4>5 DEF Exclusive
    <3> QED
      BY <3>1, <3>2
  <2>12. CASE Undo(r)
    <3>1. SettledBy(o)' = SettledBy(o)
      BY <2>12, SettledByFrame DEF Undo
    <3>2. CASE req[r].order # o
      <4>1. status'[o] = status[o]
        BY <2>12, <3>2 DEF Undo, Stored, TypeInv, TypeOK
      <4>2. Settlers(o)' \subseteq Settlers(o)
        BY <2>12, GotoEffect, SettlersFrame DEF Undo
      <4> QED
        BY <3>1, <4>1, <4>2, ExclusiveFrame
    <3>3. CASE req[r].order = o
      <4>1. r \in Settlers(o)
        BY <2>12, <3>3 DEF Undo, Settlers
      <4>2. status[o] = "processing" /\ SettledBy(o) = {} /\ Settlers(o) = {r}
        BY <4>1 DEF Exclusive
      <4>3. Settlers(o)' = {}
        BY <2>12, <4>2, GotoEffect DEF Undo, Settlers
      <4> QED
        BY <3>1, <4>2, <4>3, ExclusiveIdle
    <3> QED
      BY <3>2, <3>3
  <2>13. CASE FinishReconcile(r)
    <3>1. req[r].order # o
      BY <2>13 DEF FinishReconcile, Released, LateInv
    <3>2. status'[o] = status[o]
      BY <2>13, <3>1 DEF FinishReconcile, Released, TypeInv, TypeOK
    <3> QED
      BY <2>13, <3>2, AnswerEffect, SettlersFrame, SettledByFrame,
         ExclusiveFrame DEF FinishReconcile, Released
  <2>14. CASE SaveQr(r)
    <3>1. status'[o] = status[o]
      BY <2>14 DEF SaveQr, TypeInv, TypeOK
    <3> QED
      BY <2>14, <3>1, AnswerEffect, SettlersFrame, SettledByFrame,
         ExclusiveFrame DEF SaveQr
  <2> QED
    BY <1>6, <2>1, <2>2, <2>3, <2>4, <2>5, <2>6, <2>7, <2>8, <2>9, <2>10,
       <2>11, <2>12, <2>13, <2>14 DEF RequestStep
<1>7. CASE ExpireStaleOrders \/ PruneOldUnpaidOrders
  <2>1. status'[o] = status[o] /\ Settlers(o)' = Settlers(o)
    BY <1>7 DEF ExpireStaleOrders, Expirable, PruneOldUnpaidOrders, Settlers
  <2> QED
    BY <1>7, <2>1, SettledByFrame, ExclusiveFrame
       DEF ExpireStaleOrders, Expirable, PruneOldUnpaidOrders
<1>8. ASSUME NEW p \in Orders, Lapse(p) \/ AgeOut(p) PROVE Exclusive(o)'
  BY <1>8, SettledByFrame, ExclusiveFrame DEF Lapse, AgeOut, Settlers
<1>9. CASE Crash
  <2>1. Settlers(o)' = {} /\ SettledBy(o)' = SettledBy(o)
    BY <1>9, SettledByFrame DEF Crash, Settlers, InFlight, NewRequest, TypeInv,
                                TypeOK
  <2> QED
    BY <1>9, <2>1 DEF Crash, Exclusive
<1>10. CASE UNCHANGED vars
  BY <1>10, SettledByFrame, ExclusiveFrame DEF vars, Settlers
<1> QED
  BY <1>4, <1>5, <1>6, <1>7, <1>8, <1>9, <1>10 DEF Next

LEMMA ExclusionInvariant == Spec => []ExclusionInv
<1>1. Init => ExclusionInv
  <2>1. Init => LateInv
    BY DEF Init, LateInv, NewRequest
  <2>2. Init => \A o \in Orders : Exclusive(o)
    BY DEF Init, Exclusive, Settlers, SettledBy, NewRequest
  <2> QED
    BY <2>1, <2>2, TypeInit DEF ExclusionInv
<1> QED
  BY <1>1, ExclusionStep, PTL DEF Spec

(* The conditional UPDATE of settleOrder is a lock: however webhooks,      *)
(* manual verifications, reconciliations, failures and crashes interleave, *)
(* an order that has neither passed its expiry nor been written over by a  *)
(* QR save is being settled by at most one request, and by none once paid. *)
THEOREM ExclusiveSettlement == Spec => []OneSettlerAtATime
<1>1. ExclusionInv => OneSettlerAtATime
  BY DEF ExclusionInv, Exclusive, OneSettlerAtATime
<1> QED
  BY <1>1, ExclusionInvariant, PTL

(* Under the same condition an order is handed to the outbox at most once, *)
(* and stays paid from then on.                                            *)
THEOREM SoldAtMostOnce == Spec => []SoldOnce
<1>1. ExclusionInv => SoldOnce
  BY DEF ExclusionInv, Exclusive, SoldOnce
<1> QED
  BY <1>1, ExclusionInvariant, PTL

-----------------------------------------------------------------------------
(* What a paid order and an outbox row stand for. *)

RouterInv ==
  /\ VoucherIsOnRouter
  /\ \A r \in Requests : req[r].pc = "commit" => req[r].user \in router

(* The voucher of a paid order, and of every event in the outbox, exists   *)
(* on the router: settleOrder commits only after the router has answered.  *)
THEOREM PaidVoucherExists == Spec => []VoucherIsOnRouter
<1>1. Init => RouterInv
  BY DEF Init, RouterInv, VoucherIsOnRouter, NewRequest
<1>2. TypeInv /\ RouterInv /\ [Next]_vars => RouterInv'
  <2> SUFFICES ASSUME TypeInv, RouterInv, [Next]_vars PROVE RouterInv'
    OBVIOUS
  <2> USE DEF RouterInv, VoucherIsOnRouter
  <2>1. ASSUME \A o \in Orders : status'[o] = "paid" =>
                   status[o] = "paid" /\ creds'[o] = creds[o],
               outbox' = outbox, router \subseteq router',
               \A q \in Requests : req'[q].pc = "commit" => req'[q] = req[q]
        PROVE  RouterInv'
    BY <2>1
  <2>2. ASSUME NEW o \in Orders, NEW a \in Amounts, BeginCreate(o, a)
        PROVE  RouterInv'
    BY <2>1, <2>2 DEF BeginCreate, TypeInv, TypeOK
  <2>3. ASSUME NEW o \in Orders, InsertOrder(o) PROVE RouterInv'
    BY <2>1, <2>3 DEF InsertOrder, TypeInv, TypeOK
  <2>4. ASSUME NEW r \in Requests, RequestStep(r) PROVE RouterInv'
    <3>1. ASSUME NEW d \in Deliveries, ReceiveWebhook(r, d) PROVE RouterInv'
      <4>1. \A q \in Requests : req'[q] = req[q]
                                \/ req'[q].pc \in {"lookup", "done"}
        BY <3>1, WebhookEffect
      <4> QED
        BY <2>1, <3>1, <4>1 DEF ReceiveWebhook
    <3>2. ASSUME NEW l \in Requests, NEW o \in Orders, BeginReconcile(r, l, o)
          PROVE  RouterInv'
      <4>1. \A q \in Requests : req'[q] = req[q] \/ req'[q].pc = "read"
        BY <3>2 DEF BeginReconcile, NewRequest, TypeInv, TypeOK
      <4> QED
        BY <2>1, <3>2, <4>1 DEF BeginReconcile, TypeInv, TypeOK
    <3>3. ASSUME NEW o \in Orders, VerifyManually(r, o) PROVE RouterInv'
      <4>1. \A q \in Requests : req'[q] = req[q]
                                \/ req'[q].pc \in {"settled", "claim"}
        BY <3>3 DEF VerifyManually, NewRequest, TypeInv, TypeOK
      <4> QED
        BY <2>1, <3>3, <4>1 DEF VerifyManually
    <3>4. ASSUME NEW o \in Orders, BeginRegenerate(r, o) PROVE RouterInv'
      <4>1. \A q \in Requests : req'[q] = req[q] \/ req'[q].pc = "saveQr"
        BY <3>4 DEF BeginRegenerate, NewRequest, TypeInv, TypeOK
      <4> QED
        BY <2>1, <3>4, <4>1 DEF BeginRegenerate
    <3>5. CASE Lookup(r)
      <4>1. \A q \in Requests : req'[q] = req[q]
                                \/ req'[q].pc \in {"matchExpired", "claim"}
        BY <3>5, LookupEffect
      <4> QED
        BY <2>1, <3>5, <4>1 DEF Lookup
    <3>6. CASE MatchExpired(r)
      <4>1. \A q \in Requests : req'[q] = req[q] \/ req'[q].pc = "saveUnmatched"
        BY <3>6 DEF MatchExpired, TypeInv, TypeOK, Request
      <4> QED
        BY <2>1, <3>6, <4>1 DEF MatchExpired
    <3>7. CASE SaveUnmatched(r) \/ FinishWebhook(r) \/ FinishManual(r)
      BY <2>1, <3>7, AnswerEffect DEF SaveUnmatched, FinishWebhook, FinishManual
    <3>8. CASE ReadReconciled(r)
      <4>1. \A q \in Requests : req'[q] = req[q]
                          \/ req'[q].pc \in {"settled", "claim", "done"}
        BY <3>8, AnswerEffect, GotoEffect DEF ReadReconciled
      <4> QED
        BY <2>1, <3>8, <4>1 DEF ReadReconciled
    <3>9. CASE Claim(r)
      <4>1. \A o \in Orders : status'[o] = "paid" => status[o] = "paid"
        BY <3>9, ClaimEffect DEF TypeInv, TypeOK
      <4>2. \A q \in Requests : req'[q] = req[q]
                                \/ req'[q].pc \in {"router", "refetch"}
        BY <3>9, ClaimEffect
      <4> QED
        BY <2>1, <3>9, <4>1, <4>2 DEF Claim, Claimable
    <3>10. CASE Refetch(r) \/ DatabaseError(r)
      BY <2>1, <3>10, GotoEffect DEF Refetch, DatabaseError
    <3>11. CASE RouterAdds(r)
      BY <3>11, GotoEffect DEF RouterAdds
    <3>12. CASE RouterFails(r)
      BY <2>1, <3>12, GotoEffect DEF RouterFails
    <3>13. CASE Commit(r)
      <4>1. req[r].user \in router /\ router' = router
        BY <3>13 DEF Commit
      <4>2. \A o \in Orders : status'[o] = "paid" => creds'[o] \in router
        BY <3>13, <4>1 DEF Commit, Stored, TypeInv, TypeOK
      <4>3. \A row \in outbox' : row.user \in router
        BY <3>13, <4>1 DEF Commit, SettlementRows
      <4> QED
        BY <3>13, <4>1, <4>2, <4>3, GotoEffect DEF Commit
    <3>14. CASE Undo(r)
      <4>1. \A o \in Orders : status'[o] = "paid" => status[o] = "paid"
        BY <3>14 DEF Undo, Stored, TypeInv, TypeOK
      <4> QED
        BY <2>1, <3>14, <4>1, GotoEffect DEF Undo
    <3>15. CASE FinishReconcile(r)
      <4>1. \A o \in Orders : status'[o] = "paid" => status[o] = "paid"
        BY <3>15 DEF FinishReconcile, Released, TypeInv, TypeOK
      <4> QED
        BY <2>1, <3>15, <4>1, AnswerEffect DEF FinishReconcile, Released
    <3>16. CASE SaveQr(r)
      <4>1. \A o \in Orders : status'[o] = "paid" =>
                status[o] = "paid" /\ creds'[o] = creds[o]
        BY <3>16 DEF SaveQr, TypeInv, TypeOK
      <4> QED
        BY <2>1, <3>16, <4>1, AnswerEffect DEF SaveQr
    <3> QED
      BY <2>4, <3>1, <3>2, <3>3, <3>4, <3>5, <3>6, <3>7, <3>8, <3>9, <3>10,
         <3>11, <3>12, <3>13, <3>14, <3>15, <3>16 DEF RequestStep
  <2>5. CASE ExpireStaleOrders \/ PruneOldUnpaidOrders
    BY <2>1, <2>5 DEF ExpireStaleOrders, Expirable, PruneOldUnpaidOrders
  <2>6. ASSUME NEW o \in Orders, Lapse(o) \/ AgeOut(o) PROVE RouterInv'
    BY <2>1, <2>6 DEF Lapse, AgeOut
  <2>7. CASE Crash
    BY <2>1, <2>7 DEF Crash, NewRequest
  <2>8. CASE UNCHANGED vars
    BY <2>1, <2>8 DEF vars
  <2> QED
    BY <2>2, <2>3, <2>4, <2>5, <2>6, <2>7, <2>8 DEF Next
<1>3. RouterInv => VoucherIsOnRouter
  BY DEF RouterInv
<1> QED
  BY <1>1, <1>2, <1>3, TypeInvariant, PTL DEF Spec
(* Nothing but a commit enqueues anything, makes an order paid or changes   *)
(* the voucher of a paid one.                                               *)
NothingSold ==
  /\ outbox' = outbox
  /\ \A o \in Orders : status'[o] = "paid" =>
       status[o] = "paid" /\ creds'[o] = creds[o]

LEMMA OnlyCommitSells ==
  ASSUME TypeInv, [Next]_vars
  PROVE  NothingSold \/ \E r \in Requests : Commit(r)
<1> USE DEF NothingSold, TypeInv, TypeOK
<1>1. ASSUME NEW o \in Orders, NEW a \in Amounts, BeginCreate(o, a)
      PROVE  NothingSold
  BY <1>1 DEF BeginCreate
<1>2. ASSUME NEW o \in Orders, InsertOrder(o) PROVE NothingSold
  BY <1>2 DEF InsertOrder
<1>3. ASSUME NEW r \in Requests, RequestStep(r), ~Commit(r)
      PROVE  NothingSold
  <2>1. ASSUME NEW d \in Deliveries, ReceiveWebhook(r, d) PROVE NothingSold
    BY <2>1 DEF ReceiveWebhook
  <2>2. ASSUME NEW l \in Requests, NEW o \in Orders, BeginReconcile(r, l, o)
        PROVE  NothingSold
    BY <2>2 DEF BeginReconcile
  <2>3. ASSUME NEW o \in Orders, VerifyManually(r, o) \/ BeginRegenerate(r, o)
        PROVE  NothingSold
    BY <2>3 DEF VerifyManually, BeginRegenerate
  <2>4. CASE Lookup(r) \/ MatchExpired(r) \/ SaveUnmatched(r) \/ ReadReconciled(r)
    BY <2>4 DEF Lookup, MatchExpired, SaveUnmatched, ReadReconciled
  <2>5. CASE Claim(r)
    <3>1. \A o \in Orders : status'[o] = "paid" => status[o] = "paid"
      BY <2>5, ClaimEffect
    <3>2. outbox' = outbox /\ creds' = creds
      BY <2>5 DEF Claim
    <3> QED
      BY <3>1, <3>2
  <2>6. CASE Refetch(r) \/ RouterAdds(r) \/ RouterFails(r) \/ DatabaseError(r)
    BY <2>6 DEF Refetch, RouterAdds, RouterFails, DatabaseError
  <2>7. CASE Undo(r)
    BY <2>7 DEF Undo, Stored
  <2>8. CASE FinishWebhook(r) \/ FinishManual(r)
    BY <2>8 DEF FinishWebhook, FinishManual
  <2>9. CASE FinishReconcile(r)
    BY <2>9 DEF FinishReconcile
  <2>10. CASE SaveQr(r)
    BY <2>10 DEF SaveQr
  <2> QED
    BY <1>3, <2>1, <2>2, <2>3, <2>4, <2>5, <2>6, <2>7, <2>8, <2>9, <2>10
       DEF RequestStep
<1>4. CASE ExpireStaleOrders \/ PruneOldUnpaidOrders
  BY <1>4 DEF ExpireStaleOrders, PruneOldUnpaidOrders
<1>5. ASSUME NEW o \in Orders, Lapse(o) \/ AgeOut(o) PROVE NothingSold
  BY <1>5 DEF Lapse, AgeOut
<1>6. CASE Crash
  BY <1>6 DEF Crash
<1>7. CASE UNCHANGED vars
  BY <1>7 DEF vars
<1> QED
  BY <1>1, <1>2, <1>3, <1>4, <1>5, <1>6, <1>7 DEF Next

(* A paid order and its two outbox rows are committed in one transaction.   *)
LEMMA CommitAnnounces ==
  ASSUME TypeInv, PaidIsAnnounced, NEW r \in Requests, Commit(r)
  PROVE  PaidIsAnnounced'
<1> DEFINE o == req[r].order  u == req[r].user
<1>1. o \in Orders /\ u \in Users
  BY DEF Commit, TypeInv, RequestShape, Shape
<1>2. outbox' = outbox \cup SettlementRows(o, u, r)
  BY DEF Commit
<1>3. \A p \in Orders \ {o} : status'[p] = status[p] /\ creds'[p] = creds[p]
  BY DEF Commit, Stored, TypeInv, TypeOK
<1>4. status'[o] = "paid" => creds'[o] = u
  BY <1>1 DEF Commit, Stored, TypeInv, TypeOK
<1>5. /\ \A t \in Topics : [topic |-> t, order |-> o, user |-> u, by |-> r]
                             \in SettlementRows(o, u, r)
      /\ \A row \in SettlementRows(o, u, r) :
           /\ row.order = o /\ row.user = u
           /\ \A t \in Topics : [row EXCEPT !.topic = t] \in SettlementRows(o, u, r)
  BY DEF SettlementRows
<1> DEFINE sale == [topic |-> "ORDER_SETTLED", order |-> o, user |-> u, by |-> r]
<1>6. sale \in outbox' /\ sale.order = o /\ sale.user = u
  BY <1>2, <1>5 DEF Topics
<1> HIDE DEF sale, o, u
<1>7. ASSUME NEW p \in Orders, status'[p] = "paid"
      PROVE  \E row \in outbox' : row.order = p /\ row.user = creds'[p]
  <2>1. CASE p = o
    BY <1>4, <1>6, <1>7, <2>1
  <2>2. CASE p # o
    BY <1>2, <1>3, <1>7, <2>2 DEF PaidIsAnnounced
  <2> QED
    BY <2>1, <2>2
<1>8. ASSUME NEW row \in outbox', NEW t \in Topics
      PROVE  [row EXCEPT !.topic = t] \in outbox'
  <2>1. CASE row \in outbox
    BY <1>2, <2>1 DEF PaidIsAnnounced
  <2>2. CASE row \in SettlementRows(o, u, r)
    BY <1>2, <1>5, <2>2
  <2> QED
    BY <1>2, <2>1, <2>2
<1> QED
  BY <1>7, <1>8 DEF PaidIsAnnounced

(* A paid order has both of its events in the outbox, under its own voucher, *)
(* and no event of a settlement is there without the other.                  *)
THEOREM PaidAndAnnounced == Spec => []PaidIsAnnounced
<1>1. Init => PaidIsAnnounced
  BY DEF Init, PaidIsAnnounced
<1>2. TypeInv /\ PaidIsAnnounced /\ [Next]_vars => PaidIsAnnounced'
  <2> SUFFICES ASSUME TypeInv, PaidIsAnnounced, [Next]_vars
               PROVE  PaidIsAnnounced'
    OBVIOUS
  <2>1. CASE NothingSold
    BY <2>1 DEF NothingSold, PaidIsAnnounced
  <2>2. ASSUME NEW r \in Requests, Commit(r) PROVE PaidIsAnnounced'
    BY <2>2, CommitAnnounces
  <2> QED
    BY <2>1, <2>2, OnlyCommitSells
<1> QED
  BY <1>1, <1>2, TypeInvariant, PTL DEF Spec

-----------------------------------------------------------------------------
(* Paid is final. *)

(* An order that is paid, with no settlement and no QR save under way.       *)
Closed(o) ==
  /\ status[o] = "paid"
  /\ Settlers(o) = {}
  /\ \A r \in Requests : req[r].pc = "saveQr" => req[r].order # o

LEMMA ClosedRequestStep ==
  ASSUME TypeInv, NEW o \in Orders, Closed(o), NEW r \in Requests, RequestStep(r)
  PROVE  status'[o] = "paid"
<1> USE DEF TypeInv, TypeOK
<1>1. /\ status[o] = "paid"
      /\ req[r].pc \in {"router", "commit", "undo", "saveQr"} => req[r].order # o
  BY DEF Closed, Settlers
<1>2. ASSUME NEW d \in Deliveries, ReceiveWebhook(r, d) PROVE status'[o] = "paid"
  BY <1>1, <1>2 DEF ReceiveWebhook
<1>3. ASSUME NEW l \in Requests, NEW p \in Orders, BeginReconcile(r, l, p)
      PROVE  status'[o] = "paid"
  BY <1>1, <1>3 DEF BeginReconcile
<1>4. ASSUME NEW p \in Orders, VerifyManually(r, p) \/ BeginRegenerate(r, p)
      PROVE  status'[o] = "paid"
  BY <1>1, <1>4 DEF VerifyManually, BeginRegenerate
<1>5. CASE Lookup(r) \/ MatchExpired(r) \/ SaveUnmatched(r) \/ ReadReconciled(r)
           \/ Refetch(r) \/ RouterAdds(r) \/ RouterFails(r) \/ DatabaseError(r)
           \/ FinishWebhook(r) \/ FinishManual(r)
  BY <1>1, <1>5 DEF Lookup, MatchExpired, SaveUnmatched, ReadReconciled, Refetch,
     RouterAdds, RouterFails, DatabaseError, FinishWebhook, FinishManual
<1>6. CASE Claim(r)
  BY <1>1, <1>6, ClaimEffect
<1>7. CASE Commit(r) \/ Undo(r)
  BY <1>1, <1>7 DEF Commit, Undo, Stored
<1>8. CASE FinishReconcile(r)
  BY <1>1, <1>8 DEF FinishReconcile
<1>9. CASE SaveQr(r)
  BY <1>1, <1>9 DEF SaveQr
<1> QED
  BY <1>2, <1>3, <1>4, <1>5, <1>6, <1>7, <1>8, <1>9 DEF RequestStep

LEMMA ClosedStep ==
  ASSUME TypeInv, [Next]_vars, NEW o \in Orders, Closed(o)
  PROVE  status'[o] = "paid"
<1> USE DEF TypeInv, TypeOK
<1>1. status[o] = "paid"
  BY DEF Closed
<1>2. ASSUME NEW p \in Orders, NEW a \in Amounts, BeginCreate(p, a)
      PROVE  status'[o] = "paid"
  BY <1>1, <1>2 DEF BeginCreate
<1>3. ASSUME NEW p \in Orders, InsertOrder(p) PROVE status'[o] = "paid"
  BY <1>1, <1>3 DEF InsertOrder
<1>4. ASSUME NEW r \in Requests, RequestStep(r) PROVE status'[o] = "paid"
  BY <1>4, ClosedRequestStep
<1>5. CASE ExpireStaleOrders \/ PruneOldUnpaidOrders
  BY <1>1, <1>5 DEF ExpireStaleOrders, Expirable, PruneOldUnpaidOrders
<1>6. ASSUME NEW p \in Orders, Lapse(p) \/ AgeOut(p) PROVE status'[o] = "paid"
  BY <1>1, <1>6 DEF Lapse, AgeOut
<1>7. CASE Crash
  BY <1>1, <1>7 DEF Crash
<1>8. CASE UNCHANGED vars
  BY <1>1, <1>8 DEF vars
<1> QED
  BY <1>2, <1>3, <1>4, <1>5, <1>6, <1>7, <1>8 DEF Next

(* No sweep, webhook, reconciliation or crash takes an order out of "paid":  *)
(* only a settlement or a QR save that is already under way does.            *)
THEOREM PaidStaysPaid == Spec => PaidIsFinal
<1>1. TypeInv /\ [Next]_vars =>
        [\A o \in Orders :
           /\ status[o] = "paid"
           /\ Settlers(o) = {}
           /\ \A r \in Requests : req[r].pc = "saveQr" => req[r].order # o
           => status'[o] = "paid"]_vars
  BY ClosedStep DEF Closed
<1> QED
  BY <1>1, TypeInvariant, PTL DEF Spec, PaidIsFinal
=============================================================================
