-------------------------- MODULE UserAccountsProofs --------------------------
(***************************************************************************)
(* Proofs about UserAccounts, for every number of users and requests and   *)
(* every set of usernames and passwords.                                   *)
(***************************************************************************)
EXTENDS UserAccounts, FiniteSetTheorems, TLAPS

(* The shape a request has at each of its awaits. *)
Shape(r) ==
  /\ req[r].pc \in {"count", "save", "delete", "revokeOld", "issue"}
       => req[r].user \in Times
  /\ req[r].pc = "touch" => req[r].token \in Token
  /\ req[r].pc = "save" => req[r].entity \in Row
  /\ req[r].pc = "count" => req[r].entity \in Row \/ req[r].kind = "delete"
  /\ req[r].pc = "delete" => req[r].kind = "delete"
  /\ req[r].kind = "delete" => req[r].entity = NoRow

TypeInv == TypeOK /\ \A r \in Requests : Shape(r)

LEMMA DoneIsRequest ==
  /\ NewRequest \in Request /\ Done \in Request
  /\ Done.pc = "done" /\ Done.kind = "none" /\ ~Done.overtaken
  BY DEF NewRequest, Done, Request

LEMMA NoRowNotRow == NoRow \notin Row
  BY DEF NoRow, Row

(* A request replaced by a well-shaped one leaves the table well typed. *)
LEMMA ReplaceTypes ==
  ASSUME TypeInv, NEW r \in Requests, NEW new \in Request,
         req' = [req EXCEPT ![r] = new],
         new.pc \in {"count", "save", "delete", "revokeOld", "issue"}
           => new.user \in Times,
         new.pc = "touch" => new.token \in Token,
         new.pc = "save" => new.entity \in Row,
         new.pc = "count" => new.entity \in Row \/ new.kind = "delete",
         new.pc = "delete" => new.kind = "delete",
         new.kind = "delete" => new.entity = NoRow
  PROVE  req' \in [Requests -> Request] /\ \A q \in Requests : Shape(q)'
  BY DEF TypeInv, TypeOK, Shape

LEMMA EndTypes ==
  ASSUME TypeInv, NEW r \in Requests, End(r)
  PROVE  req' \in [Requests -> Request] /\ \A q \in Requests : Shape(q)'
<1>1. /\ Done \in Request /\ Done.pc = "done" /\ Done.kind = "none"
  BY DoneIsRequest
<1> QED
  BY <1>1, ReplaceTypes DEF End

(* The effect of reading a user. *)
LEMMA LoadedEffect ==
  ASSUME TypeInv, NEW r \in Requests,
         NEW kind \in {"create", "update", "login", "mobileLogin", "delete"},
         NEW u \in Times, NEW row \in Row \cup {NoRow},
         kind = "delete" => row = NoRow,
         kind # "delete" => row \in Row,
         Loaded(r, kind, u, row)
  PROVE  /\ req' \in [Requests -> Request] /\ \A q \in Requests : Shape(q)'
         /\ \A q \in Requests \ {r} : req'[q] = req[q]
         /\ req'[r].pc # "issue"
         /\ req'[r].pc \in {"save", "delete"} =>
              ~DropsAdmin(users[req'[r].user], req'[r].entity)
<1> DEFINE pc == IF DropsAdmin(users[u], row) THEN "count"
                 ELSE IF kind = "delete" THEN "delete" ELSE "save"
           new == [NewRequest EXCEPT !.kind = kind, !.user = u,
                                     !.entity = row, !.pc = pc]
<1>1. /\ pc \in {"count", "save", "delete"}
      /\ pc # "count" => ~DropsAdmin(users[u], row)
      /\ pc = "save" => kind # "delete"
      /\ pc = "delete" => kind = "delete"
  OBVIOUS
<1>2. req' = [req EXCEPT ![r] = new]
  BY DEF Loaded
<1> HIDE DEF pc
<1>3. /\ new \in Request
      /\ new.kind = kind /\ new.user = u /\ new.entity = row /\ new.pc = pc
  BY <1>1 DEF NewRequest, Request
<1> HIDE DEF new
<1>4. req' \in [Requests -> Request] /\ \A q \in Requests : Shape(q)'
  BY <1>1, <1>2, <1>3, ReplaceTypes
<1>5. req'[r] = new /\ \A q \in Requests \ {r} : req'[q] = req[q]
  BY <1>2 DEF TypeInv, TypeOK
<1> QED
  BY <1>1, <1>3, <1>4, <1>5

(* The effect of a write on the other requests. *)
LEMMA WritesEffect ==
  ASSUME TypeInv, NEW r \in Requests, NEW next \in Request, NEW pcs,
         Writes(r, next, pcs),
         next.pc \in {"done", "revokeOld"},
         next.pc = "revokeOld" => next.user \in Times,
         next.kind # "delete"
  PROVE  /\ req' \in [Requests -> Request] /\ \A q \in Requests : Shape(q)'
         /\ req'[r] = next
         /\ \A q \in Requests \ {r} :
              /\ req'[q].pc = req[q].pc /\ req'[q].user = req[q].user
              /\ req[q].overtaken => req'[q].overtaken
              /\ req[q].pc \in pcs => req'[q].overtaken
<1>1. req'[r] = next
  BY DEF Writes
<1>2. ASSUME NEW q \in Requests \ {r}
      PROVE  /\ req'[q] \in Request
             /\ req'[q].pc = req[q].pc /\ req'[q].user = req[q].user
             /\ req'[q].kind = req[q].kind /\ req'[q].token = req[q].token
             /\ req'[q].entity = req[q].entity
             /\ req[q].overtaken => req'[q].overtaken
             /\ req[q].pc \in pcs => req'[q].overtaken
  <2>1. req[q] \in Request
    BY DEF TypeInv, TypeOK
  <2>2. CASE req[q].pc \in pcs
    <3>1. req'[q] = [req[q] EXCEPT !.overtaken = TRUE]
      BY <2>2 DEF Writes
    <3> QED
      BY <2>1, <3>1 DEF Request
  <2>3. CASE req[q].pc \notin pcs
    BY <2>1, <2>3 DEF Writes
  <2> QED
    BY <2>2, <2>3
<1>3. req' \in [Requests -> Request]
  <2>1. \A q \in Requests : req'[q] \in Request
    BY <1>1, <1>2
  <2> QED
    BY <2>1 DEF Writes
<1>4. ASSUME NEW q \in Requests PROVE Shape(q)'
  <2>1. CASE q = r
    BY <1>1, <2>1 DEF Shape
  <2>2. CASE q # r
    BY <1>2, <2>2 DEF Shape, TypeInv
  <2> QED
    BY <2>1, <2>2
<1> QED
  BY <1>1, <1>2, <1>3, <1>4

-----------------------------------------------------------------------------
(* Types *)

LEMMA TypeInit == Init => TypeInv
<1> SUFFICES ASSUME Init PROVE TypeInv
  OBVIOUS
<1>1. Seed \in Row
  BY NamesAssumption DEF Seed, Row
<1>2. TypeOK
  BY <1>1, DoneIsRequest, BoundsAssumption DEF Init, TypeOK, Times
<1>3. \A r \in Requests : Shape(r)
  BY DEF Init, Shape, NewRequest
<1> QED
  BY <1>2, <1>3 DEF TypeInv

(* Reading a user, or not finding one. *)
LEMMA FirstReadTypes ==
  ASSUME TypeInv, NEW r \in Requests,
         \/ End(r)
         \/ \E kind \in {"create", "update", "login", "mobileLogin"},
               u \in Times, row \in Row : Loaded(r, kind, u, row)
         \/ \E u \in Times : Loaded(r, "delete", u, NoRow)
  PROVE  req' \in [Requests -> Request] /\ \A q \in Requests : Shape(q)'
<1>1. CASE End(r)
  BY <1>1, EndTypes
<1>2. ASSUME NEW kind \in {"create", "update", "login", "mobileLogin"},
             NEW u \in Times, NEW row \in Row, Loaded(r, kind, u, row)
      PROVE  req' \in [Requests -> Request] /\ \A q \in Requests : Shape(q)'
  <2>1. kind # "delete"
    OBVIOUS
  <2> QED
    BY <1>2, <2>1, LoadedEffect
<1>3. ASSUME NEW u \in Times, Loaded(r, "delete", u, NoRow)
      PROVE  req' \in [Requests -> Request] /\ \A q \in Requests : Shape(q)'
  BY <1>3, LoadedEffect
<1> QED
  BY <1>1, <1>2, <1>3

(* A request that reads first: the operations of UserService. *)
FirstRead(r) ==
  \/ \E n \in Usernames, role \in {"admin", "reseller"}, p \in Passwords :
       Create(r, n, role, p)
  \/ \E u \in Times, role \in {"admin", "reseller"}, active \in BOOLEAN :
       Update(r, u, role, active)
  \/ \E u \in Times : ToggleActive(r, u)
  \/ \E u \in Times, p \in Passwords : ResetPassword(r, u, p)
  \/ \E u \in Times, old, p \in Passwords : ChangePassword(r, u, old, p)
  \/ \E u \in Times : Delete(r, u)
  \/ \E kind \in {"login", "mobileLogin"}, n \in Usernames, p \in Passwords :
       Login(r, kind, n, p)

LEMMA FirstReadEffect ==
  ASSUME TypeInv, NEW r \in Requests, FirstRead(r)
  PROVE  /\ UNCHANGED <<users, tokens, expired, now, raced, restarts>>
         /\ \/ End(r)
            \/ \E kind \in {"create", "update", "login", "mobileLogin"},
                  u \in Times, row \in Row : Loaded(r, kind, u, row)
            \/ \E u \in Times : Loaded(r, "delete", u, NoRow)
<1>1. \A u \in Times : Exists(u) => users[u] \in Row
  BY DEF Exists, TypeInv, TypeOK
<1>2. UNCHANGED <<users, tokens, expired, now, raced, restarts>>
  BY DEF FirstRead, Create, Update, ToggleActive, ResetPassword,
         ChangePassword, Delete, Login, KeepTokens, KeepClock
<1>3. ASSUME NEW n \in Usernames, NEW role \in {"admin", "reseller"},
             NEW p \in Passwords, Create(r, n, role, p), ~End(r)
      PROVE  \E u \in Times, row \in Row : Loaded(r, "create", u, row)
  <2>1. [name |-> n, password |-> p, role |-> role, active |-> TRUE] \in Row
    BY DEF Row
  <2> QED
    BY <1>3, <2>1 DEF Create
<1>4. ASSUME NEW u \in Times, NEW role \in {"admin", "reseller"},
             NEW active \in BOOLEAN, Update(r, u, role, active), ~End(r)
      PROVE  \E row \in Row : Loaded(r, "update", u, row)
  <2>1. Exists(u) => [users[u] EXCEPT !.role = role, !.active = active] \in Row
    BY <1>1 DEF Row
  <2> QED
    BY <1>4, <2>1 DEF Update
<1>5. ASSUME NEW u \in Times, NEW p \in Passwords, ~End(r),
             ResetPassword(r, u, p)
               \/ \E old \in Passwords : ChangePassword(r, u, old, p)
      PROVE  \E row \in Row : Loaded(r, "update", u, row)
  <2>1. Exists(u) => [users[u] EXCEPT !.password = p] \in Row
    BY <1>1 DEF Row
  <2> QED
    BY <1>5, <2>1 DEF ResetPassword, ChangePassword
<1>6. ASSUME NEW u \in Times, Delete(r, u), ~End(r)
      PROVE  Loaded(r, "delete", u, NoRow)
  BY <1>6 DEF Delete
<1>7. ASSUME NEW kind \in {"login", "mobileLogin"}, NEW n \in Usernames,
             NEW p \in Passwords, Login(r, kind, n, p), ~End(r)
      PROVE  \E u \in Times, row \in Row : Loaded(r, kind, u, row)
  BY <1>1, <1>7 DEF Login, Named
<1>8. ASSUME NEW u \in Times, ToggleActive(r, u), ~End(r)
      PROVE  \E row \in Row : Loaded(r, "update", u, row)
  <2>1. Exists(u) => [users[u] EXCEPT !.active = ~@] \in Row
    BY <1>1 DEF Row
  <2> QED
    BY <1>8, <2>1 DEF ToggleActive
<1> QED
  BY <1>2, <1>3, <1>4, <1>5, <1>6, <1>7, <1>8 DEF FirstRead

LEMMA CountEffect ==
  ASSUME TypeInv, NEW r \in Requests, Count(r)
  PROVE  /\ UNCHANGED <<users, tokens, expired, now, raced, restarts>>
         /\ req' \in [Requests -> Request] /\ \A q \in Requests : Shape(q)'
         /\ \A q \in Requests \ {r} : req'[q] = req[q]
         /\ req'[r].pc # "issue"
         /\ req'[r].pc \in {"save", "delete"} =>
              OtherActiveAdmins(req'[r].user) # {}
<1>1. UNCHANGED <<users, tokens, expired, now, raced, restarts>>
  BY DEF Count, KeepTokens, KeepClock
<1>2. CASE OtherActiveAdmins(req[r].user) = {}
  <2>1. End(r)
    BY <1>2 DEF Count
  <2>2. req'[r] = Done /\ \A q \in Requests \ {r} : req'[q] = req[q]
    BY <2>1 DEF End, TypeInv, TypeOK
  <2> QED
    BY <1>1, <2>1, <2>2, EndTypes, DoneIsRequest
<1>3. CASE OtherActiveAdmins(req[r].user) # {}
  <2> DEFINE pc == IF req[r].kind = "delete" THEN "delete" ELSE "save"
             new == [req[r] EXCEPT !.pc = pc]
  <2>1. req' = [req EXCEPT ![r] = new]
    BY <1>3 DEF Count
  <2>2. /\ pc \in {"save", "delete"}
        /\ pc = "delete" <=> req[r].kind = "delete"
    OBVIOUS
  <2> HIDE DEF pc
  <2>3. /\ new \in Request /\ new.pc = pc /\ new.user = req[r].user
        /\ new.kind = req[r].kind /\ new.entity = req[r].entity
    <3>1. req[r] \in Request
      BY DEF TypeInv, TypeOK
    <3> QED
      BY <2>2, <3>1 DEF Request
  <2> HIDE DEF new
  <2>4. Shape(r) /\ req[r].pc = "count"
    BY DEF TypeInv, Count, At
  <2>5. req' \in [Requests -> Request] /\ \A q \in Requests : Shape(q)'
    BY <2>1, <2>2, <2>3, <2>4, ReplaceTypes DEF Shape
  <2>6. req'[r] = new /\ \A q \in Requests \ {r} : req'[q] = req[q]
    BY <2>1 DEF TypeInv, TypeOK
  <2>7. OtherActiveAdmins(req'[r].user) # {}
    BY <1>3, <2>3, <2>6
  <2> QED
    BY <1>1, <2>2, <2>3, <2>5, <2>6, <2>7
<1> QED
  BY <1>2, <1>3

(* A save puts the row of the request's user, or is refused. *)
LEMMA SaveEffect ==
  ASSUME TypeInv, NEW r \in Requests, Save(r)
  PROVE  /\ UNCHANGED <<tokens, expired, now, raced, restarts>>
         /\ req[r].user \in Times /\ req[r].entity \in Row
         /\ users' \in {users, [users EXCEPT ![req[r].user] = req[r].entity]}
         /\ req' \in [Requests -> Request] /\ \A q \in Requests : Shape(q)'
         /\ req'[r].pc \in {"done", "revokeOld"}
         /\ \A q \in Requests \ {r} :
              /\ req'[q].pc = req[q].pc /\ req'[q].user = req[q].user
              /\ req[q].overtaken => req'[q].overtaken
              /\ req[q].pc \in UserWriters => req'[q].overtaken
<1>1. /\ req[r] \in Request /\ req[r].user \in Times /\ req[r].entity \in Row
      /\ req[r].kind # "delete"
  BY NoRowNotRow DEF Save, At, TypeInv, TypeOK, Shape
<1> DEFINE next == IF /\ req[r].kind = "mobileLogin"
                      /\ users'[req[r].user] = req[r].entity
                   THEN [req[r] EXCEPT !.pc = "revokeOld"] ELSE Done
<1>2. /\ next \in Request /\ next.pc \in {"done", "revokeOld"}
      /\ next.pc = "revokeOld" => next.user \in Times
      /\ next.kind # "delete"
  <2>1. /\ [req[r] EXCEPT !.pc = "revokeOld"] \in Request
        /\ [req[r] EXCEPT !.pc = "revokeOld"].pc = "revokeOld"
        /\ [req[r] EXCEPT !.pc = "revokeOld"].user = req[r].user
        /\ [req[r] EXCEPT !.pc = "revokeOld"].kind = req[r].kind
    BY <1>1 DEF Request
  <2> QED
    BY <1>1, <2>1, DoneIsRequest
<1>3. Writes(r, next, UserWriters)
  BY DEF Save
<1> HIDE DEF next
<1>4. users' \in {users, [users EXCEPT ![req[r].user] = req[r].entity]}
  BY DEF Save, Saved
<1>5. UNCHANGED <<tokens, expired, now, raced, restarts>>
  BY DEF Save, KeepTokens, KeepClock
<1> QED
  BY <1>1, <1>2, <1>3, <1>4, <1>5, WritesEffect

LEMMA DeleteEffect ==
  ASSUME TypeInv, NEW r \in Requests, DeleteRow(r)
  PROVE  /\ UNCHANGED <<tokens, expired, now, raced, restarts>>
         /\ req[r].user \in Times
         /\ users' = [users EXCEPT ![req[r].user] = NoRow]
         /\ req' \in [Requests -> Request] /\ \A q \in Requests : Shape(q)'
         /\ req'[r].pc = "done"
         /\ \A q \in Requests \ {r} :
              /\ req'[q].pc = req[q].pc /\ req'[q].user = req[q].user
              /\ req[q].overtaken => req'[q].overtaken
              /\ req[q].pc \in UserWriters => req'[q].overtaken
<1>1. Writes(r, Done, UserWriters)
  BY DEF DeleteRow
<1>2. req[r].user \in Times
  BY DEF DeleteRow, At, TypeInv, Shape
<1>3. /\ users' = [users EXCEPT ![req[r].user] = NoRow]
      /\ UNCHANGED <<tokens, expired, now, raced, restarts>>
  BY DEF DeleteRow, Removed, KeepTokens, KeepClock
<1> QED
  BY <1>1, <1>2, <1>3, DoneIsRequest, WritesEffect

LEMMA EndEffect ==
  ASSUME TypeInv, NEW r \in Requests, End(r)
  PROVE  /\ req' \in [Requests -> Request] /\ \A q \in Requests : Shape(q)'
         /\ req'[r].pc = "done"
         /\ \A q \in Requests \ {r} : req'[q] = req[q]
<1>1. req'[r] = Done /\ \A q \in Requests \ {r} : req'[q] = req[q]
  BY DEF End, TypeInv, TypeOK
<1> QED
  BY <1>1, EndTypes, DoneIsRequest

(* The steps of MobileTokenService. *)
LEMMA RevokeOldEffect ==
  ASSUME TypeInv, NEW r \in Requests, RevokeOld(r)
  PROVE  /\ req' \in [Requests -> Request] /\ \A q \in Requests : Shape(q)'
         /\ req[r].user \in Times /\ req'[r].user = req[r].user
         /\ req'[r].pc = "issue"
         /\ \A q \in Requests \ {r} : req'[q] = req[q]
<1> DEFINE new == [req[r] EXCEPT !.pc = "issue", !.overtaken = FALSE]
<1>1. req[r] \in Request /\ req[r].user \in Times /\ Shape(r)
  BY DEF RevokeOld, At, TypeInv, TypeOK, Shape
<1>2. /\ new \in Request /\ new.pc = "issue" /\ new.user = req[r].user
      /\ new.kind = req[r].kind /\ new.entity = req[r].entity
  BY <1>1 DEF Request
<1>3. req' = [req EXCEPT ![r] = new]
  BY DEF RevokeOld, TypeInv, TypeOK
<1> HIDE DEF new
<1>4. req'[r] = new /\ \A q \in Requests \ {r} : req'[q] = req[q]
  BY <1>3 DEF TypeInv, TypeOK
<1>5. new.kind = "delete" => new.entity = NoRow
  BY <1>1, <1>2 DEF Shape
<1>6. req' \in [Requests -> Request] /\ \A q \in Requests : Shape(q)'
  BY <1>1, <1>2, <1>3, <1>5, ReplaceTypes
<1> QED
  BY <1>1, <1>2, <1>4, <1>6

(* Inserting a token overtakes whoever is about to insert one. *)
LEMMA InsertEffect ==
  ASSUME TypeInv, NEW r \in Requests, Writes(r, Done, {"issue"})
  PROVE  /\ req' \in [Requests -> Request] /\ \A q \in Requests : Shape(q)'
         /\ req'[r].pc = "done"
         /\ \A q \in Requests \ {r} :
              /\ req'[q].pc = req[q].pc /\ req'[q].user = req[q].user
              /\ req'[q] = req[q] \/ req'[q].overtaken
              /\ req[q].pc = "issue" => req'[q].overtaken
<1>1. /\ Done \in Request /\ Done.pc = "done" /\ Done.kind # "delete"
  BY DoneIsRequest
<1>2. \A q \in Requests \ {r} : req'[q] = req[q] \/ req[q].pc = "issue"
  BY DEF Writes
<1> QED
  BY <1>1, <1>2, WritesEffect

LEMMA VerifyEffect ==
  ASSUME TypeInv, NEW r \in Requests, NEW t \in Token, Verify(r, t)
  PROVE  /\ req' \in [Requests -> Request] /\ \A q \in Requests : Shape(q)'
         /\ req'[r].pc \in {"done", "touch"}
         /\ \A q \in Requests \ {r} : req'[q] = req[q]
<1>1. CASE End(r)
  BY <1>1, EndEffect
<1>2. CASE ~End(r)
  <2> DEFINE new == [NewRequest EXCEPT !.kind = "verify", !.pc = "touch",
                                       !.user = t.user, !.token = t]
  <2>1. t.user \in Times
    BY DEF Token
  <2>2. /\ new \in Request /\ new.pc = "touch" /\ new.token = t
        /\ new.kind = "verify"
    BY <2>1 DEF NewRequest, Request
  <2>3. req' = [req EXCEPT ![r] = new]
    BY <1>2 DEF Verify
  <2> HIDE DEF new
  <2>4. req'[r] = new /\ \A q \in Requests \ {r} : req'[q] = req[q]
    BY <2>3 DEF TypeInv, TypeOK
  <2>5. req' \in [Requests -> Request] /\ \A q \in Requests : Shape(q)'
    BY <2>2, <2>3, ReplaceTypes
  <2> QED
    BY <2>2, <2>4, <2>5
<1> QED
  BY <1>1, <1>2

LEMMA TypeStep == TypeInv /\ [Next]_vars => TypeInv'
<1> SUFFICES ASSUME TypeInv, [Next]_vars PROVE TypeInv'
  OBVIOUS
<1>1. /\ users \in [Times -> Row \cup {NoRow}]
      /\ tokens \subseteq Token /\ expired \subseteq Token
      /\ now \in 2 .. MaxTime + 1 /\ restarts \in 0 .. MaxRestarts
      /\ raced \subseteq Times /\ req \in [Requests -> Request]
      /\ \A r \in Requests : Shape(r)
  BY DEF TypeInv, TypeOK
<1>2. ASSUME NEW r \in Requests, FirstRead(r) PROVE TypeInv'
  BY <1>1, <1>2, FirstReadEffect, FirstReadTypes DEF TypeInv, TypeOK
<1>3. ASSUME NEW r \in Requests, Count(r) PROVE TypeInv'
  BY <1>1, <1>3, CountEffect DEF TypeInv, TypeOK
<1>4. ASSUME NEW r \in Requests, Save(r) PROVE TypeInv'
  <2>1. users' \in [Times -> Row \cup {NoRow}]
    BY <1>1, <1>4, SaveEffect
  <2> QED
    BY <1>1, <1>4, <2>1, SaveEffect DEF TypeInv, TypeOK
<1>5. ASSUME NEW r \in Requests, DeleteRow(r) PROVE TypeInv'
  <2>1. users' \in [Times -> Row \cup {NoRow}]
    BY <1>1, <1>5, DeleteEffect
  <2> QED
    BY <1>1, <1>5, <2>1, DeleteEffect DEF TypeInv, TypeOK
<1>6. ASSUME NEW r \in Requests, RevokeOld(r) PROVE TypeInv'
  <2>1. tokens' \subseteq tokens /\ raced' \subseteq raced
        /\ UNCHANGED <<users, expired, now, restarts>>
    BY <1>6 DEF RevokeOld, WithoutOld, KeepClock
  <2> QED
    BY <1>1, <1>6, <2>1, RevokeOldEffect DEF TypeInv, TypeOK
<1>7. ASSUME NEW r \in Requests, Issue(r) PROVE TypeInv'
  <2>1. req[r].user \in Times
    BY <1>1, <1>7 DEF Issue, At, Shape
  <2>2. tokens' \subseteq Token /\ raced' \subseteq Times
    BY <1>1, <1>7, <2>1 DEF Issue, Token
  <2>3. Writes(r, Done, {"issue"}) /\ UNCHANGED <<users, expired, now, restarts>>
    BY <1>7 DEF Issue, KeepClock
  <2> QED
    BY <1>1, <2>2, <2>3, InsertEffect DEF TypeInv, TypeOK
<1>8. ASSUME NEW r \in Requests, Touch(r) PROVE TypeInv'
  <2>1. req[r].token \in Token /\ req[r].token.user \in Times
    BY <1>1, <1>8 DEF Touch, At, Shape, Token
  <2>2. tokens' \subseteq Token /\ raced' \subseteq Times
    BY <1>1, <1>8, <2>1 DEF Touch
  <2>3. End(r) \/ Writes(r, Done, {"issue"})
    BY <1>8 DEF Touch
  <2>4. UNCHANGED <<users, expired, now, restarts>>
    BY <1>8 DEF Touch, KeepClock
  <2> QED
    BY <1>1, <2>2, <2>3, <2>4, InsertEffect, EndTypes DEF TypeInv, TypeOK
<1>9. ASSUME NEW r \in Requests, NEW t \in Token, Verify(r, t) PROVE TypeInv'
  <2>1. UNCHANGED <<users, tokens, expired, now, raced, restarts>>
    BY <1>9 DEF Verify, KeepTokens, KeepClock
  <2> QED
    BY <1>1, <1>9, <2>1, VerifyEffect DEF TypeInv, TypeOK
<1>10. ASSUME NEW r \in Requests, NEW t \in Token, Logout(r, t) PROVE TypeInv'
  <2>1. tokens' \subseteq tokens /\ End(r)
        /\ UNCHANGED <<users, expired, now, raced, restarts>>
    BY <1>10 DEF Logout, KeepClock
  <2> QED
    BY <1>1, <2>1, EndTypes DEF TypeInv, TypeOK
<1>11. CASE Tick \/ \E t \in Token : Expire(t)
  <2>1. /\ UNCHANGED <<users, tokens, req, raced, restarts>>
        /\ expired' \subseteq Token
    BY <1>1, <1>11 DEF Tick, Expire
  <2>2. now' \in 2 .. MaxTime + 1
    BY <1>1, <1>11, BoundsAssumption DEF Tick, Expire, Times
  <2> QED
    BY <1>1, <2>1, <2>2 DEF TypeInv, TypeOK, Shape
<1>12. CASE Restart
  <2>1. /\ UNCHANGED <<tokens, expired, raced>>
        /\ restarts' \in 0 .. MaxRestarts /\ now' \in 2 .. MaxTime + 1
    BY <1>1, <1>12, BoundsAssumption DEF Restart, Times
  <2>2. Seed \in Row
    BY NamesAssumption DEF Seed, Row
  <2>3. users' \in [Times -> Row \cup {NoRow}]
    BY <1>1, <1>12, <2>2 DEF Restart
  <2>4. req' = [q \in Requests |-> IF req[q].pc = "new" THEN req[q] ELSE Done]
    BY <1>12 DEF Restart
  <2>5. req' \in [Requests -> Request]
    BY <1>1, <2>4, DoneIsRequest
  <2>6. ASSUME NEW q \in Requests PROVE Shape(q)'
    <3>1. CASE req[q].pc = "new"
      <4>1. req'[q] = req[q]
        BY <2>4, <3>1
      <4> QED
        BY <1>1, <4>1 DEF Shape
    <3>2. CASE req[q].pc # "new"
      <4>1. req'[q] = Done
        BY <2>4, <3>2
      <4> QED
        BY <4>1, DoneIsRequest DEF Shape
    <3> QED
      BY <3>1, <3>2
  <2> QED
    BY <2>1, <2>3, <2>5, <2>6 DEF TypeInv, TypeOK
<1>13. CASE UNCHANGED vars
  BY <1>13 DEF TypeInv, TypeOK, Shape, vars
<1> QED
  BY <1>2, <1>3, <1>4, <1>5, <1>6, <1>7, <1>8, <1>9, <1>10, <1>11, <1>12,
     <1>13 DEF Next, RequestStep, FirstRead

LEMMA TypeInvariant == Spec => []TypeInv
  BY TypeInit, TypeStep, PTL DEF Spec

(* Users, tokens and waiting requests keep their types. *)
THEOREM AccountTyping == Spec => []TypeOK
<1>1. TypeInv => TypeOK
  BY DEF TypeInv
<1> QED
  BY <1>1, TypeInvariant, PTL

-----------------------------------------------------------------------------
(* The last administrator.  A request that has passed the rule and has not *)
(* been overtaken since still has the table before it that it has checked. *)

Checked(r) == \/ ~DropsAdmin(users[req[r].user], req[r].entity)
              \/ OtherActiveAdmins(req[r].user) # {}

AdminInv ==
  \A r \in Requests :
    req[r].pc \in {"save", "delete"} /\ ~req[r].overtaken => Checked(r)

(* A step of r that leaves the table of users alone. *)
LEMMA AdminFrame ==
  ASSUME AdminInv, users' = users,
         \A q \in Requests :
           \/ req'[q] = req[q]
           \/ req'[q].pc \notin {"save", "delete"}
           \/ req'[q].overtaken
           \/ ~DropsAdmin(users[req'[q].user], req'[q].entity)
           \/ OtherActiveAdmins(req'[q].user) # {}
  PROVE  AdminInv'
  BY DEF AdminInv, Checked, DropsAdmin, OtherActiveAdmins, ActiveAdmins

(* A step of r that writes it: whoever waits to write is overtaken. *)
LEMMA AdminWrite ==
  ASSUME NEW r \in Requests,
         req'[r].pc \notin {"save", "delete"},
         \A q \in Requests \ {r} :
           /\ req'[q].pc = req[q].pc
           /\ req[q].pc \in UserWriters => req'[q].overtaken
  PROVE  AdminInv'
  BY DEF AdminInv, UserWriters

LEMMA AdminStep == TypeInv /\ AdminInv /\ [Next]_vars => AdminInv'
<1> SUFFICES ASSUME TypeInv, AdminInv, [Next]_vars PROVE AdminInv'
  OBVIOUS
<1>1. ASSUME NEW r \in Requests, FirstRead(r) PROVE AdminInv'
  <2>1. users' = users
    BY <1>1, FirstReadEffect
  <2>2. CASE End(r)
    BY <2>1, <2>2, EndEffect, AdminFrame
  <2>3. ASSUME NEW kind \in {"create", "update", "login", "mobileLogin"},
               NEW u \in Times, NEW row \in Row, Loaded(r, kind, u, row)
        PROVE  AdminInv'
    <3>1. kind # "delete"
      OBVIOUS
    <3>2. /\ \A q \in Requests \ {r} : req'[q] = req[q]
          /\ req'[r].pc \in {"save", "delete"} =>
               ~DropsAdmin(users[req'[r].user], req'[r].entity)
      BY <2>3, <3>1, LoadedEffect
    <3> QED
      BY <2>1, <3>2, AdminFrame
  <2>4. ASSUME NEW u \in Times, Loaded(r, "delete", u, NoRow)
        PROVE  AdminInv'
    <3>1. /\ \A q \in Requests \ {r} : req'[q] = req[q]
          /\ req'[r].pc \in {"save", "delete"} =>
               ~DropsAdmin(users[req'[r].user], req'[r].entity)
      BY <2>4, LoadedEffect
    <3> QED
      BY <2>1, <3>1, AdminFrame
  <2> QED
    BY <1>1, <2>2, <2>3, <2>4, FirstReadEffect
<1>2. ASSUME NEW r \in Requests, Count(r) PROVE AdminInv'
  <2>1. /\ users' = users
        /\ \A q \in Requests \ {r} : req'[q] = req[q]
        /\ req'[r].pc \in {"save", "delete"} =>
             OtherActiveAdmins(req'[r].user) # {}
    BY <1>2, CountEffect
  <2> QED
    BY <2>1, AdminFrame
<1>3. ASSUME NEW r \in Requests, Save(r) PROVE AdminInv'
  <2>1. /\ req'[r].pc \notin {"save", "delete"}
        /\ \A q \in Requests \ {r} :
             /\ req'[q].pc = req[q].pc
             /\ req[q].pc \in UserWriters => req'[q].overtaken
    BY <1>3, SaveEffect
  <2> QED
    BY <2>1, AdminWrite
<1>4. ASSUME NEW r \in Requests, DeleteRow(r) PROVE AdminInv'
  <2>1. /\ req'[r].pc \notin {"save", "delete"}
        /\ \A q \in Requests \ {r} :
             /\ req'[q].pc = req[q].pc
             /\ req[q].pc \in UserWriters => req'[q].overtaken
    BY <1>4, DeleteEffect
  <2> QED
    BY <2>1, AdminWrite
<1>5. ASSUME NEW r \in Requests, RevokeOld(r) PROVE AdminInv'
  <2>1. users' = users
    BY <1>5 DEF RevokeOld
  <2> QED
    BY <1>5, <2>1, RevokeOldEffect, AdminFrame
<1>6. ASSUME NEW r \in Requests, Issue(r) \/ Touch(r) PROVE AdminInv'
  <2>1. users' = users /\ (End(r) \/ Writes(r, Done, {"issue"}))
    BY <1>6 DEF Issue, Touch
  <2>2. \A q \in Requests : \/ req'[q] = req[q]
                            \/ req'[q].pc \notin {"save", "delete"}
                            \/ req'[q].overtaken
    BY <2>1, InsertEffect, EndEffect
  <2> QED
    BY <2>1, <2>2, AdminFrame
<1>7. ASSUME NEW r \in Requests, NEW t \in Token, Verify(r, t) \/ Logout(r, t)
      PROVE  AdminInv'
  <2>1. users' = users
    BY <1>7 DEF Verify, Logout
  <2>2. \A q \in Requests : \/ req'[q] = req[q]
                            \/ req'[q].pc \notin {"save", "delete"}
    <3>1. CASE Verify(r, t)
      BY <3>1, VerifyEffect
    <3>2. CASE Logout(r, t)
      BY <3>2, EndEffect DEF Logout
    <3> QED
      BY <1>7, <3>1, <3>2
  <2> QED
    BY <2>1, <2>2, AdminFrame
<1>8. CASE Tick \/ (\E t \in Token : Expire(t)) \/ UNCHANGED vars
  <2>1. users' = users /\ req' = req
    BY <1>8 DEF Tick, Expire, vars
  <2> QED
    BY <2>1, AdminFrame
<1>9. CASE Restart
  <2>1. req' = [q \in Requests |-> IF req[q].pc = "new" THEN req[q] ELSE Done]
    BY <1>9 DEF Restart
  <2>2. \A q \in Requests : req'[q].pc \notin {"save", "delete"}
    BY <2>1, DoneIsRequest
  <2> QED
    BY <2>2 DEF AdminInv
<1> QED
  BY <1>1, <1>2, <1>3, <1>4, <1>5, <1>6, <1>7, <1>8, <1>9
     DEF Next, RequestStep, FirstRead

(* Writing the row of a request that has checked leaves an administrator. *)
LEMMA CheckedKeepsAdmin ==
  ASSUME TypeInv, NEW r \in Requests, req[r].user \in Times, Checked(r),
         users' \in {users, [users EXCEPT ![req[r].user] = req[r].entity]},
         HasActiveAdmin
  PROVE  HasActiveAdmin'
<1>1. CASE users' = users
  BY <1>1 DEF HasActiveAdmin, ActiveAdmins
<1>2. CASE users' = [users EXCEPT ![req[r].user] = req[r].entity]
  <2>1. /\ users'[req[r].user] = req[r].entity
        /\ \A u \in Times : u # req[r].user => users'[u] = users[u]
    BY <1>2 DEF TypeInv, TypeOK
  <2>2. CASE IsActiveAdmin(req[r].entity)
    BY <2>1, <2>2 DEF HasActiveAdmin, ActiveAdmins
  <2>3. CASE OtherActiveAdmins(req[r].user) # {}
    BY <2>1, <2>3 DEF HasActiveAdmin, ActiveAdmins, OtherActiveAdmins
  <2>4. CASE ~IsActiveAdmin(users[req[r].user])
    BY <2>1, <2>4 DEF HasActiveAdmin, ActiveAdmins
  <2> QED
    BY <2>2, <2>3, <2>4 DEF Checked, DropsAdmin
<1> QED
  BY <1>1, <1>2

LEMMA LastAdminStep ==
  ASSUME TypeInv, AdminInv, [Next]_vars, HasActiveAdmin
  PROVE  HasActiveAdmin' \/ \E r \in Requests : req[r].overtaken /\ req'[r] # req[r]
<1>1. ASSUME NEW r \in Requests, Save(r) \/ DeleteRow(r)
      PROVE  HasActiveAdmin' \/ (req[r].overtaken /\ req'[r] # req[r])
  <2>1. /\ req[r].pc \in {"save", "delete"} /\ req[r].user \in Times
        /\ users' \in {users, [users EXCEPT ![req[r].user] = req[r].entity]}
        /\ req'[r].pc \notin {"save", "delete"}
    <3>1. CASE Save(r)
      BY <3>1, SaveEffect DEF Save, At
    <3>2. CASE DeleteRow(r)
      <4>1. req[r].entity = NoRow
        BY <3>2 DEF DeleteRow, At, TypeInv, Shape
      <4> QED
        BY <3>2, <4>1, DeleteEffect DEF DeleteRow, At
    <3> QED
      BY <1>1, <3>1, <3>2
  <2>2. CASE req[r].overtaken
    BY <2>1, <2>2
  <2>3. CASE ~req[r].overtaken
    <3>1. Checked(r)
      BY <2>1, <2>3 DEF AdminInv
    <3> QED
      BY <2>1, <3>1, CheckedKeepsAdmin
  <2> QED
    BY <2>2, <2>3
<1>2. CASE users' = users
  BY <1>2 DEF HasActiveAdmin, ActiveAdmins
<1>3. CASE Restart
  <2>1. CASE now \in Times /\ users' = [users EXCEPT ![now] = Seed]
    <3>1. users'[now] = Seed /\ IsActiveAdmin(Seed)
      BY <2>1 DEF TypeInv, TypeOK, Seed, IsActiveAdmin
    <3> QED
      BY <2>1, <3>1 DEF HasActiveAdmin, ActiveAdmins
  <2> QED
    BY <1>2, <1>3, <2>1 DEF Restart
<1>4. ASSUME NEW r \in Requests, RequestStep(r), ~Save(r), ~DeleteRow(r)
      PROVE  users' = users
  <2>1. CASE FirstRead(r)
    BY <2>1, FirstReadEffect
  <2> QED
    BY <1>4, <2>1 DEF RequestStep, FirstRead, Count, RevokeOld, Issue, Touch,
                      Verify, Logout
<1>5. CASE Tick \/ (\E t \in Token : Expire(t)) \/ UNCHANGED vars
  BY <1>2, <1>5 DEF Tick, Expire, vars
<1> QED
  BY <1>1, <1>2, <1>3, <1>4, <1>5 DEF Next

(* Requests that do not overlap never take the last active administrator   *)
(* away, however many there are and whatever they change or delete: only a *)
(* request that was overtaken between its count and its write can.         *)
THEOREM LastAdminSafe == Spec => LastAdminLeavesByRace
<1>1. Init => TypeInv /\ AdminInv
  <2> SUFFICES ASSUME Init PROVE AdminInv
    BY TypeInit
  <2> QED
    BY DEF Init, AdminInv, NewRequest
<1>2. TypeInv /\ AdminInv /\ [Next]_vars => TypeInv' /\ AdminInv'
  BY TypeStep, AdminStep
<1>3. TypeInv /\ AdminInv /\ [Next]_vars =>
        [HasActiveAdmin =>
           HasActiveAdmin' \/ \E r \in Requests : req[r].overtaken /\ req'[r] # req[r]]_vars
  BY LastAdminStep
<1> QED
  BY <1>1, <1>2, <1>3, PTL DEF Spec, LastAdminLeavesByRace

-----------------------------------------------------------------------------
(* One token for a user.  Before a login that has not been overtaken       *)
(* inserts its token, the user has none.                                   *)

AtMostOne(u) == \A s, t \in TokensOf(u) : s = t

TokenInv ==
  /\ \A u \in Times \ raced : AtMostOne(u)
  /\ \A r \in Requests :
       req[r].pc = "issue" /\ ~req[r].overtaken => TokensOf(req[r].user) = {}

(* A step that adds no token and starts no insertion. *)
LEMMA TokenFrame ==
  ASSUME TokenInv, tokens' \subseteq tokens, raced' = raced,
         \A q \in Requests :
           \/ req'[q] = req[q]
           \/ req'[q].pc # "issue"
           \/ /\ req[q].pc = "issue" /\ req'[q].user = req[q].user
              /\ req[q].overtaken => req'[q].overtaken
  PROVE  TokenInv'
  BY DEF TokenInv, AtMostOne, TokensOf

(* A step that adds a token of a user: whoever is about to insert one is   *)
(* overtaken.                                                              *)
LEMMA TokenInsert ==
  ASSUME TokenInv, NEW r \in Requests, NEW t, tokens' = tokens \cup {t},
         raced' = raced \/ raced' = raced \cup {t.user},
         TokensOf(t.user) = {} \/ t.user \in raced',
         req'[r].pc # "issue",
         \A q \in Requests \ {r} :
           /\ req'[q].pc = req[q].pc
           /\ req[q].pc = "issue" => req'[q].overtaken
  PROVE  TokenInv'
<1>1. ASSUME NEW u \in Times \ raced' PROVE AtMostOne(u)'
  <2>1. AtMostOne(u)
    BY <1>1 DEF TokenInv
  <2>2. CASE t.user = u
    BY <1>1, <2>2 DEF AtMostOne, TokensOf
  <2>3. CASE t.user # u
    BY <2>1, <2>3 DEF AtMostOne, TokensOf
  <2> QED
    BY <2>2, <2>3
<1>2. \A q \in Requests : req'[q].pc = "issue" => req'[q].overtaken
  OBVIOUS
<1> QED
  BY <1>1, <1>2 DEF TokenInv

LEMMA TokenStep == TypeInv /\ TokenInv /\ [Next]_vars => TokenInv'
<1> SUFFICES ASSUME TypeInv, TokenInv, [Next]_vars PROVE TokenInv'
  OBVIOUS
<1>1. ASSUME NEW r \in Requests, FirstRead(r) PROVE TokenInv'
  <2>1. tokens' = tokens /\ raced' = raced
    BY <1>1, FirstReadEffect
  <2>2. /\ \A q \in Requests \ {r} : req'[q] = req[q]
        /\ req'[r].pc # "issue"
    <3>1. CASE End(r)
      BY <3>1, EndEffect
    <3>2. ASSUME NEW kind \in {"create", "update", "login", "mobileLogin"},
                 NEW u \in Times, NEW row \in Row, Loaded(r, kind, u, row)
          PROVE  /\ \A q \in Requests \ {r} : req'[q] = req[q]
                 /\ req'[r].pc # "issue"
      <4>1. kind # "delete"
        OBVIOUS
      <4> QED
        BY <3>2, <4>1, LoadedEffect
    <3>3. ASSUME NEW u \in Times, Loaded(r, "delete", u, NoRow)
          PROVE  /\ \A q \in Requests \ {r} : req'[q] = req[q]
                 /\ req'[r].pc # "issue"
      BY <3>3, LoadedEffect
    <3> QED
      BY <1>1, <3>1, <3>2, <3>3, FirstReadEffect
  <2> QED
    BY <2>1, <2>2, TokenFrame
<1>2. ASSUME NEW r \in Requests, Count(r) PROVE TokenInv'
  <2>1. /\ tokens' = tokens /\ raced' = raced
        /\ \A q \in Requests \ {r} : req'[q] = req[q]
        /\ req'[r].pc # "issue"
    BY <1>2, CountEffect
  <2> QED
    BY <2>1, TokenFrame
<1>3. ASSUME NEW r \in Requests, Save(r) \/ DeleteRow(r) PROVE TokenInv'
  <2>1. /\ tokens' = tokens /\ raced' = raced /\ req'[r].pc # "issue"
        /\ \A q \in Requests \ {r} :
             /\ req'[q].pc = req[q].pc /\ req'[q].user = req[q].user
             /\ req[q].overtaken => req'[q].overtaken
    BY <1>3, SaveEffect, DeleteEffect
  <2> QED
    BY <2>1, TokenFrame
<1>4. ASSUME NEW r \in Requests, RevokeOld(r) PROVE TokenInv'
  <2>1. /\ req[r].user \in Times /\ req'[r].user = req[r].user
        /\ \A q \in Requests \ {r} : req'[q] = req[q]
    BY <1>4, RevokeOldEffect
  <2>2. /\ tokens' = tokens \ TokensOf(req[r].user)
        /\ raced' = raced \ {req[r].user}
    BY <1>4 DEF RevokeOld, WithoutOld
  <2>3. TokensOf(req[r].user)' = {}
    BY <2>1, <2>2 DEF TokensOf
  <2>4. ASSUME NEW u \in Times \ raced' PROVE AtMostOne(u)'
    <3>1. CASE u = req[r].user
      BY <2>2, <3>1 DEF AtMostOne, TokensOf
    <3>2. CASE u # req[r].user
      BY <2>2, <2>4, <3>2 DEF TokenInv, AtMostOne, TokensOf
    <3> QED
      BY <3>1, <3>2
  <2>5. ASSUME NEW q \in Requests, req'[q].pc = "issue", ~req'[q].overtaken
        PROVE  TokensOf(req[q].user)' = {}
    <3>1. CASE q = r
      BY <2>1, <2>2, <3>1 DEF TokensOf
    <3>2. CASE q # r
      BY <2>1, <2>2, <2>5, <3>2 DEF TokenInv, TokensOf
    <3> QED
      BY <3>1, <3>2
  <2> QED
    BY <2>4, <2>5 DEF TokenInv
<1>5. ASSUME NEW r \in Requests, Issue(r) PROVE TokenInv'
  <2> DEFINE t == [login |-> r, user |-> req[r].user]
  <2>1. t.user = req[r].user /\ Writes(r, Done, {"issue"})
    BY <1>5 DEF Issue
  <2>2. /\ tokens' = tokens \cup {t}
        /\ raced' = IF req[r].overtaken THEN raced \cup {req[r].user} ELSE raced
    BY <1>5 DEF Issue
  <2> HIDE DEF t
  <2>3. ~req[r].overtaken => TokensOf(t.user) = {}
    BY <1>5, <2>1 DEF TokenInv, Issue, At
  <2>4. /\ req'[r].pc # "issue"
        /\ \A q \in Requests \ {r} :
             /\ req'[q].pc = req[q].pc
             /\ req[q].pc = "issue" => req'[q].overtaken
    BY <2>1, InsertEffect
  <2> QED
    BY <2>1, <2>2, <2>3, <2>4, TokenInsert
<1>6. ASSUME NEW r \in Requests, Touch(r) PROVE TokenInv'
  <2> DEFINE t == req[r].token
  <2>1. CASE t \in tokens
    <3>1. tokens' = tokens /\ raced' = raced /\ End(r)
      BY <1>6, <2>1 DEF Touch
    <3> QED
      BY <3>1, EndEffect, TokenFrame
  <2>2. CASE t \notin tokens
    <3>1. /\ tokens' = tokens \cup {t} /\ raced' = raced \cup {t.user}
          /\ Writes(r, Done, {"issue"})
      BY <1>6, <2>2 DEF Touch
    <3>2. /\ req'[r].pc # "issue"
          /\ \A q \in Requests \ {r} :
               /\ req'[q].pc = req[q].pc
               /\ req[q].pc = "issue" => req'[q].overtaken
      BY <3>1, InsertEffect
    <3> HIDE DEF t
    <3> QED
      BY <3>1, <3>2, TokenInsert
  <2> QED
    BY <2>1, <2>2
<1>7. ASSUME NEW r \in Requests, NEW t \in Token, Verify(r, t) \/ Logout(r, t)
      PROVE  TokenInv'
  <2>1. tokens' \subseteq tokens /\ raced' = raced
    BY <1>7 DEF Verify, Logout, KeepTokens
  <2>2. CASE Verify(r, t)
    BY <2>1, <2>2, VerifyEffect, TokenFrame
  <2>3. CASE Logout(r, t)
    BY <2>1, <2>3, EndEffect, TokenFrame DEF Logout
  <2> QED
    BY <1>7, <2>2, <2>3
<1>8. CASE Tick \/ (\E t \in Token : Expire(t)) \/ UNCHANGED vars
  <2>1. tokens' = tokens /\ raced' = raced /\ req' = req
    BY <1>8 DEF Tick, Expire, vars
  <2> QED
    BY <2>1, TokenFrame
<1>9. CASE Restart
  <2>1. /\ tokens' = tokens /\ raced' = raced
        /\ req' = [q \in Requests |-> IF req[q].pc = "new" THEN req[q] ELSE Done]
    BY <1>9 DEF Restart
  <2>2. \A q \in Requests : req'[q].pc # "issue"
    BY <2>1, DoneIsRequest
  <2> QED
    BY <2>1, <2>2, TokenFrame
<1> QED
  BY <1>1, <1>2, <1>3, <1>4, <1>5, <1>6, <1>7, <1>8, <1>9
     DEF Next, RequestStep, FirstRead

(* However logins, verifications, logouts and restarts interleave, a user  *)
(* has one mobile token unless a login was overtaken by another or a       *)
(* verification put a revoked token back.                                  *)
THEOREM OneToken == Spec => []OneTokenPerUser
<1>1. Init => TokenInv
  <2> SUFFICES ASSUME Init PROVE TokenInv
    OBVIOUS
  <2> QED
    BY DEF Init, TokenInv, AtMostOne, TokensOf, NewRequest
<1>2. TokenInv => OneTokenPerUser
  <2> SUFFICES ASSUME TokenInv, NEW u \in Times \ raced
               PROVE  Cardinality(TokensOf(u)) <= 1
    BY DEF OneTokenPerUser
  <2>1. CASE TokensOf(u) = {}
    BY <2>1, FS_EmptySet
  <2>2. CASE TokensOf(u) # {}
    <3>1. PICK t : t \in TokensOf(u)
      BY <2>2
    <3>2. TokensOf(u) = {t}
      BY <3>1 DEF TokenInv, AtMostOne
    <3> QED
      BY <3>2, FS_Singleton
  <2> QED
    BY <2>1, <2>2
<1>3. TypeInv /\ TokenInv /\ [Next]_vars => TokenInv'
  BY TokenStep
<1> QED
  BY <1>1, <1>2, <1>3, TypeInvariant, PTL DEF Spec
=============================================================================
