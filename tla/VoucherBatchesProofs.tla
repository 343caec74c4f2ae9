------------------------ MODULE VoucherBatchesProofs ------------------------
(***************************************************************************)
(* Proofs about VoucherBatches, for every number of users, batches and     *)
(* requests.                                                               *)
(***************************************************************************)
EXTENDS VoucherBatches, TLAPS

Copies == [Batches -> Rows \cup {NoRow}]

Op == {"none", "sync", "auto", "listed", "update", "save", "delete"}

RequestRecord ==
  [op : Op, copy : Copies, todo : SUBSET (Batches \cup Users)]

(* What a request holds at each of its awaits. *)
Shape(x) ==
  \/ x = Idle
  \/ x.op \in {"sync", "auto"} /\ x.todo = {}
  \/ x.op = "listed" /\ x.todo = {} /\ x.copy[Import] # NoRow
  \/ x.op \in {"update", "save"} /\ x.todo \subseteq Batches
  \/ x.op = "delete" /\ x.todo \subseteq Users

TypeInv ==
  /\ row \in Copies
  /\ router \in [Users -> {"absent", "fresh", "traffic", "dated"}]
  /\ req \in [Requests -> RequestRecord]
  /\ \A r \in Requests : Shape(req[r])
  /\ kept \subseteq Batches \X Users

(* Every copy that a request may write back carries the marks that are kept, *)
(* and no deletion under way has such a user on its list.                    *)
CopiesAgree ==
  \A k \in kept : \A r \in Requests :
    WorksOn(r, k[1]) /\ Has(req[r].copy, k[1], k[2])
      => IsUsed(req[r].copy, k[1], k[2])

SparedInv == UsedIsSpared /\ CopiesAgree

-----------------------------------------------------------------------------
(* Rows, copies and requests *)

(* A row is a function from some of the users to a status. *)
LEMMA RowIsFunction ==
  ASSUME NEW f \in Rows
  PROVE  /\ DOMAIN f \subseteq Users /\ f \in [DOMAIN f -> Status]
         /\ f # NoRow
  BY BatchesAssumption DEF Rows

LEMMA FunctionIsRow ==
  ASSUME NEW S \in SUBSET Users, NEW f \in [S -> Status]
  PROVE  f \in Rows
  BY DEF Rows

LEMMA IdleIsRequest ==
  /\ Idle \in RequestRecord /\ Shape(Idle)
  /\ Idle.op = "none" /\ Idle.todo = {}
  /\ \A b \in Batches : Idle.copy[b] = NoRow
  BY DEF Idle, RequestRecord, Copies, Op, Shape

LEMMA OnlyIsCopy ==
  ASSUME NEW b \in Batches, NEW c \in Rows \cup {NoRow}
  PROVE  /\ Only(b, c) \in Copies /\ Only(b, c)[b] = c
         /\ \A d \in Batches \ {b} : Only(b, c)[d] = NoRow
  BY DEF Only, Idle, Copies

(* A request of the right shape put in the place of another. *)
LEMMA ReplaceTypes ==
  ASSUME TypeInv, NEW r \in Requests, NEW x \in RequestRecord, Shape(x),
         req' = [req EXCEPT ![r] = x]
  PROVE  /\ req' \in [Requests -> RequestRecord]
         /\ \A q \in Requests : Shape(req'[q])
         /\ req'[r] = x /\ \A q \in Requests \ {r} : req'[q] = req[q]
  BY DEF TypeInv

LEMMA GoesEffect ==
  ASSUME TypeInv, NEW r \in Requests, NEW op \in Op, NEW copy \in Copies,
         NEW todo \in SUBSET (Batches \cup Users), Goes(r, op, copy, todo),
         Shape([op |-> op, copy |-> copy, todo |-> todo])
  PROVE  /\ req' \in [Requests -> RequestRecord]
         /\ \A q \in Requests : Shape(req'[q])
         /\ req'[r].op = op /\ req'[r].copy = copy /\ req'[r].todo = todo
         /\ \A q \in Requests \ {r} : req'[q] = req[q]
<1> DEFINE x == [op |-> op, copy |-> copy, todo |-> todo]
<1>1. x \in RequestRecord /\ x.op = op /\ x.copy = copy /\ x.todo = todo
  BY DEF RequestRecord
<1>2. req' = [req EXCEPT ![r] = x] /\ Shape(x)
  BY DEF Goes
<1> HIDE DEF x
<1> QED
  BY <1>1, <1>2, ReplaceTypes

(* A request that ends. *)
LEMMA EndEffect ==
  ASSUME TypeInv, NEW r \in Requests, req' = [req EXCEPT ![r] = Idle]
  PROVE  /\ req' \in [Requests -> RequestRecord]
         /\ \A q \in Requests : Shape(req'[q])
         /\ req'[r] = Idle /\ \A q \in Requests \ {r} : req'[q] = req[q]
  BY IdleIsRequest, ReplaceTypes

(* Marking keeps every mark of the copies it keeps. *)
LEMMA MarksEffect ==
  ASSUME TypeInv, NEW r \in Requests, NEW op \in {"update", "save"},
         NEW marks, \A b \in Batches : marks[b] \subseteq Candidates(r, b),
         Marks(r, op, marks)
  PROVE  /\ req' \in [Requests -> RequestRecord]
         /\ \A q \in Requests : Shape(req'[q])
         /\ \A q \in Requests \ {r} : req'[q] = req[q]
         /\ req'[r].op # "delete"
         /\ \A b \in Batches, u \in Users :
              req'[r].copy[b] # NoRow =>
                /\ req[r].copy[b] # NoRow
                /\ Has(req'[r].copy, b, u) => Has(req[r].copy, b, u)
                /\ IsUsed(req[r].copy, b, u) => IsUsed(req'[r].copy, b, u)
<1> DEFINE todo == {b \in Batches : marks[b] # {}}
           row2(b) == [u \in DOMAIN req[r].copy[b] |->
                         IF u \in marks[b] THEN "used" ELSE req[r].copy[b][u]]
           copy == [b \in Batches |-> IF b \notin todo THEN NoRow ELSE row2(b)]
<1>1. req[r] \in RequestRecord /\ req[r].copy \in Copies
  BY DEF TypeInv, RequestRecord
<1>2. ASSUME NEW b \in todo
      PROVE  /\ req[r].copy[b] \in Rows
             /\ row2(b) \in Rows
             /\ copy[b] = row2(b)
  <2>1. PICK u \in marks[b] : TRUE
    BY <1>2
  <2>2. req[r].copy[b] \in Rows
    BY <1>1, <2>1 DEF Candidates, IsAvailable, Has, Copies
  <2>3. DOMAIN req[r].copy[b] \subseteq Users
        /\ req[r].copy[b] \in [DOMAIN req[r].copy[b] -> Status]
    BY <2>2, RowIsFunction
  <2>4. row2(b) \in [DOMAIN req[r].copy[b] -> Status]
    BY <2>3 DEF Status
  <2> QED
    BY <2>2, <2>3, <2>4, FunctionIsRow
<1>3. copy \in Copies
  BY <1>2 DEF Copies
<1>4. CASE todo = {}
  <2>1. req' = [req EXCEPT ![r] = Idle]
    BY <1>4 DEF Marks
  <2> QED
    BY <2>1, EndEffect, IdleIsRequest
<1>5. CASE todo # {}
  <2> DEFINE x == [op |-> op, copy |-> copy, todo |-> todo]
  <2>1. req' = [req EXCEPT ![r] = x]
    BY <1>5 DEF Marks
  <2>2. /\ x \in RequestRecord /\ Shape(x)
        /\ x.op = op /\ x.copy = copy
    BY <1>3 DEF RequestRecord, Op, Shape
  <2> HIDE DEF x
  <2>3. /\ req' \in [Requests -> RequestRecord]
        /\ \A q \in Requests : Shape(req'[q])
        /\ req'[r] = x /\ \A q \in Requests \ {r} : req'[q] = req[q]
    BY <2>1, <2>2, ReplaceTypes
  <2>4. ASSUME NEW b \in Batches, NEW u \in Users, copy[b] # NoRow
        PROVE  /\ req[r].copy[b] # NoRow
               /\ Has(copy, b, u) => Has(req[r].copy, b, u)
               /\ IsUsed(req[r].copy, b, u) => IsUsed(copy, b, u)
    <3>1. b \in todo
      BY <2>4
    <3>2. /\ req[r].copy[b] \in Rows /\ req[r].copy[b] # NoRow
          /\ copy[b] = row2(b)
      BY <1>2, <3>1, RowIsFunction
    <3>3. /\ DOMAIN row2(b) = DOMAIN req[r].copy[b]
          /\ \A v \in DOMAIN req[r].copy[b] :
               req[r].copy[b][v] = "used" => row2(b)[v] = "used"
      OBVIOUS
    <3> HIDE DEF row2, copy, todo
    <3> QED
      BY <2>4, <3>2, <3>3 DEF Has, IsUsed
  <2>5. req'[r].op # "delete"
    BY <2>2, <2>3
  <2> HIDE DEF copy
  <2> QED
    BY <2>2, <2>3, <2>4, <2>5
<1> QED
  BY <1>4, <1>5

-----------------------------------------------------------------------------
(* What each action does to the requests *)

LEMMA StartsEffect ==
  ASSUME TypeInv, NEW r \in Requests, NEW op \in Op, NEW copy \in Copies,
         NEW todo \in SUBSET (Batches \cup Users), Starts(r, op, copy, todo),
         Shape([op |-> op, copy |-> copy, todo |-> todo])
  PROVE  /\ TypeInv'
         /\ UNCHANGED <<row, kept>>
         /\ req'[r].op = op /\ req'[r].copy = copy /\ req'[r].todo = todo
         /\ \A q \in Requests \ {r} : req'[q] = req[q]
<1>1. Goes(r, op, copy, todo) /\ UNCHANGED <<row, router, kept>>
  BY DEF Starts
<1> QED
  BY <1>1, GoesEffect DEF TypeInv

(* A request that changes only itself keeps the invariant when the copies   *)
(* it goes on with do.                                                      *)
LEMMA OneRequestMoves ==
  ASSUME TypeInv, SparedInv, NEW r \in Requests, UNCHANGED <<row, kept>>,
         \A q \in Requests \ {r} : req'[q] = req[q],
         \A k \in kept :
           /\ WorksOn(r, k[1])' /\ Has(req'[r].copy, k[1], k[2])
                => IsUsed(req'[r].copy, k[1], k[2])
           /\ req'[r].op = "delete" /\ req'[r].copy[k[1]] # NoRow
                => k[2] \notin req'[r].todo
  PROVE  SparedInv'
  BY DEF SparedInv, UsedIsSpared, CopiesAgree, WorksOn

(* A request that reads the rows it goes on with, and lists for removal     *)
(* only what is available in them.                                          *)
LEMMA ReadsRows ==
  ASSUME TypeInv, SparedInv, NEW r \in Requests, NEW op \in Op,
         NEW copy \in Copies, NEW todo \in SUBSET (Batches \cup Users),
         Starts(r, op, copy, todo),
         Shape([op |-> op, copy |-> copy, todo |-> todo]),
         \A b \in Batches : copy[b] # NoRow /\ op # "listed" =>
           \A u \in Users : IsUsed(row, b, u) =>
             (Has(copy, b, u) => IsUsed(copy, b, u)) /\ (op = "delete" => u \notin todo)
  PROVE  TypeInv' /\ SparedInv'
<1>1. /\ TypeInv' /\ UNCHANGED <<row, kept>>
      /\ req'[r].op = op /\ req'[r].copy = copy /\ req'[r].todo = todo
      /\ \A q \in Requests \ {r} : req'[q] = req[q]
  BY StartsEffect
<1>2. ASSUME NEW k \in kept
      PROVE  /\ WorksOn(r, k[1])' /\ Has(req'[r].copy, k[1], k[2])
                  => IsUsed(req'[r].copy, k[1], k[2])
             /\ req'[r].op = "delete" /\ req'[r].copy[k[1]] # NoRow
                  => k[2] \notin req'[r].todo
  <2>1. k[1] \in Batches /\ k[2] \in Users /\ IsUsed(row, k[1], k[2])
    BY DEF TypeInv, SparedInv, UsedIsSpared
  <2> QED
    BY <1>1, <2>1 DEF WorksOn
<1> QED
  BY <1>1, <1>2, OneRequestMoves

LEMMA MarkUsedStep ==
  ASSUME TypeInv, SparedInv, NEW r \in Requests, NEW b \in Batches,
         NEW u \in Users, MarkUsed(r, b, u)
  PROVE  TypeInv' /\ SparedInv'
<1> DEFINE c == [row[b] EXCEPT ![u] = "used"]
<1>1. row[b] \in Rows /\ u \in DOMAIN row[b] /\ Starts(r, "save", Only(b, c), {b})
  BY DEF MarkUsed, Has, TypeInv, Copies
<1>2. DOMAIN row[b] \subseteq Users /\ row[b] \in [DOMAIN row[b] -> Status]
  BY <1>1, RowIsFunction
<1>3. c \in [DOMAIN row[b] -> Status]
  BY <1>2 DEF Status
<1>4. /\ c \in Rows
      /\ \A v \in DOMAIN c : v \in DOMAIN row[b] /\ (row[b][v] = "used" => c[v] = "used")
  BY <1>2, <1>3, FunctionIsRow
<1> HIDE DEF c
<1>5. /\ Only(b, c) \in Copies /\ Only(b, c)[b] = c
      /\ \A d \in Batches \ {b} : Only(b, c)[d] = NoRow
  BY <1>4, OnlyIsCopy
<1>6. \A d \in Batches : Only(b, c)[d] # NoRow =>
        \A v \in Users : IsUsed(row, d, v) =>
          (Has(Only(b, c), d, v) => IsUsed(Only(b, c), d, v))
  BY <1>4, <1>5 DEF IsUsed, Has
<1>7. /\ "save" \in Op /\ {b} \in SUBSET (Batches \cup Users)
      /\ Shape([op |-> "save", copy |-> Only(b, c), todo |-> {b}])
  BY DEF Op, Shape
<1> QED
  BY <1>1, <1>5, <1>6, <1>7, ReadsRows

LEMMA LoadAllStep ==
  ASSUME TypeInv, SparedInv, NEW r \in Requests, NEW op \in {"sync", "auto"},
         LoadAll(r, op)
  PROVE  TypeInv' /\ SparedInv'
<1>1. Starts(r, op, row, {}) /\ row \in Copies
  BY DEF LoadAll, TypeInv
<1>2. op \in Op /\ op # "delete" /\ Shape([op |-> op, copy |-> row, todo |-> {}])
  BY DEF Op, Shape
<1> QED
  BY <1>1, <1>2, ReadsRows

(* A synchronisation goes on with copies that keep their marks. *)
LEMMA MarksStep ==
  ASSUME TypeInv, SparedInv, NEW r \in Requests, NEW op \in {"update", "save"},
         req[r].op # "listed",
         NEW marks, \A b \in Batches : marks[b] \subseteq Candidates(r, b),
         Marks(r, op, marks)
  PROVE  TypeInv' /\ SparedInv'
<1>1. /\ req' \in [Requests -> RequestRecord]
      /\ \A q \in Requests : Shape(req'[q])
      /\ \A q \in Requests \ {r} : req'[q] = req[q]
      /\ req'[r].op # "delete"
      /\ \A b \in Batches, u \in Users :
           req'[r].copy[b] # NoRow =>
             /\ req[r].copy[b] # NoRow
             /\ Has(req'[r].copy, b, u) => Has(req[r].copy, b, u)
             /\ IsUsed(req[r].copy, b, u) => IsUsed(req'[r].copy, b, u)
  BY MarksEffect
<1>2. UNCHANGED <<row, router, kept>>
  BY DEF Marks
<1>3. TypeInv'
  BY <1>1, <1>2 DEF TypeInv
<1>4. ASSUME NEW k \in kept, WorksOn(r, k[1])', Has(req'[r].copy, k[1], k[2])
      PROVE  IsUsed(req'[r].copy, k[1], k[2])
  <2>1. k[1] \in Batches /\ k[2] \in Users
    BY DEF TypeInv
  <2>2. WorksOn(r, k[1]) /\ Has(req[r].copy, k[1], k[2])
    BY <1>1, <1>4, <2>1 DEF WorksOn
  <2>3. IsUsed(req[r].copy, k[1], k[2])
    BY <2>2 DEF SparedInv, CopiesAgree
  <2> QED
    BY <1>1, <1>4, <2>1, <2>3 DEF WorksOn
<1> QED
  BY <1>1, <1>2, <1>3, <1>4, OneRequestMoves

LEMMA SyncListStep ==
  ASSUME TypeInv, SparedInv, NEW r \in Requests, SyncList(r)
  PROVE  TypeInv' /\ SparedInv'
<1> DEFINE marks == [b \in Batches |-> Candidates(r, b)]
<1>1. req[r].op = "sync" /\ Marks(r, "update", marks)
  BY DEF SyncList
<1>2. \A b \in Batches : marks[b] \subseteq Candidates(r, b)
  OBVIOUS
<1> HIDE DEF marks
<1> QED
  BY <1>1, <1>2, MarksStep

LEMMA AutoSyncListStep ==
  ASSUME TypeInv, SparedInv, NEW r \in Requests, AutoSyncList(r)
  PROVE  TypeInv' /\ SparedInv'
<1>1. PICK rank \in Bijection(Batches, 1 .. Cardinality(Batches)) :
        Marks(r, "save",
              [b \in Batches |->
                 {u \in Candidates(r, b) :
                    \A c \in Batches :
                      IsAvailable(req[r].copy, c, u) => rank[c] <= rank[b]}])
  BY DEF AutoSyncList
<1> DEFINE marks == [b \in Batches |->
                       {u \in Candidates(r, b) :
                          \A c \in Batches :
                            IsAvailable(req[r].copy, c, u) => rank[c] <= rank[b]}]
<1>2. req[r].op = "auto" /\ Marks(r, "save", marks)
  BY <1>1 DEF AutoSyncList
<1>3. \A b \in Batches : marks[b] \subseteq Candidates(r, b)
  OBVIOUS
<1> HIDE DEF marks
<1> QED
  BY <1>2, <1>3, MarksStep

LEMMA ImportUsersStep ==
  ASSUME TypeInv, SparedInv, NEW r \in Requests, ImportUsers(r)
  PROVE  TypeInv' /\ SparedInv'
<1> DEFINE listed == {u \in Users : router[u] # "absent"}
           c == [u \in listed |-> IF router[u] = "dated" THEN "used" ELSE "available"]
<1>1. c \in [listed -> Status] /\ listed \in SUBSET Users
  BY DEF Status
<1>2. c \in Rows
  BY <1>1, FunctionIsRow
<1>3. Starts(r, "listed", Only(Import, c), {})
  BY DEF ImportUsers
<1> HIDE DEF c, listed
<1>4. /\ Only(Import, c) \in Copies /\ Only(Import, c)[Import] = c
  BY <1>2, OnlyIsCopy DEF Batches
<1>5. /\ "listed" \in Op
      /\ Shape([op |-> "listed", copy |-> Only(Import, c), todo |-> {}])
  BY <1>2, <1>4, RowIsFunction DEF Op, Shape
<1> QED
  BY <1>3, <1>4, <1>5, ReadsRows
LEMMA ImportExistingStep ==
  ASSUME TypeInv, SparedInv, NEW r \in Requests, ImportExisting(r)
  PROVE  TypeInv' /\ SparedInv'
<1> DEFINE listed == DOMAIN req[r].copy[Import]
           c == [u \in listed |-> ImportedStatus(r, u)]
<1>1. req[r] \in RequestRecord /\ req[r].op = "listed" /\ Shape(req[r])
  BY DEF ImportExisting, TypeInv
<1>2. req[r].copy[Import] \in Rows
  BY <1>1, IdleIsRequest DEF Shape, RequestRecord, Copies, Batches
<1>3. listed \subseteq Users /\ req[r].copy[Import] \in [listed -> Status]
  BY <1>2, RowIsFunction
<1>4. \A u \in listed : /\ ImportedStatus(r, u) \in Status
                        /\ IsUsed(row, Import, u) => ImportedStatus(r, u) = "used"
  BY <1>3 DEF ImportedStatus, Status
<1>5. c \in Rows
  BY <1>3, <1>4, FunctionIsRow
<1>6. /\ DOMAIN c = listed
      /\ \A u \in listed : IsUsed(row, Import, u) => c[u] = "used"
  BY <1>4
<1>7. Goes(r, "save", Only(Import, c), {Import}) /\ UNCHANGED <<row, router, kept>>
  BY DEF ImportExisting
<1> HIDE DEF c, listed
<1>8. /\ Import \in Batches
      /\ Only(Import, c) \in Copies /\ Only(Import, c)[Import] = c
      /\ \A d \in Batches \ {Import} : Only(Import, c)[d] = NoRow
  BY <1>5, OnlyIsCopy DEF Batches
<1>9. /\ "save" \in Op /\ {Import} \in SUBSET (Batches \cup Users)
      /\ Shape([op |-> "save", copy |-> Only(Import, c), todo |-> {Import}])
  BY <1>8 DEF Op, Shape
<1>10. /\ req' \in [Requests -> RequestRecord]
       /\ \A q \in Requests : Shape(req'[q])
       /\ req'[r].op = "save" /\ req'[r].copy = Only(Import, c)
       /\ \A q \in Requests \ {r} : req'[q] = req[q]
  BY <1>7, <1>8, <1>9, GoesEffect
<1>11. TypeInv'
  BY <1>7, <1>10 DEF TypeInv
<1>12. ASSUME NEW k \in kept, WorksOn(r, k[1])', Has(req'[r].copy, k[1], k[2])
       PROVE  IsUsed(req'[r].copy, k[1], k[2])
  <2>1. k[1] \in Batches /\ k[2] \in Users /\ IsUsed(row, k[1], k[2])
    BY DEF TypeInv, SparedInv, UsedIsSpared
  <2>2. k[1] = Import /\ k[2] \in listed
    BY <1>6, <1>8, <1>10, <1>12, <2>1 DEF WorksOn, Has
  <2>3. c[k[2]] = "used"
    BY <1>6, <2>1, <2>2
  <2> QED
    BY <1>8, <1>10, <1>12, <2>2, <2>3 DEF IsUsed
<1> QED
  BY <1>7, <1>10, <1>11, <1>12, OneRequestMoves

(* A request that has written one of its rows forgets the copy of it. *)
LEMMA SaveRowRequest ==
  ASSUME TypeInv, NEW r \in Requests, NEW b \in Batches, SaveRow(r, b)
  PROVE  /\ req' \in [Requests -> RequestRecord]
         /\ \A q \in Requests : Shape(req'[q])
         /\ \A q \in Requests \ {r} : req'[q] = req[q]
         /\ req'[r].op # "delete" /\ req'[r].copy[b] = NoRow
         /\ \A c \in Batches \ {b} :
              req'[r].copy[c] = req[r].copy[c] \/ req'[r].copy[c] = NoRow
<1> DEFINE x == [req[r] EXCEPT !.todo = @ \ {b}, !.copy[b] = NoRow]
<1>1. /\ req[r] \in RequestRecord /\ Shape(req[r])
      /\ req[r].op \in {"update", "save"} /\ b \in req[r].todo
  BY DEF SaveRow, TypeInv
<1>0. /\ x.op = req[r].op /\ x.todo = req[r].todo \ {b}
      /\ x.copy = [req[r].copy EXCEPT ![b] = NoRow]
  BY <1>1 DEF RequestRecord
<1>2. CASE x.todo = {}
  <2>1. req' = [req EXCEPT ![r] = Idle]
    BY <1>2 DEF SaveRow, TypeInv
  <2> QED
    BY <2>1, EndEffect, IdleIsRequest
<1>3. CASE x.todo # {}
  <2>1. req' = [req EXCEPT ![r] = x]
    BY <1>3 DEF SaveRow, TypeInv
  <2>3. /\ x \in RequestRecord
        /\ x.copy[b] = NoRow
        /\ \A c \in Batches \ {b} : x.copy[c] = req[r].copy[c]
    BY <1>1 DEF RequestRecord, Copies
  <2>4. req[r].todo \subseteq Batches
    BY <1>1, IdleIsRequest DEF Shape
  <2> HIDE DEF x
  <2>5. Shape(x)
    BY <1>0, <1>1, <2>4 DEF Shape
  <2> QED
    BY <1>0, <1>1, <2>1, <2>3, <2>5, ReplaceTypes
<1> QED
  BY <1>2, <1>3

(* What is kept after a row is written is used in the row, and in every copy *)
(* of it: a new mark is kept only when nobody else works on the batch.       *)
LEMMA SaveRowStep ==
  ASSUME TypeInv, SparedInv, NEW r \in Requests, NEW b \in Batches, SaveRow(r, b)
  PROVE  TypeInv' /\ SparedInv'
<1>1. /\ req' \in [Requests -> RequestRecord]
      /\ \A q \in Requests : Shape(req'[q])
      /\ \A q \in Requests \ {r} : req'[q] = req[q]
      /\ req'[r].op # "delete" /\ req'[r].copy[b] = NoRow
      /\ \A c \in Batches \ {b} :
           req'[r].copy[c] = req[r].copy[c] \/ req'[r].copy[c] = NoRow
  BY SaveRowRequest
<1>2. req[r].op \in {"update", "save"} /\ UNCHANGED router
  BY DEF SaveRow
<1>3. CASE req[r].op = "update" /\ row[b] = NoRow
  <2>1. UNCHANGED <<row, kept>>
    BY <1>3 DEF SaveRow
  <2>2. TypeInv'
    BY <1>1, <1>2, <2>1 DEF TypeInv
  <2>3. ASSUME NEW k \in kept, WorksOn(r, k[1])', Has(req'[r].copy, k[1], k[2])
        PROVE  IsUsed(req'[r].copy, k[1], k[2])
    <3>1. k[1] \in Batches \ {b}
      BY <1>1, <2>3 DEF TypeInv, WorksOn
    <3>2. req'[r].copy[k[1]] = req[r].copy[k[1]] /\ req[r].copy[k[1]] # NoRow
      BY <1>1, <2>3, <3>1 DEF WorksOn
    <3>3. IsUsed(req[r].copy, k[1], k[2])
      BY <1>2, <2>3, <3>2 DEF SparedInv, CopiesAgree, WorksOn, Has
    <3> QED
      BY <3>2, <3>3 DEF IsUsed, Has
  <2> QED
    BY <1>1, <2>1, <2>2, <2>3, OneRequestMoves
<1>4. CASE ~(req[r].op = "update" /\ row[b] = NoRow)
  <2> DEFINE saved == req[r].copy
             alone == \A q \in Requests \ {r} : ~WorksOn(q, b)
  <2>1. /\ row' = [row EXCEPT ![b] = saved[b]]
        /\ kept' = {k \in kept : k[1] = b => Has(saved, b, k[2])}
                   \cup {k \in {b} \X Users : alone /\ IsUsed(saved, b, k[2])}
    BY <1>4 DEF SaveRow
  <2>2. saved \in Copies
    BY DEF TypeInv, RequestRecord
  <2>3. /\ row' \in Copies /\ row'[b] = saved[b]
        /\ \A c \in Batches \ {b} : row'[c] = row[c]
    BY <2>1, <2>2 DEF TypeInv, Copies
  <2>4. kept' \subseteq Batches \X Users
    BY <2>1 DEF TypeInv
  <2>5. TypeInv'
    BY <1>1, <1>2, <2>3, <2>4 DEF TypeInv
  <2>6. ASSUME NEW k \in kept'
        PROVE  /\ IsUsed(row', k[1], k[2])
               /\ \A q \in Requests :
                    /\ WorksOn(q, k[1])' /\ Has(req'[q].copy, k[1], k[2])
                         => IsUsed(req'[q].copy, k[1], k[2])
                    /\ req'[q].op = "delete" /\ req'[q].copy[k[1]] # NoRow
                         => k[2] \notin req'[q].todo
    <3>0. k[1] \in Batches /\ k[2] \in Users
      BY <2>4
    <3>1. CASE k[1] # b
      <4>1. k \in kept
        BY <2>1, <3>1
      <4>2. IsUsed(row', k[1], k[2])
        BY <2>3, <3>0, <3>1, <4>1 DEF SparedInv, UsedIsSpared, IsUsed, Has
      <4>3. ASSUME NEW q \in Requests, q # r
            PROVE  /\ WorksOn(q, k[1])' /\ Has(req'[q].copy, k[1], k[2])
                         => IsUsed(req'[q].copy, k[1], k[2])
                   /\ req'[q].op = "delete" /\ req'[q].copy[k[1]] # NoRow
                         => k[2] \notin req'[q].todo
        BY <1>1, <4>1, <4>3 DEF SparedInv, UsedIsSpared, CopiesAgree, WorksOn
      <4>4. ASSUME WorksOn(r, k[1])', Has(req'[r].copy, k[1], k[2])
            PROVE  IsUsed(req'[r].copy, k[1], k[2])
        <5>1. req'[r].copy[k[1]] = req[r].copy[k[1]] /\ WorksOn(r, k[1])
          BY <1>1, <1>2, <3>0, <3>1, <4>4 DEF WorksOn
        <5>2. IsUsed(req[r].copy, k[1], k[2])
          BY <4>1, <4>4, <5>1 DEF SparedInv, CopiesAgree, Has
        <5> QED
          BY <5>1, <5>2 DEF IsUsed, Has
      <4> QED
        BY <1>1, <4>2, <4>3, <4>4
    <3>2. CASE k[1] = b /\ k \in kept
      <4>1. Has(saved, b, k[2]) \/ (alone /\ IsUsed(saved, b, k[2]))
        BY <2>1, <3>2
      <4>2. IsUsed(saved, b, k[2])
        BY <1>2, <3>2, <4>1 DEF SparedInv, CopiesAgree, WorksOn, Has
      <4>3. IsUsed(row', b, k[2])
        BY <2>3, <4>2 DEF IsUsed, Has
      <4>4. ASSUME NEW q \in Requests, q # r
            PROVE  /\ WorksOn(q, b)' /\ Has(req'[q].copy, b, k[2])
                         => IsUsed(req'[q].copy, b, k[2])
                   /\ req'[q].op = "delete" /\ req'[q].copy[b] # NoRow
                         => k[2] \notin req'[q].todo
        BY <1>1, <3>2, <4>4 DEF SparedInv, UsedIsSpared, CopiesAgree, WorksOn
      <4> QED
        BY <1>1, <3>2, <4>3, <4>4 DEF WorksOn
    <3>3. CASE k[1] = b /\ k \notin kept
      <4>1. alone /\ IsUsed(saved, b, k[2])
        BY <2>1, <3>3
      <4>2. IsUsed(row', b, k[2])
        BY <2>3, <4>1 DEF IsUsed, Has
      <4>3. \A q \in Requests \ {r} : ~WorksOn(q, b)'
        BY <1>1, <4>1 DEF WorksOn
      <4> QED
        BY <1>1, <3>3, <4>2, <4>3 DEF WorksOn
    <3> QED
      BY <3>1, <3>2, <3>3
  <2> QED
    BY <2>5, <2>6 DEF SparedInv, UsedIsSpared, CopiesAgree
<1> QED
  BY <1>3, <1>4

LEMMA BeginDeleteStep ==
  ASSUME TypeInv, SparedInv, NEW r \in Requests, NEW b \in Batches,
         NEW deleteMikrotik \in BOOLEAN, BeginDelete(r, b, deleteMikrotik)
  PROVE  TypeInv' /\ SparedInv'
<1> DEFINE todo == {u \in Users : deleteMikrotik /\ IsAvailable(row, b, u)}
           c == row[b]
<1>1. Starts(r, "delete", Only(b, c), todo) /\ c \in Rows \cup {NoRow}
  BY DEF BeginDelete, TypeInv, Copies
<1>2. \A u \in Users : IsUsed(row, b, u) => u \notin todo
  BY DEF IsUsed, IsAvailable
<1>3. todo \in SUBSET Users
  OBVIOUS
<1> HIDE DEF todo
<1>4. /\ Only(b, c) \in Copies /\ Only(b, c)[b] = row[b]
      /\ \A d \in Batches \ {b} : Only(b, c)[d] = NoRow
  BY <1>1, OnlyIsCopy
<1>5. /\ "delete" \in Op /\ todo \in SUBSET (Batches \cup Users)
      /\ Shape([op |-> "delete", copy |-> Only(b, c), todo |-> todo])
  BY <1>3 DEF Op, Shape
<1>6. \A d \in Batches : Only(b, c)[d] # NoRow =>
        \A u \in Users : IsUsed(row, d, u) =>
          (Has(Only(b, c), d, u) => IsUsed(Only(b, c), d, u)) /\ u \notin todo
  BY <1>2, <1>4 DEF IsUsed, Has
<1> QED
  BY <1>1, <1>4, <1>5, <1>6, ReadsRows
LEMMA RemoveUserStep ==
  ASSUME TypeInv, SparedInv, NEW r \in Requests, NEW u \in Users, RemoveUser(r, u)
  PROVE  TypeInv' /\ SparedInv'
<1> DEFINE x == [req[r] EXCEPT !.todo = @ \ {u}]
<1>1. /\ req[r] \in RequestRecord /\ Shape(req[r])
      /\ req[r].op = "delete" /\ UNCHANGED <<row, kept>>
  BY DEF RemoveUser, TypeInv
<1>2. req' = [req EXCEPT ![r] = x]
  BY DEF RemoveUser, TypeInv
<1>3. /\ x \in RequestRecord
      /\ x.op = "delete" /\ x.copy = req[r].copy /\ x.todo = req[r].todo \ {u}
  BY <1>1 DEF RequestRecord
<1> HIDE DEF x
<1>4. Shape(x)
  BY <1>1, <1>3, IdleIsRequest DEF Shape
<1>5. /\ req' \in [Requests -> RequestRecord]
      /\ \A q \in Requests : Shape(req'[q])
      /\ req'[r] = x /\ \A q \in Requests \ {r} : req'[q] = req[q]
  BY <1>2, <1>3, <1>4, ReplaceTypes
<1>6. router' \in [Users -> {"absent", "fresh", "traffic", "dated"}]
  BY DEF RemoveUser, TypeInv
<1>7. TypeInv'
  BY <1>1, <1>5, <1>6 DEF TypeInv
<1>8. ASSUME NEW k \in kept
      PROVE  /\ WorksOn(r, k[1])' /\ Has(req'[r].copy, k[1], k[2])
                  => IsUsed(req'[r].copy, k[1], k[2])
             /\ req'[r].op = "delete" /\ req'[r].copy[k[1]] # NoRow
                  => k[2] \notin req'[r].todo
  BY <1>1, <1>3, <1>5 DEF SparedInv, UsedIsSpared, CopiesAgree, WorksOn
<1> QED
  BY <1>1, <1>5, <1>7, <1>8, OneRequestMoves

LEMMA DeleteRowStep ==
  ASSUME TypeInv, SparedInv, NEW r \in Requests, NEW b \in Batches, DeleteRow(r, b)
  PROVE  TypeInv' /\ SparedInv'
<1>1. /\ req' \in [Requests -> RequestRecord]
      /\ \A q \in Requests : Shape(req'[q])
      /\ req'[r] = Idle /\ \A q \in Requests \ {r} : req'[q] = req[q]
  BY EndEffect DEF DeleteRow
<1>2. /\ row' = [row EXCEPT ![b] = NoRow] /\ UNCHANGED router
      /\ kept' = {k \in kept : k[1] # b}
  BY DEF DeleteRow
<1>3. TypeInv'
  BY <1>1, <1>2 DEF TypeInv, Copies
<1>4. ASSUME NEW k \in kept'
      PROVE  k \in kept /\ k[1] \in Batches /\ row'[k[1]] = row[k[1]]
  BY <1>2 DEF TypeInv, Copies
<1>5. \A c \in Batches : ~WorksOn(r, c)' /\ req'[r].op # "delete"
  BY <1>1, IdleIsRequest DEF WorksOn
<1>6. UsedIsSpared'
  BY <1>1, <1>4, <1>5 DEF SparedInv, UsedIsSpared, IsUsed, Has
<1>7. CopiesAgree'
  BY <1>1, <1>4, <1>5 DEF SparedInv, CopiesAgree, WorksOn
<1> QED
  BY <1>3, <1>6, <1>7 DEF SparedInv

LEMMA FailsStep ==
  ASSUME TypeInv, SparedInv, NEW r \in Requests, Fails(r)
  PROVE  TypeInv' /\ SparedInv'
<1>1. /\ req' \in [Requests -> RequestRecord]
      /\ \A q \in Requests : Shape(req'[q])
      /\ req'[r] = Idle /\ \A q \in Requests \ {r} : req'[q] = req[q]
      /\ UNCHANGED <<row, router, kept>>
  BY EndEffect DEF Fails
<1>2. TypeInv'
  BY <1>1 DEF TypeInv
<1>3. \A c \in Batches : ~WorksOn(r, c)' /\ req'[r].op # "delete"
  BY <1>1, IdleIsRequest DEF WorksOn
<1>4. \A k \in kept : k[1] \in Batches
  BY DEF TypeInv
<1> QED
  BY <1>1, <1>2, <1>3, <1>4, OneRequestMoves

LEMMA RouterMovesStep ==
  ASSUME TypeInv, SparedInv, NEW u \in Users, RouterMoves(u)
  PROVE  TypeInv' /\ SparedInv'
<1>1. UNCHANGED <<row, req, kept>>
      /\ router' \in [Users -> {"absent", "fresh", "traffic", "dated"}]
  BY DEF RouterMoves, TypeInv
<1> QED
  BY <1>1 DEF TypeInv, SparedInv, UsedIsSpared, CopiesAgree, WorksOn

-----------------------------------------------------------------------------
(* The theorems *)

LEMMA InvInit == Init => TypeInv /\ SparedInv
<1> SUFFICES ASSUME Init PROVE TypeInv /\ SparedInv
  OBVIOUS
<1>1. ASSUME NEW b \in Batches
      PROVE  row[b] \in Rows \cup {NoRow}
  <2>1. CASE b = Import
    BY <2>1 DEF Init
  <2>2. CASE b # Import
    <3>1. Names[b] \in SUBSET Users /\ row[b] = [u \in Names[b] |-> "available"]
      BY <2>2, BatchesAssumption DEF Init, Batches
    <3>2. row[b] \in [Names[b] -> Status]
      BY <3>1 DEF Status
    <3> QED
      BY <3>1, <3>2, FunctionIsRow
  <2> QED
    BY <2>1, <2>2
<1>2. row \in Copies
  BY <1>1 DEF Init, Copies
<1>3. req \in [Requests -> RequestRecord] /\ \A r \in Requests : Shape(req[r])
  BY IdleIsRequest DEF Init
<1>4. TypeInv
  BY <1>2, <1>3 DEF Init, TypeInv
<1> QED
  BY <1>4 DEF Init, SparedInv, UsedIsSpared, CopiesAgree

LEMMA InvStep == TypeInv /\ SparedInv /\ [Next]_vars => TypeInv' /\ SparedInv'
<1> SUFFICES ASSUME TypeInv, SparedInv, [Next]_vars PROVE TypeInv' /\ SparedInv'
  OBVIOUS
<1>1. CASE UNCHANGED vars
  BY <1>1 DEF vars, TypeInv, SparedInv, UsedIsSpared, CopiesAgree, WorksOn
<1>2. ASSUME NEW u \in Users, RouterMoves(u) PROVE TypeInv' /\ SparedInv'
  BY <1>2, RouterMovesStep
<1>3. ASSUME NEW r \in Requests, Request(r) PROVE TypeInv' /\ SparedInv'
  <2>1. ASSUME NEW b \in Batches, NEW u \in Users, MarkUsed(r, b, u)
        PROVE  TypeInv' /\ SparedInv'
    BY <2>1, MarkUsedStep
  <2>2. ASSUME NEW op \in {"sync", "auto"}, LoadAll(r, op)
        PROVE  TypeInv' /\ SparedInv'
    BY <2>2, LoadAllStep
  <2>3. CASE SyncList(r)
    BY <2>3, SyncListStep
  <2>4. CASE AutoSyncList(r)
    BY <2>4, AutoSyncListStep
  <2>5. CASE ImportUsers(r)
    BY <2>5, ImportUsersStep
  <2>6. CASE ImportExisting(r)
    BY <2>6, ImportExistingStep
  <2>7. ASSUME NEW b \in Batches, SaveRow(r, b) PROVE TypeInv' /\ SparedInv'
    BY <2>7, SaveRowStep
  <2>8. ASSUME NEW b \in Batches, DeleteRow(r, b) PROVE TypeInv' /\ SparedInv'
    BY <2>8, DeleteRowStep
  <2>9. ASSUME NEW b \in Batches, NEW deleteMikrotik \in BOOLEAN,
               BeginDelete(r, b, deleteMikrotik)
        PROVE  TypeInv' /\ SparedInv'
    BY <2>9, BeginDeleteStep
  <2>10. ASSUME NEW u \in Users, RemoveUser(r, u) PROVE TypeInv' /\ SparedInv'
    BY <2>10, RemoveUserStep
  <2>11. CASE Fails(r)
    BY <2>11, FailsStep
  <2> QED
    BY <1>3, <2>1, <2>2, <2>3, <2>4, <2>5, <2>6, <2>7, <2>8, <2>9, <2>10, <2>11
       DEF Request
<1> QED
  BY <1>1, <1>2, <1>3 DEF Next

(* The two invariants together are inductive. *)
LEMMA Inductive == Spec => [](TypeInv /\ SparedInv)
  BY InvInit, InvStep, PTL DEF Spec

(* The rows, the router and the requests keep their shapes: a request has    *)
(* only batches left to write, or only users left to remove.                 *)
THEOREM BatchTyping == Spec => []TypeOK
<1>1. TypeInv => TypeOK
  <2> SUFFICES ASSUME TypeInv PROVE TypeOK
    OBVIOUS
  <2>1. ASSUME NEW r \in Requests
        PROVE  /\ req[r].copy \in [Batches -> Rows \cup {NoRow}]
               /\ Shape(req[r])
    BY DEF TypeInv, RequestRecord, Copies
  <2> QED
    BY <2>1 DEF TypeInv, TypeOK, Copies, Shape
<1> QED
  BY Inductive, <1>1, PTL

(* A voucher marked as used while no other request worked on its batch stays *)
(* used until the batch is deleted or an import no longer finds it, and a    *)
(* deletion under way does not remove it from the router.                    *)
THEOREM UsedSpared == Spec => []UsedIsSpared
<1>1. SparedInv => UsedIsSpared
  BY DEF SparedInv
<1> QED
  BY Inductive, <1>1, PTL
=============================================================================
