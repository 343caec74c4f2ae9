--------------------------- MODULE VoucherBatches ---------------------------
(***************************************************************************)
(* Who has used which voucher: the rows of voucher_batches in              *)
(* erp-node-service, the requests that mark their vouchers as used (by     *)
(* hand, or from what the router knows), the import of a router profile as *)
(* a batch, and the deletion of a batch together with its router users.    *)
(*                                                                         *)
(* A request reads rows, awaits the router or the database, and writes     *)
(* whole rows back; it keeps no lock and no version.  An action is what    *)
(* runs between two awaits.  One router session with one hotspot profile;  *)
(* the creation of a batch and its way to the router is BatchProvisioning. *)
(***************************************************************************)
EXTENDS Integers, FiniteSets, Functions

CONSTANTS
  Users,      \* usernames of vouchers
  Panel,      \* batches created in the panel
  Import,     \* the batch IMPORT-<profile>-<session>
  Names,      \* Names[b]: the usernames of batch b of the panel
  Requests,   \* requests in progress at a time
  NoRow       \* the row is not there

Batches == Panel \cup {Import}
Status == {"available", "used"}
Rows == UNION {[S -> Status] : S \in SUBSET Users}

ASSUME BatchesAssumption ==
  /\ IsFiniteSet(Users) /\ IsFiniteSet(Panel) /\ Import \notin Panel
  /\ Names \in [Panel -> SUBSET Users]
  /\ NoRow \notin Rows

VARIABLES
  row,      \* voucher_batches: the status of each voucher, or NoRow
  router,   \* hotspot users: "absent", "fresh", "traffic" (bytes-in) or
            \* "dated" (the login script has put a date into the comment)
  req,      \* requests in progress
  kept      \* history: <<batch, user>> marked used while no other request
            \* was at work on a copy of the batch

vars == <<row, router, req, kept>>

\* copy: the rows a request has read and is going to write; todo: the
\* batches it still has to write, or the users it still has to remove.
Idle == [op |-> "none", copy |-> [b \in Batches |-> NoRow], todo |-> {}]

Has(rows, b, u) == rows[b] # NoRow /\ u \in DOMAIN rows[b]
IsUsed(rows, b, u) == Has(rows, b, u) /\ rows[b][u] = "used"
IsAvailable(rows, b, u) == Has(rows, b, u) /\ rows[b][u] = "available"

TypeOK ==
  /\ row \in [Batches -> Rows \cup {NoRow}]
  /\ router \in [Users -> {"absent", "fresh", "traffic", "dated"}]
  /\ \A r \in Requests :
       /\ req[r].copy \in [Batches -> Rows \cup {NoRow}]
       /\ \/ req[r] = Idle
          \/ req[r].op \in {"sync", "auto", "listed"} /\ req[r].todo = {}
          \/ req[r].op \in {"update", "save"} /\ req[r].todo \subseteq Batches
          \/ req[r].op = "delete" /\ req[r].todo \subseteq Users
  /\ kept \subseteq Batches \X Users

Init ==
  /\ row = [b \in Batches |->
              IF b = Import THEN NoRow ELSE [u \in Names[b] |-> "available"]]
  /\ router = [u \in Users |-> "fresh"]
  /\ req = [r \in Requests |-> Idle]
  /\ kept = {}

Only(b, copy) == [Idle.copy EXCEPT ![b] = copy]

Goes(r, op, copy, todo) ==
  req' = [req EXCEPT ![r] = [op |-> op, copy |-> copy, todo |-> todo]]

Starts(r, op, copy, todo) ==
  /\ req[r] = Idle
  /\ Goes(r, op, copy, todo)
  /\ UNCHANGED <<row, router, kept>>

-----------------------------------------------------------------------------
(* What the three kinds of requests that mark vouchers read. *)

\* markUsed: the row of the batch, with one more mark.
MarkUsed(r, b, u) ==
  /\ Has(row, b, u)
  /\ Starts(r, "save", Only(b, [row[b] EXCEPT ![u] = "used"]), {b})

\* Both synchronisations read every row, then list the router's users.
LoadAll(r, op) ==
  /\ IF op = "auto"
     THEN \E b \in Batches, u \in Users : IsAvailable(row, b, u)
     ELSE \E b \in Batches : row[b] # NoRow
  /\ Starts(r, op, row, {})

SeenInUse(u) == router[u] \in {"traffic", "dated"}

\* The rows in which marks[b] marks something are written one by one; the
\* other copies are dropped.
Marks(r, op, marks) ==
  LET todo == {b \in Batches : marks[b] # {}}
      copy == [b \in Batches |->
                 IF b \notin todo THEN NoRow
                 ELSE [u \in DOMAIN req[r].copy[b] |->
                         IF u \in marks[b] THEN "used" ELSE req[r].copy[b][u]]]
  IN  /\ req' = [req EXCEPT ![r] =
                   IF todo = {} THEN Idle
                   ELSE [op |-> op, copy |-> copy, todo |-> todo]]
      /\ UNCHANGED <<row, router, kept>>

Candidates(r, b) ==
  {u \in Users : IsAvailable(req[r].copy, b, u) /\ SeenInUse(u)}

\* syncUsedFromMikrotik marks a user in every batch that has it.
SyncList(r) ==
  /\ req[r].op = "sync"
  /\ Marks(r, "update", [b \in Batches |-> Candidates(r, b)])

\* autoSyncUsed keeps one voucher per username: that of the last batch, in
\* whatever order the database returned the rows.
AutoSyncList(r) ==
  /\ req[r].op = "auto"
  /\ \E rank \in Bijection(Batches, 1 .. Cardinality(Batches)) :
       Marks(r, "save",
             [b \in Batches |->
                {u \in Candidates(r, b) :
                   \A c \in Batches :
                     IsAvailable(req[r].copy, c, u) => rank[c] <= rank[b]}])

-----------------------------------------------------------------------------
(* importOneProfile: the router's users become the vouchers of a batch.    *)

\* A date in the comment is the only sign of use that the import knows.
ImportUsers(r) ==
  LET listed == {u \in Users : router[u] # "absent"}
  IN  Starts(r, "listed",
             Only(Import, [u \in listed |-> IF router[u] = "dated" THEN "used"
                                            ELSE "available"]), {})

\* Mutants: the status comes from the router's date alone; the router's state
\* is taken for a status.
RouterStatus(r, u) == req[r].copy[Import][u]
RouterState(r, u) == router[u]

\* What the batch has recorded of a user stays, but for a date.
ImportedStatus(r, u) ==
  IF IsUsed(row, Import, u) THEN "used" ELSE req[r].copy[Import][u]

ImportExisting(r) ==
  /\ req[r].op = "listed"
  /\ Goes(r, "save",
          Only(Import, [u \in DOMAIN req[r].copy[Import] |-> ImportedStatus(r, u)]),
          {Import})
  /\ UNCHANGED <<row, router, kept>>

-----------------------------------------------------------------------------
(* Writing, and deleting. *)

\* A request works on what it has read of b (the import's listing of the
\* router, op "listed", is nothing read of b).
WorksOn(q, b) == req[q].op # "listed" /\ req[q].copy[b] # NoRow

\* saveBatch and save write the copy whole and insert a row that was deleted
\* meanwhile; the update of syncUsedFromMikrotik leaves it deleted.
SaveRow(r, b) ==
  /\ req[r].op \in {"update", "save"} /\ b \in req[r].todo
  /\ LET rest == [req[r] EXCEPT !.todo = @ \ {b}, !.copy[b] = NoRow]
     IN  req' = [req EXCEPT ![r] = IF rest.todo = {} THEN Idle ELSE rest]
  /\ IF req[r].op = "update" /\ row[b] = NoRow
     THEN UNCHANGED <<row, kept>>
     ELSE LET alone == \A q \in Requests \ {r} : ~WorksOn(q, b)
              saved == req[r].copy
          IN  /\ row' = [row EXCEPT ![b] = saved[b]]
              /\ kept' = {k \in kept : k[1] = b => Has(saved, b, k[2])}
                         \cup {k \in {b} \X Users : alone /\ IsUsed(saved, b, k[2])}
  /\ UNCHANGED router

\* deleteWithRouter: the vouchers that are available in the row it reads are
\* removed from the router, unless the operator keeps them.
BeginDelete(r, b, deleteMikrotik) ==
  /\ row[b] # NoRow
  /\ Starts(r, "delete", Only(b, row[b]),
            {u \in Users : deleteMikrotik /\ IsAvailable(row, b, u)})

\* A removal that fails is counted only.
RemoveUser(r, u) ==
  /\ req[r].op = "delete" /\ u \in req[r].todo
  /\ router' \in {router, [router EXCEPT ![u] = "absent"]}
  /\ req' = [req EXCEPT ![r].todo = @ \ {u}]
  /\ UNCHANGED <<row, kept>>

DeleteRow(r, b) ==
  /\ req[r].op = "delete" /\ req[r].todo = {} /\ req[r].copy[b] # NoRow
  /\ row' = [row EXCEPT ![b] = NoRow]
  /\ req' = [req EXCEPT ![r] = Idle]
  /\ kept' = {k \in kept : k[1] # b}
  /\ UNCHANGED router

\* The router does not answer, the database throws, or the service restarts.
Fails(r) ==
  /\ req[r] # Idle
  /\ req' = [req EXCEPT ![r] = Idle]
  /\ UNCHANGED <<row, router, kept>>

-----------------------------------------------------------------------------
(* The router: a customer logs in, and a profile with an expiry mode writes *)
(* a date; the expiry script removes the user.                              *)

RouterMoves(u) ==
  /\ \/ router[u] = "fresh" /\ router' \in {[router EXCEPT ![u] = "traffic"],
                                            [router EXCEPT ![u] = "dated"]}
     \/ router[u] = "dated" /\ router' = [router EXCEPT ![u] = "absent"]
  /\ UNCHANGED <<row, req, kept>>

Request(r) ==
  \/ \E b \in Batches, u \in Users : MarkUsed(r, b, u)
  \/ \E op \in {"sync", "auto"} : LoadAll(r, op)
  \/ SyncList(r) \/ AutoSyncList(r)
  \/ ImportUsers(r) \/ ImportExisting(r)
  \/ \E b \in Batches : SaveRow(r, b) \/ DeleteRow(r, b)
  \/ \E b \in Batches, deleteMikrotik \in BOOLEAN : BeginDelete(r, b, deleteMikrotik)
  \/ \E u \in Users : RemoveUser(r, u)
  \/ Fails(r)

Next == \/ \E r \in Requests : Request(r)
        \/ \E u \in Users : RouterMoves(u)

Spec == Init /\ [][Next]_vars

-----------------------------------------------------------------------------
(* Properties *)

\* "hapus voucher yang masih available dari MikroTik" (app.js, deleteBatch):
\* a voucher that was marked used stays used until its batch is deleted or
\* an import no longer finds it, and the deletion spares it; synchronising,
\* importing and marking others lose no mark.  The code guarantees this for
\* a mark that was written while no other request worked on a copy of the
\* batch; a mark written under such a copy may be lost with its save, and
\* the customer's user is then removed.
UsedIsSpared ==
  \A k \in kept :
    /\ IsUsed(row, k[1], k[2])
    /\ \A r \in Requests :
         req[r].op = "delete" /\ req[r].copy[k[1]] # NoRow => k[2] \notin req[r].todo
=============================================================================
