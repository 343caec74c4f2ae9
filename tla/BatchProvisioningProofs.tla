----------------------- MODULE BatchProvisioningProofs -----------------------
(***************************************************************************)
(* Proofs about BatchProvisioning, for every number of batches with any    *)
(* names (two batches may hold the same one), of timer calls and of        *)
(* faults, and for every value of the read sizes and of                    *)
(* REDIS_MAX_DELIVERIES.                                                   *)
(***************************************************************************)
EXTENDS BatchProvisioning, SequenceTheorems, FiniteSetTheorems, WellFoundedInduction, TLAPS

(* The consumer is handling the oldest entry of consumer.todo. *)
InHand == consumer.pc \in {"list", "add", "deadLetter", "ack"}

Dealt == provisioned \cup dlq

(* Whatever is on its way stems from a batch that was created. *)
RowsInv ==
  /\ \A f \in Flushes : /\ flush[f].pc # "idle" => flush[f].todo # {}
                        /\ \A b \in flush[f].todo : event[b] # "none"
  /\ \A i \in Entries : event[stream[i]] # "none"
  /\ \A b \in Dealt : event[b] # "none"

(* What the group has delivered lies between its start and last; the         *)
(* consumer handles entries that are pending.                                *)
GroupInv ==
  /\ groupStart = NoGroup => last = 0 /\ consumer.pc = "down"
  /\ groupStart <= last
  /\ \A i \in pending : groupStart < i /\ i <= last /\ count[i] > 0
  /\ consumer.todo \subseteq pending
  /\ consumer.todo # {} <=> InHand

(* An acknowledged entry has been dealt with. *)
DealtInv ==
  /\ groupStart # NoGroup => \A i \in Acked : stream[i] \in Dealt
  /\ consumer.pc = "ack" => Provisioning \in Dealt

(* An entry on its way to the dead-letter stream was tried often enough. *)
Enough(n) == n >= (IF MaxDeliveries = 1 THEN 1 ELSE MaxDeliveries + 1)
RetriesInv ==
  /\ ParkedAfterRetries
  /\ consumer.pc = "deadLetter" => Enough(count[Entry])

(* A name is on the router for batch b, or a deletion may have removed it. *)
Kept(b, u) == router[u] = b \/ \E c \in Batches : Withdrawn(c) /\ u \in Names(c)

(* What the handler has read of the router and what it has added since are   *)
(* still there, unless a deletion came in between.                           *)
RouterInv ==
  /\ \A b \in Batches : /\ removing[b] \subseteq Names(b)
                        /\ removing[b] # {} => Withdrawn(b)
  /\ \A b \in Batches, u \in Users : consumer.existing[u] = b => Kept(b, u)
  /\ \A b \in provisioned : \A u \in Names(b) : Kept(b, u)
  /\ consumer.pc = "add" =>
       /\ consumer.next \in 1 .. Len(Vouchers[Provisioning]) + 1
       /\ \A k \in 1 .. consumer.next - 1 : Kept(Provisioning, Vouchers[Provisioning][k])

Inv == TypeOK /\ RowsInv /\ GroupInv /\ DealtInv /\ RetriesInv /\ RouterInv

-----------------------------------------------------------------------------
(* The oldest entry, and the stream as it grows *)

LEMMA Least ==
  ASSUME NEW S, S \subseteq Nat, S # {}
  PROVE  First(S) \in S /\ \A y \in S : First(S) <= y
<1>1. PICK x \in S : \A y \in S : <<y, x>> \notin OpToRel(<, Nat)
  BY NatLessThanWellFounded, WFMin
<1>2. ASSUME NEW y \in S PROVE x <= y
  <2>1. x \in Nat /\ y \in Nat /\ ~(y < x)
    BY <1>1 DEF OpToRel
  <2> QED
    BY <2>1
<1> QED
  BY <1>2 DEF First

LEMMA EntryIsPending ==
  ASSUME Inv, InHand
  PROVE  /\ Entry \in consumer.todo /\ Entry \in pending /\ Entry \in Entries
         /\ Provisioning \in Batches /\ event[Provisioning] # "none"
         /\ count[Entry] \in Nat /\ count[Entry] > 0
         /\ groupStart # NoGroup
<1>1. /\ consumer.todo \subseteq pending /\ consumer.todo # {} /\ pending \subseteq Entries
      /\ groupStart # NoGroup
  BY DEF Inv, TypeOK, GroupInv, InHand
<1>2. Entries \subseteq Nat
  BY DEF Entries
<1>3. Entry \in consumer.todo
  BY <1>1, <1>2, Least DEF Entry
<1>4. \A i \in Entries : stream[i] \in Batches /\ count[i] \in Nat
  BY DEF Inv, TypeOK, Entries
<1> QED
  BY <1>1, <1>3, <1>4 DEF Inv, RowsInv, GroupInv, Provisioning

LEMMA VouchersOf ==
  ASSUME NEW b \in Batches
  PROVE  /\ Len(Vouchers[b]) \in Nat /\ Names(b) \subseteq Users
         /\ \A k \in 1 .. Len(Vouchers[b]) : Vouchers[b][k] \in Names(b)
         /\ \A u \in Names(b) : \E k \in 1 .. Len(Vouchers[b]) : u = Vouchers[b][k]
<1>1. Vouchers[b] \in Seq(Names(b))
  BY BatchesAssumption
<1> QED
  BY <1>1 DEF Names, Users

(* Entries are added behind the others and never changed. *)
Grows ==
  /\ stream' \in Seq(Batches)
  /\ Len(stream) <= Len(stream')
  /\ \A i \in Entries : stream'[i] = stream[i] /\ count'[i] = count[i]
  /\ \A i \in Entries' : i \in Entries \/ event[stream'[i]] # "none"
  /\ count' \in [Entries' -> Nat]

LEMMA AppendGrows ==
  ASSUME TypeOK, NEW b \in Batches, event[b] # "none", Append1(b)
  PROVE  Grows
<1>1. /\ stream \in Seq(Batches) /\ Len(stream) \in Nat
      /\ count \in [1 .. Len(stream) -> Nat]
  BY DEF TypeOK, Entries
<1>2. count \in Seq(Nat) /\ Len(count) = Len(stream)
  BY <1>1
<1>3. /\ stream' \in Seq(Batches) /\ Len(stream') = Len(stream) + 1
      /\ \A i \in 1 .. Len(stream) : stream'[i] = stream[i]
      /\ stream'[Len(stream) + 1] = b
  BY <1>1, AppendProperties DEF Append1
<1>4. /\ count' \in Seq(Nat) /\ Len(count') = Len(stream) + 1
      /\ \A i \in 1 .. Len(stream) : count'[i] = count[i]
  BY <1>2, AppendProperties DEF Append1
<1>5. count' \in [1 .. Len(stream') -> Nat]
  BY <1>3, <1>4
<1> QED
  BY <1>1, <1>3, <1>4, <1>5 DEF Grows, Entries

LEMMA SameStreamGrows ==
  ASSUME TypeOK, stream' = stream, count' = count PROVE Grows
  BY DEF TypeOK, Grows, Entries

LEMMA Faults ==
  ASSUME Inv, faults' = faults \/ Fault PROVE faults' \in 0 .. MaxFaults
  BY SizesAssumption DEF Inv, TypeOK, Fault

-----------------------------------------------------------------------------
(* What is on the router *)

(* A name leaves the router only because of a deletion. *)
LEMMA KeptStays ==
  ASSUME \A c \in Batches : Withdrawn(c) => Withdrawn(c)',
         \A u \in Users : \/ router'[u] = router[u] \/ router[u] = Nobody
                          \/ \E c \in Batches : Withdrawn(c) /\ u \in Names(c)
  PROVE  \A b \in Batches, u \in Users : Kept(b, u) => Kept(b, u)'
<1> SUFFICES ASSUME NEW b \in Batches, NEW u \in Users, Kept(b, u) PROVE Kept(b, u)'
  OBVIOUS
<1>1. b # Nobody
  BY BatchesAssumption
<1> QED
  BY <1>1 DEF Kept

(* Batches are created, deleted and published; the consumer does nothing. *)
LEMMA OthersKeep ==
  ASSUME Inv,
         batch' \in [Batches -> {"none", "present", "deleting", "deleted"}],
         \A c \in Batches : Withdrawn(c) => Withdrawn(c)',
         event' \in [Batches -> {"none", "pending", "processing", "published"}],
         \A b \in Batches : event[b] # "none" => event'[b] # "none",
         flush' \in [Flushes -> Flush],
         \A f \in Flushes : flush'[f] # flush[f] =>
           /\ flush'[f].pc # "idle" => flush'[f].todo # {}
           /\ \A b \in flush'[f].todo : event[b] # "none",
         Grows,
         UNCHANGED <<groupStart, last, pending, dlq, consumer, provisioned>>,
         router' \in [Users -> Owners],
         \A u \in Users : \/ router'[u] = router[u]
                          \/ \E c \in Batches : Withdrawn(c) /\ u \in Names(c),
         removing' \in [Batches -> SUBSET Users],
         \A b \in Batches : /\ removing'[b] \subseteq Names(b)
                            /\ removing'[b] # {} => Withdrawn(b)',
         faults' \in 0 .. MaxFaults
  PROVE  Inv'
<1>1. /\ Entries \subseteq Entries'
      /\ 0 .. Len(stream) \subseteq 0 .. Len(stream')
  BY DEF Grows, Entries, Inv, TypeOK
<1>2. TypeOK'
  BY <1>1 DEF Inv, TypeOK, Grows, Consumer
<1>3. RowsInv'
  <2>1. \A b \in Dealt' : event'[b] # "none"
    BY DEF Inv, TypeOK, RowsInv, Dealt
  <2>2. \A f \in Flushes : flush'[f].todo \subseteq Batches
    BY DEF Flush
  <2>3. \A f \in Flushes : /\ flush'[f].pc # "idle" => flush'[f].todo # {}
                           /\ \A b \in flush'[f].todo : event'[b] # "none"
    BY <2>2 DEF Inv, RowsInv
  <2>4. \A i \in Entries' : stream'[i] \in Batches
    BY DEF Grows, Entries
  <2>5. \A i \in Entries' : event'[stream'[i]] # "none"
    BY <2>4 DEF Grows, Inv, RowsInv
  <2> QED
    BY <2>1, <2>3, <2>5 DEF RowsInv
<1>4. pending \subseteq Entries /\ (InHand => Entry \in Entries)
  BY EntryIsPending DEF Inv, TypeOK
<1>5. GroupInv'
  BY <1>4 DEF Inv, GroupInv, InHand, Grows
<1>6. Acked' = Acked /\ (groupStart # NoGroup => Acked \subseteq Entries) /\ Entry' = Entry
  BY DEF Acked, Inv, TypeOK, Entries, Entry
<1>7. DealtInv'
  BY <1>4, <1>6 DEF Inv, DealtInv, Dealt, Grows, InHand, Provisioning
<1>8. RetriesInv'
  <2>1. ParkedAfterRetries'
    BY <1>1 DEF Inv, RetriesInv, ParkedAfterRetries, Grows
  <2> QED
    BY <1>4, <1>6, <2>1 DEF Inv, RetriesInv, Grows, InHand
<1>9. RouterInv'
  <2>1. \A b \in Batches, u \in Users : Kept(b, u) => Kept(b, u)'
    BY KeptStays
  <2>2. \A b \in Batches, u \in Users : consumer'.existing[u] = b => Kept(b, u)'
    BY <2>1 DEF Inv, RouterInv
  <2>3. \A b \in provisioned' : \A u \in Names(b) : Kept(b, u)'
    BY <2>1, VouchersOf DEF Inv, TypeOK, RouterInv
  <2>4. ASSUME consumer.pc = "add"
        PROVE  /\ consumer.next \in 1 .. Len(Vouchers[Provisioning]) + 1
               /\ \A k \in 1 .. consumer.next - 1 :
                    Kept(Provisioning, Vouchers[Provisioning][k])
                    /\ Vouchers[Provisioning][k] \in Users
    <3>1. Provisioning \in Batches
      BY <2>4, EntryIsPending DEF InHand
    <3>2. Len(Vouchers[Provisioning]) \in Nat
      BY <3>1, VouchersOf
    <3> QED
      BY <2>4, <3>1, <3>2, VouchersOf DEF Inv, RouterInv
  <2>5. consumer.pc = "add" => Provisioning \in Batches /\ Provisioning' = Provisioning
    BY <1>4, <1>6, EntryIsPending DEF InHand, Provisioning, Grows
  <2>6. ASSUME consumer.pc = "add", NEW k \in 1 .. consumer.next - 1
        PROVE  \/ router'[Vouchers[Provisioning][k]] = Provisioning
               \/ \E c \in Batches : Withdrawn(c)' /\ Vouchers[Provisioning][k] \in Names(c)
    BY <2>1, <2>4, <2>5, <2>6 DEF Kept
  <2> QED
    BY <2>2, <2>3, <2>4, <2>5, <2>6 DEF RouterInv, Kept
<1> QED
  BY <1>2, <1>3, <1>5, <1>7, <1>8, <1>9 DEF Inv
-----------------------------------------------------------------------------
(* The batches and the relay *)

LEMMA InvStutter ==
  ASSUME Inv, UNCHANGED vars PROVE Inv'
<1>1. /\ UNCHANGED <<batch, event, flush, stream, groupStart, last, pending, count, dlq>>
      /\ UNCHANGED <<consumer, router, removing, provisioned, faults>>
  BY DEF vars, relayVars, redisVars
<1>2. Grows
  BY <1>1, SameStreamGrows DEF Inv
<1>3. TypeOK /\ RouterInv /\ \A c \in Batches : Withdrawn(c) => Withdrawn(c)'
  BY <1>1 DEF Inv, Withdrawn
<1>4. \A b \in Batches : removing'[b] \subseteq Names(b) /\ (removing'[b] # {} => Withdrawn(b)')
  BY <1>1, <1>3 DEF RouterInv
<1> QED
  BY <1>1, <1>2, <1>3, <1>4, OthersKeep DEF TypeOK

(* Only the relay is at work. *)
LEMMA RelayKeeps ==
  ASSUME Inv,
         event' \in [Batches -> {"none", "pending", "processing", "published"}],
         \A b \in Batches : event[b] # "none" => event'[b] # "none",
         flush' \in [Flushes -> Flush],
         \A f \in Flushes : flush'[f] # flush[f] =>
           /\ flush'[f].pc # "idle" => flush'[f].todo # {}
           /\ \A b \in flush'[f].todo : event[b] # "none",
         Grows,
         UNCHANGED <<batch, groupStart, last, pending, dlq, consumer, router, removing,
                     provisioned>>,
         faults' \in 0 .. MaxFaults
  PROVE  Inv'
<1>1. TypeOK /\ RouterInv /\ \A c \in Batches : Withdrawn(c) => Withdrawn(c)'
  BY DEF Inv, Withdrawn
<1>2. \A b \in Batches : removing'[b] \subseteq Names(b) /\ (removing'[b] # {} => Withdrawn(b)')
  BY <1>1 DEF RouterInv
<1> QED
  BY <1>1, <1>2, OthersKeep DEF TypeOK

LEMMA BatchesStep ==
  ASSUME Inv, NEW b \in Batches, BatchStep(b) PROVE Inv'
<1>1. /\ TypeOK /\ batch \in [Batches -> {"none", "present", "deleting", "deleted"}]
      /\ event \in [Batches -> {"none", "pending", "processing", "published"}]
      /\ router \in [Users -> Owners] /\ removing \in [Batches -> SUBSET Users]
      /\ faults \in 0 .. MaxFaults /\ flush \in [Flushes -> Flush]
  BY DEF Inv, TypeOK
<1>2. /\ UNCHANGED <<flush, stream, groupStart, last, pending, count, dlq, consumer>>
      /\ UNCHANGED <<provisioned, faults>>
  BY DEF BatchStep, CreateBatch, BeginDelete, RemoveUser, DeleteRow, relayVars, redisVars
<1>3. Grows
  BY <1>1, <1>2, SameStreamGrows
<1>4. /\ batch' \in [Batches -> {"none", "present", "deleting", "deleted"}]
      /\ \A c \in Batches : Withdrawn(c) => Withdrawn(c)'
  <2>1. \/ batch' = batch
        \/ batch[b] \in {"none", "present"} /\ \E s \in {"present", "deleting"} :
             batch' = [batch EXCEPT ![b] = s]
        \/ batch' = [batch EXCEPT ![b] = "deleted"]
    BY DEF BatchStep, CreateBatch, BeginDelete, RemoveUser, DeleteRow
  <2> QED
    BY <1>1, <2>1 DEF Withdrawn
<1>5. /\ event' \in [Batches -> {"none", "pending", "processing", "published"}]
      /\ \A c \in Batches : event[c] # "none" => event'[c] # "none"
  <2>1. event' = event \/ event' = [event EXCEPT ![b] = "pending"]
    BY DEF BatchStep, CreateBatch, BeginDelete, RemoveUser, DeleteRow, relayVars
  <2> QED
    BY <1>1, <2>1
<1>6. /\ \A c \in Batches : /\ removing[c] \subseteq Names(c)
                            /\ removing[c] # {} => Withdrawn(c)
      /\ Names(b) \subseteq Users
  BY VouchersOf DEF Inv, RouterInv
<1>7. CASE \E u \in Users : RemoveUser(b, u)
  <2>1. PICK u \in Users : RemoveUser(b, u)
    BY <1>7
  <2>2. /\ u \in removing[b] /\ router' \in {router, [router EXCEPT ![u] = Nobody]}
        /\ removing' = [removing EXCEPT ![b] = removing[b] \ {u}]
    BY <2>1 DEF RemoveUser
  <2>3. Withdrawn(b) /\ u \in Names(b)
    BY <1>6, <2>2
  <2>4. /\ router' \in [Users -> Owners]
        /\ \A v \in Users : \/ router'[v] = router[v]
                            \/ \E c \in Batches : Withdrawn(c) /\ v \in Names(c)
    BY <1>1, <2>2, <2>3 DEF Owners
  <2>5. /\ removing' \in [Batches -> SUBSET Users]
        /\ \A c \in Batches : /\ removing'[c] \subseteq Names(c)
                              /\ removing'[c] # {} => Withdrawn(c)'
    BY <1>1, <1>4, <1>6, <2>2
  <2> QED
    BY <1>1, <1>2, <1>3, <1>4, <1>5, <2>4, <2>5, OthersKeep
<1>8. CASE \E names \in {{}, Names(b)} : BeginDelete(b, names)
  <2>1. PICK names \in {{}, Names(b)} : BeginDelete(b, names)
    BY <1>8
  <2>2. /\ router' = router /\ removing' = [removing EXCEPT ![b] = names]
        /\ batch' = [batch EXCEPT ![b] = "deleting"]
    BY <2>1 DEF BeginDelete
  <2>3. Withdrawn(b)'
    BY <1>1, <2>2 DEF Withdrawn
  <2>4. /\ removing' \in [Batches -> SUBSET Users]
        /\ \A c \in Batches : /\ removing'[c] \subseteq Names(c)
                              /\ removing'[c] # {} => Withdrawn(c)'
    BY <1>1, <1>4, <1>6, <2>2, <2>3
  <2> QED
    BY <1>1, <1>2, <1>3, <1>4, <1>5, <2>2, <2>4, OthersKeep
<1>9. CASE CreateBatch(b) \/ DeleteRow(b)
  <2>1. router' = router /\ removing' = removing
    BY <1>9 DEF CreateBatch, DeleteRow
  <2>2. \A c \in Batches : /\ removing'[c] \subseteq Names(c)
                           /\ removing'[c] # {} => Withdrawn(c)'
    BY <1>4, <1>6, <2>1
  <2> QED
    BY <1>1, <1>2, <1>3, <1>4, <1>5, <2>1, <2>2, OthersKeep
<1> QED
  BY <1>7, <1>8, <1>9 DEF BatchStep

(* The event a call is at. *)
LEMMA EventInHand ==
  ASSUME Inv, NEW f \in Flushes, flush[f].pc # "idle"
  PROVE  /\ flush[f] \in Flush /\ Current(f) \in flush[f].todo
         /\ Current(f) \in Batches /\ event[Current(f)] # "none"
<1>1. flush[f] \in Flush /\ flush[f].todo \subseteq Batches /\ flush[f].todo # {}
  BY DEF Inv, TypeOK, RowsInv, Flush
<1>2. Batches \subseteq Nat
  BY DEF Batches
<1>3. Current(f) \in flush[f].todo
  BY <1>1, <1>2, Least DEF Current
<1> QED
  BY <1>1, <1>3 DEF Inv, RowsInv

LEMMA FlushPut ==
  ASSUME Inv, NEW f \in Flushes, NEW x \in Flush, flush' = [flush EXCEPT ![f] = x],
         x.pc # "idle" => x.todo # {}, \A b \in x.todo : event[b] # "none"
  PROVE  /\ flush' \in [Flushes -> Flush]
         /\ \A g \in Flushes : flush'[g] # flush[g] =>
              /\ flush'[g].pc # "idle" => flush'[g].todo # {}
              /\ \A b \in flush'[g].todo : event[b] # "none"
  BY DEF Inv, TypeOK

LEMMA IdleIsFlush == IdleFlush \in Flush /\ IdleFlush.pc = "idle" /\ IdleFlush.todo = {}
  BY DEF IdleFlush, Flush

(* The call moves on with the event it is at. *)
LEMMA AtPut ==
  ASSUME Inv, NEW f \in Flushes, NEW pc \in {"publish", "published", "failed"},
         flush[f].pc # "idle", At(f, pc)
  PROVE  /\ flush' \in [Flushes -> Flush]
         /\ \A g \in Flushes : flush'[g] # flush[g] =>
              /\ flush'[g].pc # "idle" => flush'[g].todo # {}
              /\ \A b \in flush'[g].todo : event[b] # "none"
<1> DEFINE x == [flush[f] EXCEPT !.pc = pc]
<1>1. flush[f] \in Flush
  BY EventInHand
<1>2. x \in Flush /\ x.todo = flush[f].todo
  BY <1>1 DEF Flush
<1>3. flush' = [flush EXCEPT ![f] = x]
  BY DEF At, Inv, TypeOK
<1>4. x.todo # {} /\ \A b \in x.todo : event[b] # "none"
  BY <1>2 DEF Inv, RowsInv
<1> HIDE DEF x
<1> QED
  BY <1>2, <1>3, <1>4, FlushPut

(* ... or drops it from its batch. *)
LEMMA NextEventPut ==
  ASSUME Inv, NEW f \in Flushes, flush[f].pc # "idle", NextEvent(f)
  PROVE  /\ flush' \in [Flushes -> Flush]
         /\ \A g \in Flushes : flush'[g] # flush[g] =>
              /\ flush'[g].pc # "idle" => flush'[g].todo # {}
              /\ \A b \in flush'[g].todo : event[b] # "none"
<1> DEFINE todo == flush[f].todo \ {Current(f)}
           x == IF todo = {} THEN IdleFlush ELSE [pc |-> "take", todo |-> todo]
<1>1. todo \subseteq Batches /\ \A b \in todo : event[b] # "none"
  BY DEF Inv, TypeOK, RowsInv, Flush
<1>2. x \in Flush /\ (x.pc # "idle" => x.todo # {}) /\ x.todo \subseteq todo
  <2>1. CASE todo = {}
    BY <2>1, IdleIsFlush
  <2>2. CASE todo # {}
    BY <1>1, <2>2 DEF Flush
  <2> QED
    BY <2>1, <2>2
<1>3. flush' = [flush EXCEPT ![f] = x]
  BY DEF NextEvent
<1>4. \A b \in x.todo : event[b] # "none"
  BY <1>1, <1>2
<1> HIDE DEF x, todo
<1> QED
  BY <1>2, <1>3, <1>4, FlushPut

LEMMA FlushStep ==
  ASSUME Inv, NEW f \in Flushes, RelayStep(f) PROVE Inv'
<1>1. TypeOK /\ event \in [Batches -> {"none", "pending", "processing", "published"}]
  BY DEF Inv, TypeOK
<1>2. faults' \in 0 .. MaxFaults
  <2>1. faults' = faults \/ Fault
    BY DEF RelayStep, StartFlush, Take, Publish, PublishFails, SaveOutcome, FlushEnds
  <2> QED
    BY <2>1, Faults
<1>3. UNCHANGED <<batch, groupStart, last, pending, dlq, consumer, router, removing, provisioned>>
  BY DEF RelayStep, StartFlush, Take, Publish, PublishFails, SaveOutcome, FlushEnds, redisVars
<1>4. CASE StartFlush(f)
  <2> DEFINE x == [pc |-> "take", todo |-> Due]
  <2>1. /\ Due \subseteq Batches /\ Due # {} /\ \A b \in Due : event[b] # "none"
    BY <1>4 DEF StartFlush, Due
  <2>2. x \in Flush /\ x.todo # {} /\ \A b \in x.todo : event[b] # "none"
    BY <2>1 DEF Flush
  <2>3. flush' = [flush EXCEPT ![f] = x] /\ UNCHANGED <<event, stream, count>>
    BY <1>4 DEF StartFlush, redisVars
  <2> HIDE DEF x
  <2> QED
    BY <1>1, <1>2, <1>3, <2>2, <2>3, FlushPut, SameStreamGrows, RelayKeeps
<1>5. CASE Take(f)
  <2>1. /\ event' = [event EXCEPT ![Current(f)] = "processing"]
        /\ At(f, "publish") /\ flush[f].pc # "idle" /\ UNCHANGED <<stream, count>>
    BY <1>5 DEF Take, redisVars
  <2>2. /\ event' \in [Batches -> {"none", "pending", "processing", "published"}]
        /\ \A b \in Batches : event[b] # "none" => event'[b] # "none"
    BY <1>1, <2>1
  <2> QED
    BY <1>1, <1>2, <1>3, <2>1, <2>2, AtPut, SameStreamGrows, RelayKeeps
<1>6. CASE Publish(f) \/ PublishFails(f)
  <2>1. /\ Current(f) \in Batches /\ event[Current(f)] # "none"
    BY <1>6, EventInHand DEF Publish, PublishFails
  <2>2. /\ UNCHANGED <<stream, count>> \/ Append1(Current(f))
        /\ At(f, "published") \/ At(f, "failed")
        /\ UNCHANGED event
    BY <1>6 DEF Publish, PublishFails
  <2>3. Grows
    BY <1>1, <2>1, <2>2, AppendGrows, SameStreamGrows
  <2>4. /\ flush' \in [Flushes -> Flush]
        /\ \A g \in Flushes : flush'[g] # flush[g] =>
             /\ flush'[g].pc # "idle" => flush'[g].todo # {}
             /\ \A d \in flush'[g].todo : event[d] # "none"
    BY <1>6, <2>2, AtPut DEF Publish, PublishFails
  <2> QED
    BY <1>1, <1>2, <1>3, <2>2, <2>3, <2>4, RelayKeeps
<1>7. CASE SaveOutcome(f)
  <2>1. /\ flush[f].pc # "idle" /\ NextEvent(f) /\ UNCHANGED <<stream, count>>
        /\ \E s \in {"published", "pending"} : event' = [event EXCEPT ![Current(f)] = s]
    BY <1>7 DEF SaveOutcome, redisVars
  <2>2. /\ event' \in [Batches -> {"none", "pending", "processing", "published"}]
        /\ \A b \in Batches : event[b] # "none" => event'[b] # "none"
    BY <1>1, <2>1
  <2> QED
    BY <1>1, <1>2, <1>3, <2>1, <2>2, NextEventPut, SameStreamGrows, RelayKeeps
<1>8. CASE FlushEnds(f)
  <2>1. flush' = [flush EXCEPT ![f] = IdleFlush] /\ UNCHANGED <<event, stream, count>>
    BY <1>8 DEF FlushEnds, redisVars
  <2> QED
    BY <1>1, <1>2, <1>3, <2>1, IdleIsFlush, FlushPut, SameStreamGrows, RelayKeeps
<1> QED
  BY <1>4, <1>5, <1>6, <1>7, <1>8 DEF RelayStep
-----------------------------------------------------------------------------
(* The consumer *)

LEMMA NoUsersHere == NoUsers \in [Users -> Owners] /\ \A u \in Users : NoUsers[u] \notin Batches
  BY BatchesAssumption DEF NoUsers, Owners

LEMMA PollingState ==
  /\ Polling \in Consumer /\ Polling.pc = "poll" /\ Polling.todo = {}
  /\ Polling.existing = NoUsers
  BY NoUsersHere DEF Polling, Consumer

LEMMA HandlingEffect ==
  ASSUME TypeOK, NEW S \in SUBSET Entries
  PROVE  /\ Handling(S) \in Consumer /\ Handling(S).todo = S
         /\ Handling(S).pc \in {"poll", "list"} /\ Handling(S).existing = NoUsers
         /\ S # {} <=> Handling(S).pc = "list"
<1>1. CASE S = {}
  BY <1>1, PollingState DEF Handling
<1>2. CASE S # {}
  <2>1. Handling(S) = [Polling EXCEPT !.pc = "list", !.todo = S]
    BY <1>2 DEF Handling
  <2>2. /\ Handling(S) \in Consumer /\ Handling(S).todo = S /\ Handling(S).pc = "list"
        /\ Handling(S).existing = NoUsers
    BY <2>1, PollingState DEF Consumer
  <2> QED
    BY <1>2, <2>2
<1> QED
  BY <1>1, <1>2

(* The handler has failed as often as it takes. *)
LEMMA LastAttempt ==
  ASSUME Inv, InHand, Attempts >= MaxDeliveries PROVE Enough(count[Entry])
<1>1. count[Entry] \in Nat /\ count[Entry] > 0 /\ MaxDeliveries \in Nat /\ MaxDeliveries > 0
  BY EntryIsPending, SizesAssumption
<1> QED
  BY <1>1 DEF Attempts, Enough

(* The consumer turns to the entries S, all of them pending; an entry that   *)
(* is no longer pending has been dealt with.                                 *)
LEMMA MoveOn ==
  ASSUME Inv, UNCHANGED <<batch, event, flush, stream, groupStart, removing, provisioned>>,
         groupStart # NoGroup, faults' \in 0 .. MaxFaults,
         pending' \subseteq Entries, NEW S \in SUBSET pending', consumer' = Handling(S),
         last' \in 0 .. Len(stream), last <= last',
         count' \in [Entries -> Nat], \A i \in Entries : count[i] <= count'[i],
         \A i \in pending' : groupStart < i /\ i <= last' /\ count'[i] > 0,
         dlq \subseteq dlq',
         \A b \in dlq' : b \in dlq \/ \E i \in Entries : stream[i] = b /\ Enough(count[i]),
         router' \in [Users -> Owners],
         \A u \in Users : router'[u] = router[u] \/ router[u] = Nobody,
         \A i \in Acked' : i \in Acked \/ stream[i] \in Dealt
  PROVE  Inv'
<1>1. /\ consumer' \in Consumer /\ consumer'.todo = S
      /\ consumer'.pc \in {"poll", "list"} /\ consumer'.existing = NoUsers
      /\ S # {} <=> consumer'.pc = "list"
  BY HandlingEffect DEF Inv
<1>2. Entries' = Entries /\ \A i \in Entries : stream[i] \in Batches /\ count[i] \in Nat /\ count'[i] \in Nat
  BY DEF Entries, Inv, TypeOK
<1>3. \A b \in dlq' : b \in Batches /\ event[b] # "none"
  BY <1>2 DEF Inv, TypeOK, RowsInv, Dealt
<1>4. TypeOK'
  BY <1>1, <1>2, <1>3 DEF Inv, TypeOK, Consumer
<1>5. RowsInv'
  BY <1>2, <1>3 DEF Inv, RowsInv, Dealt
<1>6. GroupInv'
  <2>1. groupStart <= last'
    BY <1>2 DEF Inv, TypeOK, GroupInv, NoGroup
  <2> QED
    BY <1>1, <2>1 DEF GroupInv, InHand
<1>7. DealtInv'
  BY <1>1 DEF Inv, DealtInv, Dealt
<1>8. RetriesInv'
  <2>1. MaxDeliveries \in Nat
    BY SizesAssumption
  <2>2. ASSUME NEW b \in dlq' PROVE \E i \in Entries : stream[i] = b /\ Enough(count[i])
    BY DEF Inv, RetriesInv, ParkedAfterRetries, Enough
  <2>3. \A i \in Entries : Enough(count[i]) => Enough(count'[i])
    BY <1>2, <2>1 DEF Enough
  <2>4. ASSUME NEW b \in dlq' PROVE \E i \in Entries : stream[i] = b /\ Enough(count'[i])
    BY <2>2, <2>3
  <2> QED
    BY <1>1, <1>2, <2>4 DEF RetriesInv, ParkedAfterRetries, Enough
<1>9. RouterInv'
  <2>1. \A c \in Batches : Withdrawn(c) <=> Withdrawn(c)'
    BY DEF Withdrawn
  <2>2. \A b \in Batches, u \in Users : Kept(b, u) => Kept(b, u)'
    BY <2>1, KeptStays
  <2>3. \A b \in provisioned' : \A u \in Names(b) : Kept(b, u)'
    BY <2>2, VouchersOf DEF Inv, TypeOK, RouterInv
  <2>4. \A b \in Batches : /\ removing'[b] \subseteq Names(b)
                           /\ removing'[b] # {} => Withdrawn(b)'
    BY <2>1 DEF Inv, RouterInv
  <2>5. \A b \in Batches, u \in Users : consumer'.existing[u] # b
    BY <1>1, NoUsersHere
  <2> QED
    BY <1>1, <2>3, <2>4, <2>5 DEF RouterInv
<1> QED
  BY <1>4, <1>5, <1>6, <1>7, <1>8, <1>9 DEF Inv

(* XREADGROUP returns the entries right behind the last one delivered. *)
LEMMA NewEntries ==
  ASSUME Inv
  PROVE  LET new == {i \in Entries : last < i /\ i <= last + ReadCount}
         IN  /\ last + Cardinality(new) \in 0 .. Len(stream)
             /\ Cardinality(new) \in Nat
             /\ new = last + 1 .. last + Cardinality(new)
<1> DEFINE new == {i \in Entries : last < i /\ i <= last + ReadCount}
<1>1. last \in 0 .. Len(stream) /\ Len(stream) \in Nat /\ ReadCount \in Nat \ {0}
  BY SizesAssumption DEF Inv, TypeOK
<1>2. PICK end \in last .. Len(stream) :
        last + ReadCount = end \/ (last + ReadCount > end /\ end = Len(stream))
  <2>1. CASE last + ReadCount <= Len(stream)
    <3>1. last + ReadCount \in last .. Len(stream)
      BY <1>1, <2>1
    <3> QED
      BY <3>1
  <2>2. CASE last + ReadCount > Len(stream)
    <3>1. Len(stream) \in last .. Len(stream)
      BY <1>1
    <3> QED
      BY <2>2, <3>1
  <2>3. last + ReadCount \in Int
    BY <1>1
  <2> QED
    BY <1>1, <2>1, <2>2, <2>3
<1>3. new = last + 1 .. end
  BY <1>1, <1>2 DEF Entries
<1>4. Cardinality(last + 1 .. end) = end - last
  <2>1. last + 1 \in Int /\ end \in Int /\ end - (last + 1) + 1 = end - last
        /\ (last + 1 > end => end - last = 0)
    BY <1>1
  <2> QED
    BY <2>1, FS_Interval
<1>5. Cardinality(new) = end - last
  BY <1>3, <1>4
<1>6. end - last \in Nat /\ last + (end - last) = end
  BY <1>1
<1>7. end \in 0 .. Len(stream)
  BY <1>1
<1> HIDE DEF new
<1>8. /\ last + Cardinality(new) \in 0 .. Len(stream) /\ Cardinality(new) \in Nat
      /\ new = last + 1 .. last + Cardinality(new)
  BY <1>3, <1>5, <1>6, <1>7
<1> QED
  BY <1>8 DEF new

(* A delivery raises the counters of the entries delivered. *)
LEMMA DeliverEffect ==
  ASSUME TypeOK, NEW S \in SUBSET Entries, Deliver(S)
  PROVE  /\ count' \in [Entries -> Nat] /\ \A i \in Entries : count[i] <= count'[i]
         /\ \A i \in S : count'[i] > 0
<1>1. \A i \in Entries : count[i] \in Nat
  BY DEF TypeOK
<1>2. \A i \in Entries : count'[i] = IF i \in S THEN count[i] + 1 ELSE count[i]
  BY DEF Deliver
<1>3. ASSUME NEW i \in Entries
      PROVE  count'[i] \in Nat /\ count[i] <= count'[i] /\ (i \in S => count'[i] > 0)
  BY <1>1, <1>2
<1> QED
  BY <1>3 DEF Deliver

LEMMA ReadEffect ==
  ASSUME Inv, ReadNew
  PROVE  /\ last' \in 0 .. Len(stream) /\ last <= last'
         /\ pending' \subseteq Entries
         /\ \A i \in pending' : groupStart < i /\ i <= last'
         /\ Acked' = Acked
         /\ \E new \in SUBSET Entries : /\ pending' = pending \cup new
                                        /\ Deliver(new) /\ consumer' = Handling(new)
<1> DEFINE new == {i \in Entries : last < i /\ i <= last + ReadCount}
<1>1. /\ last' = last + Cardinality(new) /\ pending' = pending \cup new
      /\ consumer' = Handling(new) /\ Deliver(new) /\ UNCHANGED <<stream, groupStart>>
  BY DEF ReadNew
<1>2. /\ new \subseteq Entries /\ pending \subseteq Entries /\ last \in 0 .. Len(stream)
      /\ Len(stream) \in Nat /\ groupStart \in Nat /\ groupStart <= last
      /\ \A i \in pending : groupStart < i /\ i <= last
  BY DEF ReadNew, Inv, TypeOK, GroupInv
<1>3. /\ last + Cardinality(new) \in 0 .. Len(stream) /\ Cardinality(new) \in Nat
      /\ new = last + 1 .. last + Cardinality(new)
  BY NewEntries
<1> HIDE DEF new
<1>4. last' \in 0 .. Len(stream) /\ last <= last' /\ new = last + 1 .. last'
  BY <1>1, <1>2, <1>3
<1>5. last \in Int /\ last' \in Int /\ groupStart + 1 \in Int
  BY <1>2, <1>4
<1>6. ASSUME NEW i \in pending' PROVE groupStart < i /\ i <= last'
  <2>1. CASE i \in pending
    <3>1. i \in Int /\ groupStart < i /\ i <= last
      BY <1>2, <2>1 DEF Entries
    <3> QED
      BY <1>4, <1>5, <3>1
  <2>2. CASE i \in new
    BY <1>2, <1>4, <1>5, <2>2
  <2> QED
    BY <1>1, <2>1, <2>2
<1>7. ASSUME NEW i PROVE i \in Acked' <=> i \in Acked
  <2>1. i \in Acked' <=> i \in groupStart + 1 .. last' /\ i \notin pending /\ i \notin new
    BY <1>1 DEF Acked
  <2>2. i \in groupStart + 1 .. last' /\ i \notin new <=> i \in groupStart + 1 .. last
    BY <1>2, <1>4, <1>5
  <2> QED
    BY <2>1, <2>2 DEF Acked
<1>8. Acked' = Acked
  BY <1>7 DEF Acked
<1> QED
  BY <1>1, <1>2, <1>4, <1>6, <1>8

LEMMA ReadStep ==
  ASSUME Inv, ReadNew \/ \E S \in SUBSET pending : Reclaim(S) PROVE Inv'
<1>1. /\ UNCHANGED <<batch, event, flush, stream, groupStart, dlq, router, removing, provisioned>>
      /\ UNCHANGED faults /\ consumer.pc = "poll"
  BY DEF ReadNew, Reclaim, relayVars
<1>2. /\ groupStart # NoGroup /\ faults' \in 0 .. MaxFaults /\ TypeOK
      /\ pending \subseteq Entries /\ last \in 0 .. Len(stream)
      /\ \A i \in pending : groupStart < i /\ i <= last /\ count[i] > 0
      /\ router \in [Users -> Owners] /\ \A i \in Entries : count[i] \in Nat
  BY <1>1 DEF Inv, TypeOK, GroupInv
<1>3. CASE ReadNew
  <2>1. PICK new \in SUBSET Entries : /\ pending' = pending \cup new
                                      /\ Deliver(new) /\ consumer' = Handling(new)
    BY <1>3, ReadEffect
  <2>2. /\ count' \in [Entries -> Nat] /\ \A i \in Entries : count[i] <= count'[i]
        /\ \A i \in new : count'[i] > 0
    BY <1>2, <2>1, DeliverEffect
  <2>3. \A i \in pending' : count'[i] > 0
    BY <1>2, <2>1, <2>2
  <2>4. /\ last' \in 0 .. Len(stream) /\ last <= last' /\ pending' \subseteq Entries
        /\ \A i \in pending' : groupStart < i /\ i <= last'
        /\ Acked' = Acked
    BY <1>3, ReadEffect
  <2>5. new \in SUBSET pending'
    BY <2>1
  <2> QED
    BY <1>1, <1>2, <2>1, <2>2, <2>3, <2>4, <2>5, MoveOn
<1>4. ASSUME NEW S \in SUBSET pending, Reclaim(S) PROVE Inv'
  <2>1. UNCHANGED <<last, pending>> /\ consumer' = Handling(S) /\ Deliver(S)
    BY <1>4 DEF Reclaim
  <2>2. S \in SUBSET Entries /\ S \in SUBSET pending'
    BY <1>2, <2>1
  <2>3. count' \in [Entries -> Nat] /\ \A i \in Entries : count[i] <= count'[i]
    BY <1>2, <2>1, <2>2, DeliverEffect
  <2>4. \A i \in pending' : groupStart < i /\ i <= last' /\ count'[i] > 0
    BY <1>2, <2>1, <2>3
  <2>5. Acked' = Acked /\ last <= last'
    BY <1>1, <1>2, <2>1 DEF Acked
  <2> QED
    BY <1>1, <1>2, <2>1, <2>2, <2>3, <2>4, <2>5, MoveOn
<1> QED
  BY <1>3, <1>4

(* The consumer has nothing in hand. *)
LEMMA NothingInHand ==
  ASSUME Inv, UNCHANGED <<batch, event, flush, stream, pending, count, dlq, router>>,
         UNCHANGED <<removing, provisioned>>, faults' \in 0 .. MaxFaults,
         consumer' \in Consumer, consumer'.todo = {}, consumer'.pc \in {"poll", "down"},
         consumer'.existing = NoUsers,
         \/ UNCHANGED <<groupStart, last>> /\ (groupStart = NoGroup => consumer'.pc = "down")
         \/ groupStart = NoGroup /\ groupStart' = Len(stream) /\ last' = Len(stream)
  PROVE  Inv'
<1>1. Entries' = Entries
  BY DEF Entries
<1>2. /\ groupStart \in {NoGroup} \cup 0 .. Len(stream) /\ last \in 0 .. Len(stream)
      /\ Len(stream) \in Nat /\ pending \subseteq Entries
      /\ groupStart = NoGroup => pending = {}
  <2>1. groupStart = NoGroup => last = 0 /\ \A i \in pending : i <= last
    BY DEF Inv, GroupInv
  <2>2. pending \subseteq Entries /\ \A i \in Entries : i \in Int /\ i > 0
    BY DEF Inv, TypeOK, Entries
  <2>3. ASSUME groupStart = NoGroup, NEW i \in pending PROVE FALSE
    BY <2>1, <2>2, <2>3
  <2> QED
    BY <2>2, <2>3 DEF Inv, TypeOK
<1>3. TypeOK'
  <2>1. groupStart' \in {NoGroup} \cup 0 .. Len(stream) /\ last' \in 0 .. Len(stream)
    BY <1>2
  <2> QED
    BY <1>1, <2>1 DEF Inv, TypeOK, Consumer
<1>4. RowsInv'
  BY <1>1 DEF Inv, RowsInv, Dealt
<1>5. GroupInv'
  <2>1. /\ groupStart' = NoGroup => last' = 0 /\ consumer'.pc = "down"
        /\ groupStart' <= last'
        /\ \A i \in pending : groupStart' < i /\ i <= last' /\ count[i] > 0
    <3>1. CASE UNCHANGED <<groupStart, last>> /\ (groupStart = NoGroup => consumer'.pc = "down")
      BY <3>1 DEF Inv, GroupInv
    <3>2. CASE groupStart = NoGroup /\ groupStart' = Len(stream) /\ last' = Len(stream)
      BY <1>2, <3>2 DEF NoGroup
    <3> QED
      BY <3>1, <3>2
  <2> QED
    BY <2>1 DEF GroupInv, InHand
<1>6. DealtInv'
  <2>1. ASSUME groupStart' # NoGroup, NEW i \in Acked' PROVE stream[i] \in Dealt
    <3>1. CASE UNCHANGED <<groupStart, last>>
      BY <2>1, <3>1 DEF Inv, DealtInv, Acked
    <3>2. CASE groupStart' = Len(stream) /\ last' = Len(stream)
      BY <1>2, <2>1, <3>2 DEF Acked
    <3> QED
      BY <3>1, <3>2
  <2> QED
    BY <2>1 DEF DealtInv, Dealt
<1>7. RetriesInv'
  BY <1>1 DEF Inv, RetriesInv, ParkedAfterRetries
<1>8. RouterInv'
  <2>1. \A c \in Batches : Withdrawn(c) <=> Withdrawn(c)'
    BY DEF Withdrawn
  <2>2. \A b \in Batches, u \in Users : Kept(b, u) => Kept(b, u)'
    BY <2>1, KeptStays
  <2>3. \A b \in provisioned' : \A u \in Names(b) : Kept(b, u)'
    BY <2>2, VouchersOf DEF Inv, TypeOK, RouterInv
  <2>4. \A b \in Batches : /\ removing'[b] \subseteq Names(b)
                           /\ removing'[b] # {} => Withdrawn(b)'
    BY <2>1 DEF Inv, RouterInv
  <2>5. \A b \in Batches, u \in Users : consumer'.existing[u] # b
    BY NoUsersHere
  <2> QED
    BY <2>3, <2>4, <2>5 DEF RouterInv
<1> QED
  BY <1>3, <1>4, <1>5, <1>6, <1>7, <1>8 DEF Inv

LEMMA RestartStep ==
  ASSUME Inv, StartConsumer \/ ConsumerCrash PROVE Inv'
<1>1. /\ UNCHANGED <<batch, event, flush, stream, pending, count, dlq, router>>
      /\ UNCHANGED <<removing, provisioned>> /\ faults' \in 0 .. MaxFaults
  <2>1. faults' = faults \/ Fault
    BY DEF StartConsumer, ConsumerCrash
  <2> QED
    BY <2>1, Faults DEF StartConsumer, ConsumerCrash, relayVars, redisVars
<1>2. CASE StartConsumer
  <2>1. \/ UNCHANGED <<groupStart, last>> /\ groupStart # NoGroup
        \/ groupStart = NoGroup /\ groupStart' = Len(stream) /\ last' = Len(stream)
    BY <1>2 DEF StartConsumer
  <2>2. consumer' = Polling
    BY <1>2 DEF StartConsumer
  <2> QED
    BY <1>1, <2>1, <2>2, PollingState, NothingInHand
<1>3. CASE ConsumerCrash
  <2>1. consumer' = [Polling EXCEPT !.pc = "down"] /\ UNCHANGED <<groupStart, last>>
    BY <1>3 DEF ConsumerCrash, redisVars
  <2>2. /\ consumer' \in Consumer /\ consumer'.todo = {} /\ consumer'.pc = "down"
        /\ consumer'.existing = NoUsers
    BY <2>1, PollingState DEF Consumer
  <2> QED
    BY <1>1, <2>1, <2>2, NothingInHand
<1> QED
  BY <1>2, <1>3
-----------------------------------------------------------------------------
(* The handler *)

(* The consumer stays with its entry, and a name leaves nobody's hands.      *)
LEMMA StayOn ==
  ASSUME Inv, InHand,
         UNCHANGED <<batch, event, flush, stream, groupStart, last, pending, count, removing>>,
         faults' \in 0 .. MaxFaults,
         consumer' \in Consumer, consumer'.todo = consumer.todo, InHand',
         router' \in [Users -> Owners],
         \A u \in Users : router'[u] = router[u] \/ router[u] = Nobody,
         dlq \subseteq dlq', dlq' \subseteq dlq \cup {Provisioning},
         provisioned \subseteq provisioned',
         provisioned' \subseteq provisioned \cup {Provisioning},
         consumer'.pc = "ack" => Provisioning \in provisioned' \cup dlq',
         consumer'.pc = "deadLetter" \/ dlq' # dlq => Enough(count[Entry]),
         provisioned' # provisioned => \A u \in Names(Provisioning) : Kept(Provisioning, u),
         \A b \in Batches, u \in Users : consumer'.existing[u] = b =>
           Kept(b, u) \/ router'[u] = b,
         consumer'.pc = "add" =>
           /\ consumer'.next \in 1 .. Len(Vouchers[Provisioning]) + 1
           /\ \A k \in 1 .. consumer'.next - 1 :
                \/ Kept(Provisioning, Vouchers[Provisioning][k])
                \/ router'[Vouchers[Provisioning][k]] = Provisioning
  PROVE  Inv'
<1>1. /\ Entry \in Entries /\ Provisioning \in Batches /\ event[Provisioning] # "none"
      /\ groupStart # NoGroup
  BY EntryIsPending
<1>2. Entries' = Entries /\ Entry' = Entry /\ Provisioning' = Provisioning /\ Acked' = Acked
  BY DEF Entries, Entry, Provisioning, Acked
<1>3. \A b \in Dealt' : b \in Batches /\ event[b] # "none"
  BY <1>1 DEF Inv, TypeOK, RowsInv, Dealt
<1>4. TypeOK'
  BY <1>2, <1>3 DEF Inv, TypeOK, Dealt, Consumer
<1>5. RowsInv'
  BY <1>2, <1>3 DEF Inv, RowsInv
<1>6. GroupInv'
  BY <1>1 DEF Inv, GroupInv
<1>7. DealtInv'
  BY <1>1, <1>2 DEF Inv, DealtInv, Dealt
<1>8. RetriesInv'
  <2>1. stream[Entry] = Provisioning
    BY DEF Provisioning
  <2>2. ASSUME NEW b \in dlq' PROVE \E i \in Entries : stream[i] = b /\ Enough(count[i])
    <3>1. CASE b \in dlq
      BY <3>1 DEF Inv, RetriesInv, ParkedAfterRetries, Enough
    <3>2. CASE b \notin dlq
      BY <1>1, <2>1, <3>2
    <3> QED
      BY <3>1, <3>2
  <2> QED
    BY <1>2, <2>2 DEF RetriesInv, ParkedAfterRetries, Enough
<1>9. RouterInv'
  <2>1. \A c \in Batches : Withdrawn(c) <=> Withdrawn(c)'
    BY DEF Withdrawn
  <2>2. \A b \in Batches, u \in Users : Kept(b, u) \/ router'[u] = b => Kept(b, u)'
    BY <2>1, KeptStays DEF Kept
  <2>3. ASSUME NEW b \in provisioned', NEW u \in Names(b) PROVE Kept(b, u)'
    <3>1. b \in Batches /\ u \in Users
      BY <1>3, VouchersOf DEF Dealt
    <3>2. Kept(b, u)
      BY <2>3 DEF Inv, RouterInv
    <3> QED
      BY <2>2, <3>1, <3>2
  <2>4. \A b \in Batches : /\ removing'[b] \subseteq Names(b)
                           /\ removing'[b] # {} => Withdrawn(b)'
    BY <2>1 DEF Inv, RouterInv
  <2>5. \A b \in Batches, u \in Users : consumer'.existing[u] = b => Kept(b, u)'
    BY <2>2
  <2>6. ASSUME consumer'.pc = "add", NEW k \in 1 .. consumer'.next - 1
        PROVE  \/ router'[Vouchers[Provisioning][k]] = Provisioning
               \/ \E c \in Batches : Withdrawn(c)' /\ Vouchers[Provisioning][k] \in Names(c)
    <3>1. Vouchers[Provisioning][k] \in Users
      <4>1. Len(Vouchers[Provisioning]) \in Nat
        BY <1>1, VouchersOf
      <4>2. k \in 1 .. Len(Vouchers[Provisioning])
        BY <2>6, <4>1
      <4> QED
        BY <1>1, <4>2, VouchersOf
    <3> QED
      BY <1>1, <2>2, <2>6, <3>1 DEF Kept
  <2> QED
    BY <1>2, <2>3, <2>4, <2>5, <2>6 DEF RouterInv, Kept
<1> QED
  BY <1>4, <1>5, <1>6, <1>7, <1>8, <1>9 DEF Inv

(* It fails: the entry waits for another try, or goes to the dead letters.   *)
LEMMA FailStep ==
  ASSUME Inv, InHand, HandlerFails,
         UNCHANGED <<batch, relayVars, redisVars, removing, provisioned>>,
         faults' \in 0 .. MaxFaults,
         router' \in [Users -> Owners],
         \A u \in Users : router'[u] = router[u] \/ router[u] = Nobody
  PROVE  Inv'
<1>1. UNCHANGED <<event, flush, stream, groupStart, last, pending, count, dlq>>
  BY DEF relayVars, redisVars
<1>2. /\ pending \subseteq Entries /\ consumer.todo \subseteq pending /\ consumer \in Consumer
      /\ last \in 0 .. Len(stream) /\ count \in [Entries -> Nat] /\ groupStart # NoGroup
      /\ \A i \in pending : groupStart < i /\ i <= last /\ count[i] > 0
      /\ \A b \in Batches, u \in Users : consumer.existing[u] = b => Kept(b, u)
  BY EntryIsPending DEF Inv, TypeOK, GroupInv, RouterInv
<1>3. CASE Attempts >= MaxDeliveries
  <2>1. consumer' = [consumer EXCEPT !.pc = "deadLetter"]
    BY <1>3 DEF HandlerFails
  <2>2. /\ consumer' \in Consumer /\ consumer'.todo = consumer.todo
        /\ consumer'.pc = "deadLetter" /\ consumer'.existing = consumer.existing
    BY <1>2, <2>1 DEF Consumer
  <2>3. InHand' /\ Enough(count[Entry])
    BY <1>3, <2>2, LastAttempt DEF InHand
  <2> QED
    BY <1>1, <1>2, <2>2, <2>3, StayOn
<1>4. CASE ~(Attempts >= MaxDeliveries)
  <2>1. consumer' = Handling(consumer.todo \ {Entry})
    BY <1>4 DEF HandlerFails, NextEntry
  <2>2. consumer.todo \ {Entry} \in SUBSET pending'
    BY <1>1, <1>2
  <2>3. Acked' = Acked /\ last <= last' /\ \A i \in Entries : count[i] <= count'[i]
    BY <1>1, <1>2 DEF Acked
  <2> QED
    BY <1>1, <1>2, <2>1, <2>2, <2>3, MoveOn
<1> QED
  BY <1>3, <1>4

(* The voucher the handler is at. *)
LEMMA NameInHand ==
  ASSUME Inv, More
  PROVE  /\ InHand /\ Provisioning \in Batches /\ Name \in Names(Provisioning) /\ Name \in Users
         /\ consumer \in Consumer /\ router \in [Users -> Owners]
         /\ consumer.next \in 1 .. Len(Vouchers[Provisioning])
         /\ Len(Vouchers[Provisioning]) \in Nat
<1>1. InHand /\ consumer.pc = "add"
  BY DEF More, InHand
<1>2. Provisioning \in Batches
  BY <1>1, EntryIsPending
<1>3. Len(Vouchers[Provisioning]) \in Nat
  BY <1>2, VouchersOf
<1>4. consumer.next \in 1 .. Len(Vouchers[Provisioning])
  BY <1>1, <1>3 DEF Inv, RouterInv, More
<1> QED
  BY <1>1, <1>2, <1>3, <1>4, VouchersOf DEF Name, Inv, TypeOK

(* The handler is through with one more voucher. *)
LEMMA NextVoucher ==
  ASSUME Inv, More, UNCHANGED <<batch, relayVars, redisVars, removing, provisioned, faults>>,
         router' \in [Users -> Owners],
         \A u \in Users : router'[u] = router[u] \/ router[u] = Nobody,
         Kept(Provisioning, Name) \/ router'[Name] = Provisioning,
         consumer' \in Consumer, consumer'.todo = consumer.todo, consumer'.pc = "add",
         consumer'.next = consumer.next + 1,
         \A u \in Users : \/ consumer'.existing[u] = consumer.existing[u]
                          \/ u = Name /\ consumer'.existing[u] = Provisioning
  PROVE  Inv'
<1>1. UNCHANGED <<event, flush, stream, groupStart, last, pending, count, dlq>>
  BY DEF relayVars, redisVars
<1>2. /\ InHand /\ InHand' /\ faults' \in 0 .. MaxFaults
      /\ consumer.next \in 1 .. Len(Vouchers[Provisioning])
      /\ Len(Vouchers[Provisioning]) \in Nat
      /\ \A b \in Batches, u \in Users : consumer.existing[u] = b => Kept(b, u)
      /\ \A k \in 1 .. consumer.next - 1 : Kept(Provisioning, Vouchers[Provisioning][k])
  BY NameInHand DEF Inv, TypeOK, RouterInv, InHand, More
<1>3. \A b \in Batches, u \in Users : consumer'.existing[u] = b =>
        Kept(b, u) \/ router'[u] = b
  BY <1>2
<1>4. consumer'.next \in 1 .. Len(Vouchers[Provisioning]) + 1
  BY <1>2
<1>5. ASSUME NEW k \in 1 .. consumer'.next - 1
      PROVE  \/ Kept(Provisioning, Vouchers[Provisioning][k])
             \/ router'[Vouchers[Provisioning][k]] = Provisioning
  <2>1. k \in 1 .. consumer.next - 1 \/ k = consumer.next
    BY <1>2
  <2> QED
    BY <1>2, <2>1 DEF Name
<1> QED
  BY <1>1, <1>2, <1>3, <1>4, <1>5, StayOn

LEMMA ListStep ==
  ASSUME Inv, ListUsers \/ ListFails PROVE Inv'
<1>1. /\ InHand /\ consumer \in Consumer /\ router \in [Users -> Owners]
      /\ UNCHANGED <<batch, relayVars, redisVars, router, removing, provisioned, faults>>
      /\ faults' \in 0 .. MaxFaults
  BY DEF ListUsers, ListFails, Inv, TypeOK, InHand
<1>2. CASE ListFails
  BY <1>1, <1>2, FailStep DEF ListFails
<1>3. CASE ListUsers
  <2>1. /\ consumer' \in Consumer /\ consumer'.todo = consumer.todo /\ consumer'.pc = "add"
        /\ consumer'.existing = router /\ consumer'.next = 1
    BY <1>1, <1>3 DEF ListUsers, Consumer
  <2>2. UNCHANGED <<event, flush, stream, groupStart, last, pending, count, dlq>>
    BY <1>1 DEF relayVars, redisVars
  <2>3. InHand'
    BY <2>1 DEF InHand
  <2>4. Provisioning \in Batches /\ Len(Vouchers[Provisioning]) \in Nat
    BY <1>1, EntryIsPending, VouchersOf
  <2>5. /\ consumer'.next \in 1 .. Len(Vouchers[Provisioning]) + 1
        /\ \A k \in 1 .. consumer'.next - 1 : k \notin Int
    BY <2>1, <2>4
  <2>6. \A k \in 1 .. consumer'.next - 1 : FALSE
    BY <2>5
  <2> QED
    BY <1>1, <2>1, <2>2, <2>3, <2>5, <2>6, StayOn
<1> QED
  BY <1>2, <1>3

LEMMA VoucherStep ==
  ASSUME Inv, KnownUser \/ AddUser \/ AddFails PROVE Inv'
<1>1. /\ InHand /\ More /\ consumer \in Consumer /\ router \in [Users -> Owners]
      /\ Provisioning \in Batches /\ Name \in Users /\ consumer.next \in Nat
      /\ UNCHANGED <<batch, relayVars, redisVars, removing, provisioned>>
  BY NameInHand DEF KnownUser, AddUser, AddFails
<1>2. /\ \A b \in Batches, u \in Users : consumer.existing[u] = b => Kept(b, u)
      /\ consumer.existing \in [Users -> Owners]
      /\ Provisioning \in Owners
  BY <1>1 DEF Inv, RouterInv, Consumer, Owners
<1>3. CASE KnownUser
  <2>1. CASE consumer.existing[Name] = Provisioning
    <3>1. consumer' = [consumer EXCEPT !.next = consumer.next + 1] /\ UNCHANGED <<router, faults>>
      BY <1>3, <2>1 DEF KnownUser
    <3>2. /\ consumer' \in Consumer /\ consumer'.todo = consumer.todo /\ consumer'.pc = "add"
          /\ consumer'.next = consumer.next + 1 /\ consumer'.existing = consumer.existing
      BY <1>1, <3>1 DEF Consumer, More
    <3>3. Kept(Provisioning, Name)
      BY <1>1, <1>2, <2>1
    <3> QED
      BY <1>1, <3>1, <3>2, <3>3, NextVoucher
  <2>2. CASE consumer.existing[Name] # Provisioning
    <3>1. HandlerFails /\ router' = router /\ faults' \in 0 .. MaxFaults
      BY <1>3, <2>2 DEF KnownUser, Inv, TypeOK
    <3> QED
      BY <1>1, <3>1, FailStep
  <2> QED
    BY <2>1, <2>2
<1>4. CASE AddUser
  <2> DEFINE x == [consumer.existing EXCEPT ![Name] = Provisioning]
  <2>1. /\ router[Name] = Nobody /\ router' = [router EXCEPT ![Name] = Provisioning]
        /\ consumer' = [consumer EXCEPT !.existing = x, !.next = consumer.next + 1]
        /\ UNCHANGED faults
    BY <1>1, <1>4 DEF AddUser, Consumer
  <2>2. /\ x \in [Users -> Owners]
        /\ \A u \in Users : x[u] = consumer.existing[u] \/ (u = Name /\ x[u] = Provisioning)
    BY <1>1, <1>2
  <2>3. /\ router' \in [Users -> Owners] /\ router'[Name] = Provisioning
        /\ \A u \in Users : router'[u] = router[u] \/ router[u] = Nobody
    BY <1>1, <1>2, <2>1
  <2> HIDE DEF x
  <2>4. /\ consumer' \in Consumer /\ consumer'.todo = consumer.todo /\ consumer'.pc = "add"
        /\ consumer'.next = consumer.next + 1 /\ consumer'.existing = x
    <3> DEFINE n == consumer.next + 1
    <3>1. n \in Nat
      BY <1>1
    <3>2. consumer' = [consumer EXCEPT !.existing = x, !.next = n]
      BY <2>1
    <3> HIDE DEF n
    <3>3. /\ consumer' \in Consumer /\ consumer'.todo = consumer.todo
          /\ consumer'.pc = "add" /\ consumer'.next = n /\ consumer'.existing = x
      BY <1>1, <2>2, <3>1, <3>2 DEF Consumer, More
    <3> QED
      BY <3>3 DEF n
  <2> QED
    BY <1>1, <2>1, <2>2, <2>3, <2>4, NextVoucher
<1>5. CASE AddFails
  <2>1. /\ HandlerFails
        /\ faults' = faults \/ Fault
        /\ \/ router' = router
           \/ router[Name] = Nobody /\ router' = [router EXCEPT ![Name] = Provisioning]
    BY <1>5 DEF AddFails
  <2>2. /\ router' \in [Users -> Owners]
        /\ \A u \in Users : router'[u] = router[u] \/ router[u] = Nobody
    BY <1>1, <1>2, <2>1
  <2>3. faults' \in 0 .. MaxFaults
    BY <2>1, Faults
  <2> QED
    BY <1>1, <2>1, <2>2, <2>3, FailStep
<1> QED
  BY <1>3, <1>4, <1>5

(* The handler is through with the entry, or the dead letters have taken it. *)
LEMMA DealtStep ==
  ASSUME Inv, HandlerSucceeds \/ DeadLetter PROVE Inv'
<1>1. /\ InHand /\ consumer \in Consumer /\ router \in [Users -> Owners]
      /\ UNCHANGED <<batch, event, flush, stream, groupStart, last, pending, count>>
      /\ UNCHANGED <<router, removing, faults>> /\ faults' \in 0 .. MaxFaults
      /\ consumer' = [consumer EXCEPT !.pc = "ack"]
  BY DEF HandlerSucceeds, DeadLetter, Inv, TypeOK, InHand, relayVars, redisVars
<1>2. /\ consumer' \in Consumer /\ consumer'.todo = consumer.todo /\ consumer'.pc = "ack"
      /\ consumer'.existing = consumer.existing
  BY <1>1 DEF Consumer
<1>3. InHand' /\ Provisioning \in Batches
  BY <1>1, <1>2, EntryIsPending DEF InHand
<1>4. \A b \in Batches, u \in Users : consumer.existing[u] = b => Kept(b, u)
  BY DEF Inv, RouterInv
<1>5. CASE HandlerSucceeds
  <2>1. provisioned' = provisioned \cup {Provisioning} /\ dlq' = dlq
    BY <1>5 DEF HandlerSucceeds, redisVars
  <2>2. ASSUME NEW u \in Names(Provisioning) PROVE Kept(Provisioning, u)
    <3>1. PICK k \in 1 .. Len(Vouchers[Provisioning]) : u = Vouchers[Provisioning][k]
      BY <1>3, VouchersOf
    <3>2. Len(Vouchers[Provisioning]) \in Nat
      BY <1>3, VouchersOf
    <3>3. /\ consumer.next \in 1 .. Len(Vouchers[Provisioning]) + 1
          /\ ~(consumer.next <= Len(Vouchers[Provisioning]))
          /\ \A j \in 1 .. consumer.next - 1 : Kept(Provisioning, Vouchers[Provisioning][j])
      BY <1>5 DEF HandlerSucceeds, More, Inv, RouterInv
    <3>4. k \in 1 .. consumer.next - 1
      BY <3>2, <3>3
    <3> QED
      BY <3>1, <3>3, <3>4
  <2> QED
    BY <1>1, <1>2, <1>3, <1>4, <2>1, <2>2, StayOn
<1>6. CASE DeadLetter
  <2>1. provisioned' = provisioned /\ dlq' = dlq \cup {Provisioning} /\ Enough(count[Entry])
    BY <1>6 DEF DeadLetter, Inv, RetriesInv
  <2> QED
    BY <1>1, <1>2, <1>3, <1>4, <2>1, StayOn
<1> QED
  BY <1>5, <1>6

LEMMA LeaveStep ==
  ASSUME Inv, DeadLetterFails \/ Ack PROVE Inv'
<1>1. /\ InHand /\ UNCHANGED <<batch, event, flush, stream, groupStart, last, count>>
      /\ UNCHANGED <<router, removing, provisioned>>
      /\ consumer' = Handling(consumer.todo \ {Entry})
      /\ pending' = pending \/ (consumer.pc = "ack" /\ pending' = pending \ {Entry})
      /\ dlq' = dlq \/ (consumer.pc = "deadLetter" /\ dlq' = dlq \cup {Provisioning})
  BY DEF DeadLetterFails, Ack, InHand, NextEntry, relayVars
<1>2. faults' \in 0 .. MaxFaults
  <2>1. faults' = faults \/ Fault
    BY DEF DeadLetterFails, Ack
  <2> QED
    BY <2>1, Faults
<1>3. /\ pending \subseteq Entries /\ consumer.todo \subseteq pending
      /\ last \in 0 .. Len(stream) /\ count \in [Entries -> Nat] /\ groupStart # NoGroup
      /\ \A i \in pending : groupStart < i /\ i <= last /\ count[i] > 0
      /\ router \in [Users -> Owners] /\ Entry \in Entries
  BY <1>1, EntryIsPending DEF Inv, TypeOK, GroupInv
<1>4. /\ pending' \subseteq Entries /\ consumer.todo \ {Entry} \in SUBSET pending'
      /\ \A i \in pending' : groupStart < i /\ i <= last' /\ count'[i] > 0
      /\ last' \in 0 .. Len(stream) /\ last <= last'
      /\ count' \in [Entries -> Nat] /\ \A i \in Entries : count[i] <= count'[i]
  BY <1>1, <1>3
<1>5. /\ dlq \subseteq dlq'
      /\ \A b \in dlq' : b \in dlq \/ \E i \in Entries : stream[i] = b /\ Enough(count[i])
  <2>1. stream[Entry] = Provisioning /\ (consumer.pc = "deadLetter" => Enough(count[Entry]))
    BY DEF Provisioning, Inv, RetriesInv
  <2> QED
    BY <1>1, <1>3, <2>1
<1>6. \A i \in Acked' : i \in Acked \/ stream[i] \in Dealt
  <2>1. \A i \in Acked' : i \in Acked \/ (consumer.pc = "ack" /\ i = Entry)
    BY <1>1 DEF Acked
  <2>2. consumer.pc = "ack" => stream[Entry] \in Dealt
    BY DEF Inv, DealtInv, Provisioning
  <2> QED
    BY <2>1, <2>2
<1> QED
  BY <1>1, <1>2, <1>3, <1>4, <1>5, <1>6, MoveOn

-----------------------------------------------------------------------------
(* The invariant *)

LEMMA InvInit == Init => Inv
<1> SUFFICES ASSUME Init PROVE Inv
  OBVIOUS
<1>1. stream = <<>> /\ Len(stream) = 0 /\ Entries = {} /\ stream \in Seq(Batches)
  BY DEF Init, Entries
<1>2. /\ consumer \in Consumer /\ consumer.todo = {} /\ consumer.pc = "down"
      /\ consumer.existing = NoUsers
  BY PollingState DEF Init, Consumer
<1>3. count \in [Entries -> Nat]
  <2>1. count \in Seq(Nat) /\ Len(count) = 0
    BY DEF Init
  <2> QED
    BY <1>1, <2>1
<1>4. TypeOK
  <2>1. router \in [Users -> Owners]
    BY DEF Init, Owners
  <2> QED
    BY <1>1, <1>2, <1>3, <2>1, IdleIsFlush, SizesAssumption DEF Init, TypeOK
<1>5. RowsInv
  BY <1>1, IdleIsFlush DEF Init, RowsInv, Dealt
<1>6. GroupInv
  BY <1>2 DEF Init, GroupInv, InHand, NoGroup
<1>7. DealtInv
  BY <1>2 DEF Init, DealtInv
<1>8. RetriesInv
  BY <1>2 DEF Init, RetriesInv, ParkedAfterRetries
<1>9. RouterInv
  BY <1>2, NoUsersHere DEF Init, RouterInv
<1> QED
  BY <1>4, <1>5, <1>6, <1>7, <1>8, <1>9 DEF Inv

LEMMA InvStep == Inv /\ [Next]_vars => Inv'
<1> SUFFICES ASSUME Inv, [Next]_vars PROVE Inv'
  OBVIOUS
<1>1. CASE ConsumerStep
  BY <1>1, RestartStep, ReadStep, ListStep, VoucherStep, DealtStep, LeaveStep DEF ConsumerStep
<1> QED
  BY <1>1, BatchesStep, FlushStep, InvStutter DEF Next

THEOREM Inductive == Spec => []Inv
  BY InvInit, InvStep, PTL DEF Spec

(* The batches, their events, the stream with its group and the router keep  *)
(* their types; last and pending never point past the stream.                *)
THEOREM ProvisioningTyping == Spec => []TypeOK
<1>1. Inv => TypeOK
  BY DEF Inv
<1> QED
  BY <1>1, Inductive, PTL

(* A batch the group has closed and nobody deletes is on the router with     *)
(* every voucher, or parked, whatever failed on the way.                     *)
THEOREM ClosedComplete == Spec => []ClosedIsComplete
<1>1. Inv => ClosedIsComplete
  <2> SUFFICES ASSUME Inv, NEW b \in Batches, Closed(b), b \notin dlq
               PROVE  \A u \in Names(b) : Kept(b, u)
    BY DEF ClosedIsComplete, Kept
  <2>1. b \in provisioned
    BY DEF Closed, Inv, DealtInv, Dealt
  <2> QED
    BY <2>1 DEF Inv, RouterInv
<1> QED
  BY <1>1, Inductive, PTL

(* No batch reaches the dead letters before one of its entries has been      *)
(* delivered once more than REDIS_MAX_DELIVERIES times.                      *)
THEOREM ParkedLate == Spec => []ParkedAfterRetries
<1>1. Inv => ParkedAfterRetries
  BY DEF Inv, RetriesInv
<1> QED
  BY <1>1, Inductive, PTL
-----------------------------------------------------------------------------
(* Outbox, stream, group and dead letters implement EventDelivery *)

(* The stage of one batch moves on by one, or none does. *)
LEMMA StageMoves ==
  ASSUME event' = event, NEW e \in Batches, event[e] # "none",
         \A b \in Batches : Closed(b) => Closed(b)',
         Dealt \subseteq Dealt',
         \A b \in Batches \ {e} : /\ Closed(b)' => Closed(b)
                                  /\ b \in Dealt' => b \in Dealt,
         Closed(e)' => Closed(e) \/ e \in Dealt
  PROVE  Delivery!Next \/ UNCHANGED Stage
<1> DEFINE stageOf(none, closed, dealt) ==
             IF none THEN "none" ELSE IF closed THEN "closed"
             ELSE IF dealt THEN "dealt" ELSE "held"
<1>1. /\ Stage = [b \in Batches |-> stageOf(event[b] = "none", Closed(b), b \in Dealt)]
      /\ Stage' = [b \in Batches |-> stageOf(event[b] = "none", Closed(b)', b \in Dealt')]
  BY DEF Stage, Dealt
<1>2. \A b \in Batches \ {e} : Stage'[b] = Stage[b]
  BY <1>1
<1>3. Stage' = [Stage EXCEPT ![e] = Stage'[e]]
  BY <1>1, <1>2
<1>4. CASE Closed(e) \/ (~Closed(e)' /\ (e \in Dealt \/ e \notin Dealt'))
  <2>1. Stage'[e] = Stage[e]
    BY <1>1, <1>4
  <2> QED
    BY <1>1, <1>3, <2>1
<1>5. CASE ~Closed(e) /\ Closed(e)'
  <2>1. Stage[e] = "dealt" /\ Stage'[e] = "closed"
    BY <1>1, <1>5
  <2> QED
    BY <1>3, <2>1 DEF Delivery!Next, Delivery!Close, Delivery!Advance
<1>6. CASE ~Closed(e) /\ ~Closed(e)' /\ e \notin Dealt /\ e \in Dealt'
  <2>1. Stage[e] = "held" /\ Stage'[e] = "dealt"
    BY <1>1, <1>6
  <2> QED
    BY <1>3, <2>1 DEF Delivery!Next, Delivery!Deal, Delivery!Advance
<1> QED
  BY <1>4, <1>5, <1>6

(* None does. *)
LEMMA SameStage ==
  ASSUME \A b \in Batches : /\ event'[b] = "none" <=> event[b] = "none"
                            /\ Closed(b)' <=> Closed(b),
         UNCHANGED <<provisioned, dlq>>
  PROVE  UNCHANGED Stage
  BY DEF Stage

LEMMA SameClosed ==
  ASSUME Inv, Grows, UNCHANGED <<groupStart, last, pending>>
  PROVE  \A b \in Batches : Closed(b)' <=> Closed(b)
<1>1. Acked' = Acked /\ (groupStart # NoGroup => Acked \subseteq Entries)
  BY DEF Acked, Inv, TypeOK, Entries
<1> QED
  BY <1>1 DEF Closed, Grows

(* A batch that is not created yet has not been heard of. *)
LEMMA CreateAccepts ==
  ASSUME Inv, NEW e \in Batches, CreateBatch(e)
  PROVE  Delivery!Next \/ UNCHANGED Stage
<1>1. /\ event' = [event EXCEPT ![e] = "pending"]
      /\ UNCHANGED <<stream, count, groupStart, last, pending, provisioned, dlq>>
  BY DEF CreateBatch, redisVars
<1>2. TypeOK /\ Grows
  BY <1>1, SameStreamGrows DEF Inv
<1>3. \A b \in Batches : Closed(b)' <=> Closed(b)
  BY <1>1, <1>2, SameClosed
<1>4. \A b \in Batches \ {e} : event'[b] = event[b]
  BY <1>1, <1>2 DEF TypeOK
<1>5. event'[e] # "none"
  BY <1>1, <1>2 DEF TypeOK
<1>6. CASE event[e] = "none"
  <2>1. ~Closed(e) /\ e \notin provisioned \cup dlq
    <3>1. groupStart # NoGroup => Acked \subseteq Entries
      BY <1>2 DEF Acked, TypeOK, Entries
    <3> QED
      BY <1>6, <3>1 DEF Inv, RowsInv, Closed, Dealt
  <2>2. Stage[e] = "none" /\ Stage' = [Stage EXCEPT ![e] = "held"]
    BY <1>1, <1>3, <1>4, <1>5, <1>6, <2>1 DEF Stage
  <2> QED
    BY <2>2 DEF Delivery!Next, Delivery!Accept, Delivery!Advance
<1>7. CASE event[e] # "none"
  BY <1>1, <1>3, <1>4, <1>5, <1>7, SameStage
<1> QED
  BY <1>6, <1>7

LEMMA DeletionStutters ==
  ASSUME Inv, NEW b \in Batches, BatchStep(b), ~CreateBatch(b) PROVE UNCHANGED Stage
<1>1. UNCHANGED <<event, stream, count, groupStart, last, pending, provisioned, dlq>>
  BY DEF BatchStep, BeginDelete, RemoveUser, DeleteRow, relayVars, redisVars
<1>2. \A c \in Batches : Closed(c)' <=> Closed(c)
  BY <1>1, SameStreamGrows, SameClosed DEF Inv
<1> QED
  BY <1>1, <1>2, SameStage

LEMMA RelayStutters ==
  ASSUME Inv, NEW f \in Flushes, RelayStep(f) PROVE UNCHANGED Stage
<1>1. UNCHANGED <<groupStart, last, pending, provisioned, dlq>> /\ TypeOK
  BY DEF RelayStep, StartFlush, Take, Publish, PublishFails, SaveOutcome, FlushEnds,
         redisVars, Inv
<1>2. Grows
  <2>1. CASE Publish(f) \/ PublishFails(f)
    <3>1. /\ flush[f].pc # "idle"
          /\ UNCHANGED <<stream, count>> \/ Append1(Current(f))
      BY <2>1 DEF Publish, PublishFails
    <3> QED
      BY <1>1, <3>1, EventInHand, AppendGrows, SameStreamGrows
  <2>2. CASE UNCHANGED <<stream, count>>
    BY <1>1, <2>2, SameStreamGrows
  <2> QED
    BY <2>1, <2>2 DEF RelayStep, StartFlush, Take, SaveOutcome, FlushEnds, redisVars
<1>3. \A b \in Batches : event'[b] = "none" <=> event[b] = "none"
  <2>1. CASE Take(f) \/ SaveOutcome(f)
    <3> DEFINE e == Current(f)
    <3>1. /\ e \in Batches /\ event[e] # "none"
          /\ \E s \in {"processing", "published", "pending"} : event' = [event EXCEPT ![e] = s]
      BY <2>1, EventInHand DEF Take, SaveOutcome
    <3> HIDE DEF e
    <3> QED
      BY <1>1, <3>1 DEF TypeOK
  <2>2. CASE event' = event
    BY <2>2
  <2> QED
    BY <2>1, <2>2 DEF RelayStep, StartFlush, Publish, PublishFails, FlushEnds
<1> QED
  BY <1>1, <1>2, <1>3, SameClosed, SameStage

(* One step of the consumer deals with one batch or closes it. *)
LEMMA ConsumerDelivers ==
  ASSUME Inv, ConsumerStep PROVE Delivery!Next \/ UNCHANGED Stage
<1>1. CASE HandlerSucceeds \/ DeadLetter \/ DeadLetterFails \/ Ack
  <2> DEFINE e == Provisioning
  <2>1. /\ InHand /\ UNCHANGED <<event, stream, groupStart, last>>
        /\ Dealt \subseteq Dealt' /\ Dealt' \subseteq Dealt \cup {e}
        /\ pending' = pending \/ (consumer.pc = "ack" /\ pending' = pending \ {Entry})
    BY <1>1 DEF HandlerSucceeds, DeadLetter, DeadLetterFails, Ack, InHand, Dealt,
                relayVars, redisVars
  <2>2. e \in Batches /\ event[e] # "none" /\ stream[Entry] = e
    BY <2>1, EntryIsPending DEF Provisioning
  <2>3. Acked \subseteq Acked' /\ Acked' \subseteq Acked \cup {Entry}
    BY <2>1 DEF Acked
  <2>4. Acked' = Acked \/ e \in Dealt
    BY <2>1 DEF Acked, Inv, DealtInv
  <2> HIDE DEF e
  <2>5. /\ \A b \in Batches : Closed(b) => Closed(b)'
        /\ \A b \in Batches \ {e} : Closed(b)' => Closed(b)
    BY <2>1, <2>2, <2>3 DEF Closed
  <2>6. \A b \in Batches \ {e} : b \in Dealt' => b \in Dealt
    BY <2>1
  <2>7. e \in Dealt \/ (\A b \in Batches : Closed(b)' => Closed(b))
    BY <2>1, <2>4 DEF Closed
  <2>8. ASSUME NEW b \in Batches, b = e, Closed(b)' PROVE Closed(b) \/ b \in Dealt
    BY <2>7, <2>8
  <2> QED
    BY <2>1, <2>2, <2>5, <2>6, <2>8, StageMoves
<1>2. CASE \/ StartConsumer \/ ConsumerCrash \/ ReadNew \/ ListUsers \/ ListFails \/ KnownUser
           \/ AddUser \/ AddFails \/ \E S \in SUBSET pending : Reclaim(S)
  <2>1. UNCHANGED <<event, stream, provisioned, dlq>>
    BY <1>2 DEF StartConsumer, ConsumerCrash, ReadNew, ListUsers, ListFails, KnownUser, AddUser,
                AddFails, Reclaim, relayVars, redisVars
  <2>2. \A b \in Batches : Closed(b)' <=> Closed(b)
    <3>1. CASE ReadNew
      <4>1. Acked' = Acked /\ groupStart' = groupStart
        BY <3>1, ReadEffect DEF ReadNew
      <4> QED
        BY <2>1, <4>1 DEF Closed
    <3>2. CASE StartConsumer /\ groupStart = NoGroup
      <4>1. groupStart' = Len(stream) /\ last' = Len(stream) /\ Len(stream) \in Nat
        BY <3>2 DEF StartConsumer, Inv, TypeOK
      <4>2. Acked' = {}
        BY <4>1 DEF Acked
      <4> QED
        BY <3>2, <4>2 DEF Closed
    <3>3. CASE UNCHANGED <<groupStart, last, pending>>
      <4>1. Acked' = Acked
        BY <3>3 DEF Acked
      <4> QED
        BY <2>1, <3>3, <4>1 DEF Closed
    <3> QED
      BY <1>2, <3>1, <3>2, <3>3 DEF StartConsumer, ConsumerCrash, ListUsers, ListFails, KnownUser,
                                    AddUser, AddFails, Reclaim, redisVars
  <2> QED
    BY <2>1, <2>2, SameStage
<1> QED
  BY <1>1, <1>2 DEF ConsumerStep

LEMMA DeliveryInit == Init => Delivery!Init
  BY DEF Init, Stage, Delivery!Init

LEMMA DeliveryStep == Inv /\ [Next]_vars => [Delivery!Next]_Stage
<1> SUFFICES ASSUME Inv, [Next]_vars PROVE Delivery!Next \/ UNCHANGED Stage
  OBVIOUS
<1>1. CASE UNCHANGED vars
  <2>1. UNCHANGED <<event, stream, count, groupStart, last, pending, provisioned, dlq>> /\ TypeOK
    BY <1>1 DEF vars, relayVars, redisVars, Inv
  <2> QED
    BY <2>1, SameStreamGrows, SameClosed, SameStage
<1> QED
  BY <1>1, CreateAccepts, DeletionStutters, RelayStutters, ConsumerDelivers DEF Next

(* The outbox of the batches, its relay, the stream, the retries and the     *)
(* dead letters implement the contract of EventDelivery: no crash, lost      *)
(* answer or refused voucher closes a batch that was neither provisioned nor *)
(* parked.                                                                   *)
THEOREM BatchesDelivered == Spec => DeliveryPromise
  BY DeliveryInit, DeliveryStep, Inductive, PTL DEF Spec, DeliveryPromise, Delivery!Spec
=============================================================================
