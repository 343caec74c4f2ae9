------------------------ MODULE PaymentServiceProofs ------------------------
(***************************************************************************)
(* Proofs about the two modules of payment-service besides VoucherOrders:  *)
(* PaymentEvents, for every number of rows, of parallel flushes and of     *)
(* faults, every batch size and every choice of the rows that go out over  *)
(* WhatsApp as well; and CollectorCash, for every number of customers,     *)
(* invoices, settlements, requests and failures.                           *)
(***************************************************************************)
EXTENDS PaymentEvents, CollectorCash, SequenceTheorems, FiniteSetTheorems,
        WellFoundedInduction, TLAPS

(* The bot is handling the oldest entry of bot.todo. *)
Handling == bot.pc \in {"whatsapp", "telegram", "ack"}

(* Whatever is on its way stems from a row that was committed. *)
RowsInv ==
  /\ \A f \in Flushes : /\ flush[f].pc # "idle" => flush[f].todo # {}
                        /\ \A e \in flush[f].todo : row[e] # "none"
  /\ \A i \in Entries : row[stream[i]] # "none"
  /\ \A e \in whatsapp \cup notified : row[e] # "none"

(* What the group has delivered lies between its start and last; the thread  *)
(* handles entries that are pending.                                         *)
GroupInv ==
  /\ groupStart = NoGroup => last = 0 /\ bot.pc \in {"down", "dead"}
  /\ groupStart <= last
  /\ \A i \in pending : groupStart < i /\ i <= last
  /\ bot.todo \subseteq pending
  /\ bot.todo # {} <=> Handling

(* What the thread has to have sent at the await it is at, and before an     *)
(* entry was acknowledged.                                                   *)
ServedInv ==
  /\ groupStart # NoGroup => \A i \in Acked : Served(stream[i])
  /\ bot.pc = "ack" => Served(stream[Entry])
  /\ bot.pc = "telegram" /\ stream[Entry] \in WithPhone => stream[Entry] \in whatsapp

Inv == TypeOK /\ RowsInv /\ GroupInv /\ ServedInv

-----------------------------------------------------------------------------
(* The oldest entry, and the stream as it grows *)

LEMMA Least ==
  ASSUME NEW S, S \subseteq Nat, S # {}
  PROVE  First(S) \in S /\ \A y \in S : First(S) <= y
<1>1. PICK x \in S : \A y \in S : <<y, x>> \notin OpToRel(<, Nat)
  BY NatLessThanWellFounded, WFMin
<1>2. ASSUME NEW y \in S PROVE x <= y
  <2>1. x \in Nat /\ y \in Nat /\ ~(y < x)
    BY <1>1 DEF OpToRel
  <2> QED
    BY <2>1
<1> QED
  BY <1>2 DEF First

LEMMA EntryIsPending ==
  ASSUME Inv, Handling
  PROVE  /\ Entry \in bot.todo /\ Entry \in pending /\ Entry \in Entries
         /\ stream[Entry] \in Rows /\ row[stream[Entry]] # "none"
         /\ groupStart # NoGroup
<1>1. bot.todo \subseteq pending /\ bot.todo # {} /\ pending \subseteq Entries /\ groupStart # NoGroup
  BY DEF Inv, TypeOK, GroupInv, Handling
<1>2. Entries \subseteq Nat
  BY DEF Entries
<1>3. Entry \in bot.todo
  BY <1>1, <1>2, Least DEF Entry
<1>4. \A i \in Entries : stream[i] \in Rows
  BY DEF Inv, TypeOK, Entries
<1> QED
  BY <1>1, <1>3, <1>4 DEF Inv, RowsInv

(* Entries are added behind the others and never changed. *)
Grows ==
  /\ stream' \in Seq(Rows)
  /\ Len(stream) <= Len(stream')
  /\ \A i \in Entries : stream'[i] = stream[i]
  /\ \A i \in Entries' : i \in Entries \/ row[stream'[i]] # "none"

LEMMA AppendGrows ==
  ASSUME TypeOK, NEW e \in Rows, row[e] # "none", stream' = Append(stream, e)
  PROVE  Grows
<1>1. stream \in Seq(Rows) /\ Len(stream) \in Nat
  BY DEF TypeOK
<1>2. /\ stream' \in Seq(Rows) /\ Len(stream') = Len(stream) + 1
      /\ \A i \in 1 .. Len(stream) : stream'[i] = stream[i]
      /\ stream'[Len(stream) + 1] = e
  BY <1>1, AppendProperties
<1> QED
  BY <1>1, <1>2 DEF Grows, Entries

LEMMA SameStreamGrows ==
  ASSUME TypeOK, stream' = stream PROVE Grows
  BY DEF TypeOK, Grows, Entries

-----------------------------------------------------------------------------
(* The outbox and its relay *)

(* A committed row stays committed, and the stream takes committed rows.     *)
LEMMA RelayKeeps ==
  ASSUME Inv,
         row' \in [Rows -> {"none", "unsent", "sent"}],
         \A e \in Rows : row[e] # "none" => row'[e] # "none",
         flush' \in [Flushes -> Flush],
         \A f \in Flushes : flush'[f] # flush[f] =>
           /\ flush'[f].pc # "idle" => flush'[f].todo # {}
           /\ \A e \in flush'[f].todo : row[e] # "none",
         Grows,
         UNCHANGED <<groupStart, last, pending, botVars>>,
         faults' \in 0 .. MaxFaults
  PROVE  Inv'
<1> USE DEF botVars
<1>1. /\ Entries \subseteq Entries'
      /\ 0 .. Len(stream) \subseteq 0 .. Len(stream')
  BY DEF Grows, Entries, Inv, TypeOK
<1>2. TypeOK'
  BY <1>1 DEF Inv, TypeOK, Grows, Bot
<1>3. RowsInv'
  <2>1. \A e \in whatsapp' \cup notified' : row'[e] # "none"
    BY DEF Inv, TypeOK, RowsInv
  <2>2. \A f \in Flushes : flush'[f].todo \subseteq Rows
    BY DEF Flush
  <2>3. \A f \in Flushes : /\ flush'[f].pc # "idle" => flush'[f].todo # {}
                           /\ \A e \in flush'[f].todo : row'[e] # "none"
    BY <2>2 DEF Inv, RowsInv
  <2>4. \A i \in Entries' : stream'[i] \in Rows
    BY DEF Grows, Entries
  <2>5. \A i \in Entries' : row'[stream'[i]] # "none"
    BY <2>4 DEF Grows, Inv, RowsInv
  <2> QED
    BY <2>1, <2>3, <2>5 DEF RowsInv
<1>4. GroupInv'
  BY DEF Inv, GroupInv, Handling
<1>5. ServedInv'
  <2>1. Acked' = Acked /\ (groupStart # NoGroup => Acked \subseteq Entries)
    BY DEF Acked, Inv, TypeOK, Entries
  <2>2. Handling => Entry \in Entries
    BY EntryIsPending
  <2>3. Entry' = Entry
    BY DEF Entry
  <2>4. \A e : Served(e)' <=> Served(e)
    BY DEF Served
  <2> QED
    BY <2>1, <2>2, <2>3, <2>4 DEF Inv, ServedInv, Grows, Handling
<1> QED
  BY <1>2, <1>3, <1>4, <1>5 DEF Inv
LEMMA Faults ==
  ASSUME Inv, faults' = faults \/ Fault PROVE faults' \in 0 .. MaxFaults
  BY SizesAssumption DEF Inv, TypeOK, Fault

(* The row a call is at. *)
LEMMA RowInHand ==
  ASSUME Inv, NEW f \in Flushes, flush[f].pc # "idle"
  PROVE  /\ flush[f] \in Flush /\ First(flush[f].todo) \in flush[f].todo
         /\ First(flush[f].todo) \in Rows /\ row[First(flush[f].todo)] # "none"
<1>1. flush[f] \in Flush /\ flush[f].todo \subseteq Rows /\ flush[f].todo # {}
  BY DEF Inv, TypeOK, RowsInv, Flush
<1>2. Rows \subseteq Nat
  BY DEF Rows
<1>3. First(flush[f].todo) \in flush[f].todo
  BY <1>1, <1>2, Least
<1> QED
  BY <1>1, <1>3 DEF Inv, RowsInv

LEMMA FlushPut ==
  ASSUME Inv, NEW f \in Flushes, NEW x \in Flush, flush' = [flush EXCEPT ![f] = x],
         x.pc # "idle" => x.todo # {}, \A e \in x.todo : row[e] # "none"
  PROVE  /\ flush' \in [Flushes -> Flush]
         /\ \A g \in Flushes : flush'[g] # flush[g] =>
              /\ flush'[g].pc # "idle" => flush'[g].todo # {}
              /\ \A e \in flush'[g].todo : row[e] # "none"
  BY DEF Inv, TypeOK

LEMMA IdleIsFlush == IdleFlush \in Flush /\ IdleFlush.pc = "idle" /\ IdleFlush.todo = {}
  BY DEF IdleFlush, Flush

(* The call moves on with the row it is at. *)
LEMMA AtPut ==
  ASSUME Inv, NEW f \in Flushes, NEW pc \in {"mark", "note"}, flush[f].pc # "idle", At(f, pc)
  PROVE  /\ flush' \in [Flushes -> Flush]
         /\ \A g \in Flushes : flush'[g] # flush[g] =>
              /\ flush'[g].pc # "idle" => flush'[g].todo # {}
              /\ \A e \in flush'[g].todo : row[e] # "none"
<1> DEFINE x == [flush[f] EXCEPT !.pc = pc]
<1>1. flush[f] \in Flush
  BY RowInHand
<1>2. x \in Flush /\ x.todo = flush[f].todo
  BY <1>1 DEF Flush
<1>3. flush' = [flush EXCEPT ![f] = x]
  BY DEF At, Inv, TypeOK
<1>4. x.todo # {} /\ \A e \in x.todo : row[e] # "none"
  BY <1>2 DEF Inv, RowsInv
<1> HIDE DEF x
<1> QED
  BY <1>2, <1>3, <1>4, FlushPut

(* ... or drops it from its batch. *)
LEMMA NextRowPut ==
  ASSUME Inv, NEW f \in Flushes, flush[f].pc # "idle", NextRow(f)
  PROVE  /\ flush' \in [Flushes -> Flush]
         /\ \A g \in Flushes : flush'[g] # flush[g] =>
              /\ flush'[g].pc # "idle" => flush'[g].todo # {}
              /\ \A e \in flush'[g].todo : row[e] # "none"
<1> DEFINE todo == flush[f].todo \ {First(flush[f].todo)}
           x == IF todo = {} THEN IdleFlush ELSE [pc |-> "publish", todo |-> todo]
<1>1. todo \subseteq Rows /\ \A e \in todo : row[e] # "none"
  BY DEF Inv, TypeOK, RowsInv, Flush
<1>2. x \in Flush /\ (x.pc # "idle" => x.todo # {}) /\ x.todo \subseteq todo
  <2>1. CASE todo = {}
    BY <2>1, IdleIsFlush
  <2>2. CASE todo # {}
    BY <1>1, <2>2 DEF Flush
  <2> QED
    BY <2>1, <2>2
<1>3. flush' = [flush EXCEPT ![f] = x]
  BY DEF NextRow
<1>4. \A e \in x.todo : row[e] # "none"
  BY <1>1, <1>2
<1> HIDE DEF x, todo
<1> QED
  BY <1>2, <1>3, <1>4, FlushPut

LEMMA EnqueueStep ==
  ASSUME Inv, NEW e \in Rows, Enqueue(e) PROVE Inv'
<1>1. /\ row' = [row EXCEPT ![e] = "unsent"]
      /\ UNCHANGED <<flush, stream, groupStart, last, pending, botVars, faults>>
  BY DEF Enqueue, redisVars
<1>2. row' \in [Rows -> {"none", "unsent", "sent"}] /\ \A d \in Rows : row[d] # "none" => row'[d] # "none"
  BY <1>1 DEF Inv, TypeOK
<1>3. Grows /\ flush' \in [Flushes -> Flush] /\ faults' \in 0 .. MaxFaults
  BY <1>1, SameStreamGrows DEF Inv, TypeOK
<1> QED
  BY <1>1, <1>2, <1>3, RelayKeeps

LEMMA FlushStep ==
  ASSUME Inv, NEW f \in Flushes, RelayStep(f) PROVE Inv'
<1>1. TypeOK /\ row \in [Rows -> {"none", "unsent", "sent"}]
  BY DEF Inv, TypeOK
<1>2. faults' \in 0 .. MaxFaults
  <2>1. faults' = faults \/ Fault
    BY DEF RelayStep, StartFlush, Publish, PublishFails, MarkSent, NoteFailure, FlushThrows
  <2> QED
    BY <2>1, Faults
<1>3. CASE StartFlush(f)
  <2> DEFINE x == [pc |-> "publish", todo |-> Batch]
  <2>1. /\ Batch \subseteq Rows /\ Batch # {} /\ \A e \in Batch : row[e] # "none"
    BY <1>3 DEF StartFlush, Batch
  <2>2. x \in Flush /\ x.todo # {} /\ \A e \in x.todo : row[e] # "none"
    BY <2>1 DEF Flush
  <2>3. /\ flush' = [flush EXCEPT ![f] = x]
        /\ UNCHANGED <<row, stream, groupStart, last, pending, botVars>>
    BY <1>3 DEF StartFlush, redisVars
  <2> HIDE DEF x
  <2>4. /\ flush' \in [Flushes -> Flush]
        /\ \A g \in Flushes : flush'[g] # flush[g] =>
             /\ flush'[g].pc # "idle" => flush'[g].todo # {}
             /\ \A e \in flush'[g].todo : row[e] # "none"
    BY <2>2, <2>3, FlushPut
  <2> QED
    BY <1>1, <1>2, <2>3, <2>4, SameStreamGrows, RelayKeeps
<1>4. CASE Publish(f) \/ PublishFails(f)
  <2> DEFINE e == First(flush[f].todo)
  <2>1. e \in Rows /\ row[e] # "none"
    BY <1>4, RowInHand DEF Publish, PublishFails
  <2>2. /\ stream' = stream \/ stream' = Append(stream, e)
        /\ At(f, "mark") \/ At(f, "note")
        /\ UNCHANGED <<row, groupStart, last, pending, botVars>>
    BY <1>4 DEF Publish, PublishFails
  <2>3. Grows
    BY <1>1, <2>1, <2>2, AppendGrows, SameStreamGrows
  <2>4. /\ flush' \in [Flushes -> Flush]
        /\ \A g \in Flushes : flush'[g] # flush[g] =>
             /\ flush'[g].pc # "idle" => flush'[g].todo # {}
             /\ \A d \in flush'[g].todo : row[d] # "none"
    BY <1>4, <2>2, AtPut DEF Publish, PublishFails
  <2> QED
    BY <1>1, <1>2, <2>2, <2>3, <2>4, RelayKeeps
<1>5. CASE MarkSent(f) \/ NoteFailure(f)
  <2> DEFINE e == First(flush[f].todo)
  <2>1. e \in Rows
    BY <1>5, RowInHand DEF MarkSent, NoteFailure
  <2>2. /\ row' = row \/ row' = [row EXCEPT ![e] = "sent"]
        /\ flush[f].pc # "idle" /\ NextRow(f)
        /\ UNCHANGED <<stream, groupStart, last, pending, botVars>>
    BY <1>5 DEF MarkSent, NoteFailure, redisVars
  <2>3. /\ row' \in [Rows -> {"none", "unsent", "sent"}]
        /\ \A d \in Rows : row[d] # "none" => row'[d] # "none"
    BY <1>1, <2>1, <2>2
  <2>4. Grows
    BY <1>1, <2>2, SameStreamGrows
  <2> HIDE DEF e
  <2> QED
    BY <1>2, <2>2, <2>3, <2>4, NextRowPut, RelayKeeps
<1>6. CASE FlushThrows(f)
  <2>1. /\ flush' = [flush EXCEPT ![f] = IdleFlush]
        /\ UNCHANGED <<row, stream, groupStart, last, pending, botVars>>
    BY <1>6 DEF FlushThrows, redisVars
  <2>2. /\ flush' \in [Flushes -> Flush]
        /\ \A g \in Flushes : flush'[g] # flush[g] =>
             /\ flush'[g].pc # "idle" => flush'[g].todo # {}
             /\ \A e \in flush'[g].todo : row[e] # "none"
    BY <2>1, IdleIsFlush, FlushPut
  <2> QED
    BY <1>1, <1>2, <2>1, <2>2, SameStreamGrows, RelayKeeps
<1> QED
  BY <1>3, <1>4, <1>5, <1>6 DEF RelayStep

LEMMA RelayCrashStep ==
  ASSUME Inv, RelayCrash PROVE Inv'
<1>1. /\ flush' = [f \in Flushes |-> IdleFlush]
      /\ UNCHANGED <<row, stream, groupStart, last, pending, botVars>>
      /\ faults' \in 0 .. MaxFaults
  BY Faults DEF RelayCrash, redisVars
<1>2. TypeOK /\ row \in [Rows -> {"none", "unsent", "sent"}]
  BY DEF Inv, TypeOK
<1>3. /\ flush' \in [Flushes -> Flush]
      /\ \A f \in Flushes : flush'[f].pc = "idle" /\ flush'[f].todo = {}
  BY <1>1, IdleIsFlush
<1> QED
  BY <1>1, <1>2, <1>3, SameStreamGrows, RelayKeeps
-----------------------------------------------------------------------------
(* The consumer thread *)

LEMMA DispatchEffect ==
  ASSUME TypeOK, NEW S \in SUBSET Entries
  PROVE  /\ Dispatching(S) \in Bot /\ Dispatching(S).todo = S
         /\ Dispatching(S).pc \in {"poll", "whatsapp", "telegram"}
         /\ S # {} <=> Dispatching(S).pc # "poll"
         /\ Dispatching(S).pc = "telegram" => stream[First(S)] \notin WithPhone
<1>1. CASE S = {}
  BY <1>1 DEF Dispatching, Poll, Bot
<1>2. CASE S # {}
  BY <1>2 DEF Dispatching, Bot
<1> QED
  BY <1>1, <1>2

(* The thread turns to the entries S, all of them pending; an entry that is  *)
(* no longer pending has been served.                                        *)
LEMMA MoveOn ==
  ASSUME Inv, UNCHANGED <<row, flush, stream, groupStart>>, groupStart # NoGroup,
         faults' \in 0 .. MaxFaults,
         pending' \subseteq Entries, NEW S \in SUBSET pending', bot' = Dispatching(S),
         last' \in 0 .. Len(stream), last <= last',
         \A i \in pending' : groupStart < i /\ i <= last',
         whatsapp \subseteq whatsapp', notified \subseteq notified',
         \A e \in whatsapp' \cup notified' : e \in Rows /\ row[e] # "none",
         \A i \in Acked' : i \in Acked \/ Served(stream[i])'
  PROVE  Inv'
<1>1. /\ bot' \in Bot /\ bot'.todo = S
      /\ bot'.pc \in {"poll", "whatsapp", "telegram"}
      /\ S # {} <=> bot'.pc # "poll"
      /\ bot'.pc = "telegram" => stream[First(S)] \notin WithPhone
  BY DispatchEffect DEF Inv
<1>2. Entries' = Entries
  BY DEF Entries
<1>3. TypeOK'
  BY <1>1, <1>2 DEF Inv, TypeOK, Bot
<1>4. RowsInv'
  BY <1>2 DEF Inv, RowsInv
<1>5. GroupInv'
  <2>1. groupStart <= last'
    BY <1>2 DEF Inv, TypeOK, GroupInv, NoGroup
  <2> QED
    BY <1>1, <2>1 DEF GroupInv, Handling
<1>6. ServedInv'
  <2>1. \A e : Served(e) => Served(e)'
    BY DEF Served
  <2>2. \A i \in Acked : Served(stream[i])
    BY DEF Inv, ServedInv
  <2>3. Entry' = First(S)
    BY <1>1 DEF Entry
  <2>4. \A i \in Acked' : Served(stream[i])'
    BY <2>1, <2>2
  <2> QED
    BY <1>1, <2>3, <2>4 DEF ServedInv
<1> QED
  BY <1>3, <1>4, <1>5, <1>6 DEF Inv

(* XREADGROUP returns the entries right behind the last one delivered. *)
LEMMA NewEntries ==
  ASSUME Inv
  PROVE  LET new == {i \in Entries : last < i /\ i <= last + ReadCount}
         IN  /\ last + Cardinality(new) \in 0 .. Len(stream)
             /\ Cardinality(new) \in Nat
             /\ new = last + 1 .. last + Cardinality(new)
<1> DEFINE new == {i \in Entries : last < i /\ i <= last + ReadCount}
<1>1. last \in 0 .. Len(stream) /\ Len(stream) \in Nat /\ ReadCount \in Nat \ {0}
  BY SizesAssumption DEF Inv, TypeOK
<1>2. PICK end \in last .. Len(stream) :
        last + ReadCount = end \/ (last + ReadCount > end /\ end = Len(stream))
  <2>1. CASE last + ReadCount <= Len(stream)
    <3>1. last + ReadCount \in last .. Len(stream)
      BY <1>1, <2>1
    <3> QED
      BY <3>1
  <2>2. CASE last + ReadCount > Len(stream)
    <3>1. Len(stream) \in last .. Len(stream)
      BY <1>1
    <3> QED
      BY <2>2, <3>1
  <2>3. last + ReadCount \in Int
    BY <1>1
  <2> QED
    BY <1>1, <2>1, <2>2, <2>3
<1>3. new = last + 1 .. end
  BY <1>1, <1>2 DEF Entries
<1>4. Cardinality(last + 1 .. end) = end - last
  <2>1. last + 1 \in Int /\ end \in Int /\ end - (last + 1) + 1 = end - last
        /\ (last + 1 > end => end - last = 0)
    BY <1>1
  <2> QED
    BY <2>1, FS_Interval
<1>5. Cardinality(new) = end - last
  BY <1>3, <1>4
<1>6. end - last \in Nat /\ last + (end - last) = end
  BY <1>1
<1>7. end \in 0 .. Len(stream)
  BY <1>1
<1> HIDE DEF new
<1>8. /\ last + Cardinality(new) \in 0 .. Len(stream) /\ Cardinality(new) \in Nat
      /\ new = last + 1 .. last + Cardinality(new)
  BY <1>3, <1>5, <1>6, <1>7
<1> QED
  BY <1>8 DEF new

LEMMA ReadEffect ==
  ASSUME Inv, ReadNew
  PROVE  /\ last' \in 0 .. Len(stream) /\ last <= last'
         /\ pending' \subseteq Entries
         /\ \A i \in pending' : groupStart < i /\ i <= last'
         /\ Acked' = Acked
         /\ \E new \in SUBSET pending' : bot' = Dispatching(new)
<1> DEFINE new == {i \in Entries : last < i /\ i <= last + ReadCount}
<1>1. /\ last' = last + Cardinality(new) /\ pending' = pending \cup new
      /\ bot' = Dispatching(new) /\ UNCHANGED <<stream, groupStart>>
  BY DEF ReadNew
<1>2. /\ new \subseteq Entries /\ pending \subseteq Entries /\ last \in 0 .. Len(stream)
      /\ Len(stream) \in Nat /\ groupStart \in Nat /\ groupStart <= last
      /\ \A i \in pending : groupStart < i /\ i <= last
  BY DEF ReadNew, Inv, TypeOK, GroupInv
<1>3. /\ last + Cardinality(new) \in 0 .. Len(stream) /\ Cardinality(new) \in Nat
      /\ new = last + 1 .. last + Cardinality(new)
  BY NewEntries
<1> HIDE DEF new
<1>4. last' \in 0 .. Len(stream) /\ last <= last' /\ new = last + 1 .. last'
  BY <1>1, <1>2, <1>3
<1>5. last \in Int /\ last' \in Int /\ groupStart + 1 \in Int
  BY <1>2, <1>4
<1>6. ASSUME NEW i \in pending' PROVE groupStart < i /\ i <= last'
  <2>1. CASE i \in pending
    <3>1. i \in Int /\ groupStart < i /\ i <= last
      BY <1>2, <2>1 DEF Entries
    <3> QED
      BY <1>4, <1>5, <3>1
  <2>2. CASE i \in new
    BY <1>2, <1>4, <1>5, <2>2
  <2> QED
    BY <1>1, <2>1, <2>2
<1>7. ASSUME NEW i PROVE i \in Acked' <=> i \in Acked
  <2>1. i \in Acked' <=> i \in groupStart + 1 .. last' /\ i \notin pending /\ i \notin new
    BY <1>1 DEF Acked
  <2>2. i \in groupStart + 1 .. last' /\ i \notin new <=> i \in groupStart + 1 .. last
    BY <1>2, <1>4, <1>5
  <2> QED
    BY <2>1, <2>2 DEF Acked
<1>8. Acked' = Acked
  BY <1>7 DEF Acked
<1> QED
  BY <1>1, <1>2, <1>4, <1>6, <1>8

LEMMA ReadStep ==
  ASSUME Inv, ReadNew \/ \E S \in SUBSET pending : Reclaim(S) PROVE Inv'
<1>1. /\ UNCHANGED <<row, flush, stream, groupStart, whatsapp, notified, faults>>
      /\ bot.pc = "poll"
  BY DEF ReadNew, Reclaim, relayVars, redisVars
<1>2. /\ groupStart # NoGroup /\ faults' \in 0 .. MaxFaults
      /\ pending \subseteq Entries /\ last \in 0 .. Len(stream)
      /\ \A i \in pending : groupStart < i /\ i <= last
      /\ \A e \in whatsapp \cup notified : e \in Rows /\ row[e] # "none"
  BY <1>1 DEF Inv, TypeOK, GroupInv, RowsInv
<1>3. CASE ReadNew
  BY <1>1, <1>2, <1>3, ReadEffect, MoveOn
<1>4. ASSUME NEW S \in SUBSET pending, Reclaim(S) PROVE Inv'
  <2>1. UNCHANGED <<last, pending>> /\ bot' = Dispatching(S)
    BY <1>4 DEF Reclaim, redisVars
  <2>2. Acked' = Acked /\ last <= last'
    BY <1>1, <1>2, <2>1 DEF Acked
  <2> QED
    BY <1>1, <1>2, <2>1, <2>2, MoveOn
<1> QED
  BY <1>3, <1>4

(* The thread has nothing in hand. *)
LEMMA NothingInHand ==
  ASSUME Inv, UNCHANGED <<row, flush, stream, pending, whatsapp, notified>>,
         faults' \in 0 .. MaxFaults,
         bot' \in Bot, bot'.todo = {}, bot'.pc \in {"poll", "down", "dead"},
         \/ UNCHANGED <<groupStart, last>> /\ (groupStart = NoGroup => bot'.pc # "poll")
         \/ groupStart = NoGroup /\ groupStart' = Len(stream) /\ last' = Len(stream)
  PROVE  Inv'
<1>1. Entries' = Entries
  BY DEF Entries
<1>2. /\ groupStart \in {NoGroup} \cup 0 .. Len(stream) /\ last \in 0 .. Len(stream)
      /\ Len(stream) \in Nat /\ pending \subseteq Entries
      /\ groupStart = NoGroup => pending = {}
  <2>1. groupStart = NoGroup => last = 0 /\ \A i \in pending : i <= last
    BY DEF Inv, GroupInv
  <2>2. pending \subseteq Entries /\ \A i \in Entries : i \in Int /\ i > 0
    BY DEF Inv, TypeOK, Entries
  <2>3. ASSUME groupStart = NoGroup, NEW i \in pending PROVE FALSE
    BY <2>1, <2>2, <2>3
  <2> QED
    BY <2>2, <2>3 DEF Inv, TypeOK
<1>3. TypeOK'
  <2>1. groupStart' \in {NoGroup} \cup 0 .. Len(stream) /\ last' \in 0 .. Len(stream)
    BY <1>2
  <2> QED
    BY <1>1, <2>1 DEF Inv, TypeOK, Bot
<1>4. RowsInv'
  BY <1>1 DEF Inv, RowsInv
<1>5. GroupInv'
  <2>1. /\ groupStart' = NoGroup => last' = 0 /\ bot'.pc \in {"down", "dead"}
        /\ groupStart' <= last'
        /\ \A i \in pending : groupStart' < i /\ i <= last'
    <3>1. CASE UNCHANGED <<groupStart, last>> /\ (groupStart = NoGroup => bot'.pc # "poll")
      BY <3>1 DEF Inv, GroupInv
    <3>2. CASE groupStart = NoGroup /\ groupStart' = Len(stream) /\ last' = Len(stream)
      BY <1>2, <3>2 DEF NoGroup
    <3> QED
      BY <3>1, <3>2
  <2> QED
    BY <2>1 DEF GroupInv, Handling
<1>6. ServedInv'
  <2>1. ASSUME groupStart' # NoGroup, NEW i \in Acked' PROVE Served(stream[i])'
    <3>1. CASE UNCHANGED <<groupStart, last>>
      BY <2>1, <3>1 DEF Inv, ServedInv, Acked, Served
    <3>2. CASE groupStart' = Len(stream) /\ last' = Len(stream)
      BY <1>2, <2>1, <3>2 DEF Acked
    <3> QED
      BY <3>1, <3>2
  <2> QED
    BY <2>1 DEF ServedInv
<1> QED
  BY <1>3, <1>4, <1>5, <1>6 DEF Inv

LEMMA RestartStep ==
  ASSUME Inv, StartBot \/ StartFails \/ BotCrash PROVE Inv'
<1>1. UNCHANGED <<row, flush, stream, pending, whatsapp, notified>> /\ faults' \in 0 .. MaxFaults
  <2>1. faults' = faults \/ Fault
    BY DEF StartBot, StartFails, BotCrash
  <2> QED
    BY <2>1, Faults DEF StartBot, StartFails, BotCrash, relayVars, redisVars
<1>2. bot \in Bot /\ (bot.pc = "down" => bot.todo = {})
  BY DEF Inv, TypeOK, GroupInv, Handling
<1>3. CASE StartBot
  <2>1. bot' \in Bot /\ bot'.todo = {} /\ bot'.pc = "poll"
    BY <1>3 DEF StartBot, Poll, Bot
  <2>2. \/ UNCHANGED <<groupStart, last>> /\ groupStart # NoGroup
        \/ groupStart = NoGroup /\ groupStart' = Len(stream) /\ last' = Len(stream)
    BY <1>3 DEF StartBot
  <2> QED
    BY <1>1, <2>1, <2>2, NothingInHand
<1>4. CASE StartFails
  <2>1. bot' \in Bot /\ bot'.todo = {} /\ bot'.pc = "dead" /\ UNCHANGED <<groupStart, last>>
    BY <1>2, <1>4 DEF StartFails, Bot, redisVars
  <2> QED
    BY <1>1, <2>1, NothingInHand
<1>5. CASE BotCrash
  <2>1. bot' \in Bot /\ bot'.todo = {} /\ bot'.pc = "down" /\ UNCHANGED <<groupStart, last>>
    BY <1>5 DEF BotCrash, Bot, redisVars
  <2> QED
    BY <1>1, <2>1, NothingInHand
<1> QED
  BY <1>3, <1>4, <1>5

(* Handling an entry changes what is known of its row alone. *)
LEMMA HandlingEffect ==
  ASSUME Inv, SendWhatsApp \/ NotifyTelegram \/ WhatsAppFails \/ TelegramFails \/ Ack
  PROVE  /\ Handling /\ UNCHANGED <<row, flush, stream, groupStart, last>>
         /\ whatsapp \subseteq whatsapp' /\ whatsapp' \subseteq whatsapp \cup {stream[Entry]}
         /\ notified \subseteq notified' /\ notified' \subseteq notified \cup {stream[Entry]}
         /\ pending' = pending \/ (bot.pc = "ack" /\ pending' = pending \ {Entry})
  BY DEF SendWhatsApp, NotifyTelegram, WhatsAppFails, TelegramFails, Ack, Received,
         Handling, relayVars, redisVars

(* A message is sent and the thread goes on with the same entry. *)
LEMMA MessageStep ==
  ASSUME Inv, SendWhatsApp \/ NotifyTelegram PROVE Inv'
<1> DEFINE e == stream[Entry]
<1>1. Handling /\ UNCHANGED <<row, flush, stream, groupStart, last, pending, faults>>
  BY DEF SendWhatsApp, NotifyTelegram, Handling, relayVars, redisVars
<1>2. e \in Rows /\ row[e] # "none" /\ bot \in Bot
  BY <1>1, EntryIsPending DEF Inv, TypeOK
<1>3. /\ whatsapp \subseteq whatsapp' /\ notified \subseteq notified'
      /\ whatsapp' \subseteq whatsapp \cup {e} /\ notified' \subseteq notified \cup {e}
  BY HandlingEffect
<1>4. bot' \in Bot /\ bot'.todo = bot.todo /\ bot'.pc \in {"telegram", "ack"}
  BY <1>2 DEF SendWhatsApp, NotifyTelegram, Bot
<1>5. Entries' = Entries /\ Acked' = Acked
  BY <1>1 DEF Entries, Acked
<1>6. TypeOK'
  BY <1>1, <1>2, <1>3, <1>4, <1>5 DEF Inv, TypeOK, Bot
<1>7. RowsInv'
  BY <1>1, <1>2, <1>3, <1>5 DEF Inv, RowsInv
<1>8. GroupInv'
  BY <1>1, <1>4 DEF Inv, GroupInv, Handling
<1>9. ServedInv'
  <2>1. \A d : Served(d) => Served(d)'
    BY <1>3 DEF Served
  <2>2. groupStart # NoGroup => \A i \in Acked' : Served(stream[i])'
    BY <1>1, <1>5, <2>1 DEF Inv, ServedInv, Served
  <2>3. Entry' = Entry
    BY <1>4 DEF Entry
  <2>4. bot'.pc = "ack" => e \in notified' /\ (e \in WithPhone => e \in whatsapp')
    BY <1>2 DEF Inv, ServedInv, SendWhatsApp, NotifyTelegram, Bot
  <2>5. bot'.pc = "telegram" /\ e \in WithPhone => e \in whatsapp'
    BY <1>2 DEF SendWhatsApp, NotifyTelegram, Received, Bot
  <2> QED
    BY <1>1, <2>2, <2>3, <2>4, <2>5 DEF ServedInv, Served
<1> QED
  BY <1>6, <1>7, <1>8, <1>9 DEF Inv

(* The thread leaves an entry, with or without its acknowledgement. *)
LEMMA LeaveStep ==
  ASSUME Inv, WhatsAppFails \/ TelegramFails \/ Ack PROVE Inv'
<1> DEFINE e == stream[Entry]
           left == bot.todo \ {Entry}
<1>1. /\ Handling /\ UNCHANGED <<row, flush, stream, groupStart, last>>
      /\ bot' = Dispatching(left)
  BY HandlingEffect DEF WhatsAppFails, TelegramFails, Ack, NextEntry
<1>2. e \in Rows /\ row[e] # "none" /\ groupStart # NoGroup
  BY <1>1, EntryIsPending
<1>3. faults' \in 0 .. MaxFaults
  <2>1. faults' = faults \/ Fault
    BY DEF WhatsAppFails, TelegramFails, Ack
  <2> QED
    BY <2>1, Faults
<1>4. /\ whatsapp \subseteq whatsapp' /\ notified \subseteq notified'
      /\ whatsapp' \cup notified' \subseteq whatsapp \cup notified \cup {e}
  BY HandlingEffect
<1>5. \A d \in whatsapp' \cup notified' : d \in Rows /\ row[d] # "none"
  <2>1. \A d \in whatsapp \cup notified : d \in Rows /\ row[d] # "none"
    BY DEF Inv, TypeOK, RowsInv
  <2> QED
    BY <1>2, <1>4, <2>1
<1>6. pending' = pending \/ (bot.pc = "ack" /\ pending' = pending \ {Entry})
  BY HandlingEffect
<1>7. /\ pending' \subseteq Entries /\ left \subseteq pending'
      /\ \A i \in pending' : groupStart < i /\ i <= last'
      /\ last' \in 0 .. Len(stream) /\ last <= last'
  <2>1. /\ pending \subseteq Entries /\ bot.todo \subseteq pending
        /\ \A i \in pending : groupStart < i /\ i <= last
        /\ last \in 0 .. Len(stream)
    BY DEF Inv, TypeOK, GroupInv
  <2>2. last <= last
    BY <2>1
  <2> QED
    BY <1>1, <1>6, <2>1, <2>2
<1>8. \A i \in Acked' : i \in Acked \/ Served(stream[i])'
  <2>1. \A i \in Acked' : i \in Acked \/ (bot.pc = "ack" /\ i = Entry)
    BY <1>1, <1>6 DEF Acked
  <2>2. bot.pc = "ack" => Served(e)
    BY DEF Inv, ServedInv
  <2>3. \A d : Served(d) => Served(d)'
    BY <1>4 DEF Served
  <2> QED
    BY <1>1, <2>1, <2>2, <2>3 DEF Served
<1> HIDE DEF e, left
<1> QED
  BY <1>1, <1>2, <1>3, <1>4, <1>5, <1>7, <1>8, MoveOn
-----------------------------------------------------------------------------
(* The invariant *)

LEMMA InvInit == Init => Inv
<1> SUFFICES ASSUME Init PROVE Inv
  OBVIOUS
<1>1. /\ stream = <<>> /\ Len(stream) = 0 /\ Entries = {} /\ stream \in Seq(Rows)
  BY DEF Init, Entries
<1>2. TypeOK
  BY <1>1, IdleIsFlush, SizesAssumption DEF Init, TypeOK, Bot
<1>3. RowsInv
  BY <1>1, IdleIsFlush DEF Init, RowsInv
<1>4. GroupInv
  BY DEF Init, GroupInv, Handling, NoGroup
<1>5. ServedInv
  BY DEF Init, ServedInv
<1> QED
  BY <1>2, <1>3, <1>4, <1>5 DEF Inv

LEMMA InvStutter ==
  ASSUME Inv, UNCHANGED vars PROVE Inv'
<1>1. /\ UNCHANGED <<row, flush, groupStart, last, pending, botVars, faults>>
      /\ stream' = stream
  BY DEF vars, relayVars, redisVars
<1>2. Grows /\ row' \in [Rows -> {"none", "unsent", "sent"}] /\ flush' \in [Flushes -> Flush]
      /\ faults' \in 0 .. MaxFaults
  BY <1>1, SameStreamGrows DEF Inv, TypeOK
<1> QED
  BY <1>1, <1>2, RelayKeeps

LEMMA InvStep == Inv /\ [Next]_vars => Inv'
<1> SUFFICES ASSUME Inv, [Next]_vars PROVE Inv'
  OBVIOUS
<1>1. CASE BotStep
  BY <1>1, ReadStep, RestartStep, MessageStep, LeaveStep DEF BotStep
<1> QED
  BY <1>1, EnqueueStep, FlushStep, RelayCrashStep, InvStutter DEF Next

THEOREM Inductive == Spec => []Inv
  BY InvInit, InvStep, PTL DEF Spec

(* The rows, the flushes, the stream with its group and the consumer thread  *)
(* keep their types; last and pending never point past the stream.           *)
THEOREM EventsTyping == Spec => []TypeOK
<1>1. Inv => TypeOK
  BY DEF Inv
<1> QED
  BY <1>1, Inductive, PTL

-----------------------------------------------------------------------------
(* Outbox, stream and group implement EventDelivery *)

(* The stage of one row moves on by one, or none does. *)
LEMMA StageMoves ==
  ASSUME row' = row, NEW e \in Rows, row[e] # "none",
         \A d \in Rows : Closed(d) => Closed(d)',
         \A d \in Rows : Served(d) => Served(d)',
         \A d \in Rows \ {e} : /\ Closed(d)' => Closed(d)
                               /\ Served(d)' => Served(d),
         Closed(e)' => Closed(e) \/ Served(e)
  PROVE  Delivery!Next \/ UNCHANGED Stage
<1> DEFINE stageOf(none, closed, served) ==
             IF none THEN "none" ELSE IF closed THEN "closed"
             ELSE IF served THEN "dealt" ELSE "held"
<1>1. /\ Stage = [d \in Rows |-> stageOf(row[d] = "none", Closed(d), Served(d))]
      /\ Stage' = [d \in Rows |-> stageOf(row[d] = "none", Closed(d)', Served(d)')]
  BY DEF Stage
<1>2. \A d \in Rows \ {e} : Stage'[d] = Stage[d]
  BY <1>1
<1>3. Stage' = [Stage EXCEPT ![e] = Stage'[e]]
  BY <1>1, <1>2
<1>4. CASE Closed(e) \/ (~Closed(e)' /\ (Served(e) \/ ~Served(e)'))
  <2>1. Stage'[e] = Stage[e]
    BY <1>1, <1>4
  <2> QED
    BY <1>1, <1>3, <2>1
<1>5. CASE ~Closed(e) /\ Closed(e)'
  <2>1. Stage[e] = "dealt" /\ Stage'[e] = "closed"
    BY <1>1, <1>5
  <2> QED
    BY <1>3, <2>1 DEF Delivery!Next, Delivery!Close, Delivery!Advance
<1>6. CASE ~Closed(e) /\ ~Closed(e)' /\ ~Served(e) /\ Served(e)'
  <2>1. Stage[e] = "held" /\ Stage'[e] = "dealt"
    BY <1>1, <1>6
  <2> QED
    BY <1>3, <2>1 DEF Delivery!Next, Delivery!Deal, Delivery!Advance
<1> QED
  BY <1>4, <1>5, <1>6
(* None does. *)
LEMMA SameStage ==
  ASSUME \A d \in Rows : /\ row'[d] = "none" <=> row[d] = "none"
                         /\ Closed(d)' <=> Closed(d)
                         /\ Served(d)' <=> Served(d)
  PROVE  UNCHANGED Stage
  BY DEF Stage

LEMMA SameClosed ==
  ASSUME Inv, Grows, UNCHANGED <<groupStart, last, pending>>
  PROVE  \A d \in Rows : Closed(d)' <=> Closed(d)
<1>1. Acked' = Acked /\ (groupStart # NoGroup => Acked \subseteq Entries)
  BY DEF Acked, Inv, TypeOK, Entries
<1> QED
  BY <1>1 DEF Closed, Grows

(* A row that is not committed yet has not been heard of. *)
LEMMA EnqueueAccepts ==
  ASSUME Inv, NEW e \in Rows, Enqueue(e) PROVE Delivery!Next
<1>1. /\ row' = [row EXCEPT ![e] = "unsent"] /\ row[e] = "none"
      /\ UNCHANGED <<stream, groupStart, last, pending, botVars>>
  BY DEF Enqueue, redisVars
<1>2. TypeOK /\ Grows
  BY <1>1, SameStreamGrows DEF Inv
<1>3. \A d \in Rows : (Closed(d)' <=> Closed(d)) /\ (Served(d)' <=> Served(d))
  BY <1>1, <1>2, SameClosed DEF Served, botVars
<1>4. ~Closed(e) /\ ~Served(e)
  <2>1. groupStart # NoGroup => Acked \subseteq Entries
    BY <1>2 DEF Acked, TypeOK, Entries
  <2> QED
    BY <1>1, <2>1 DEF Inv, RowsInv, Closed, Served
<1>5. \A d \in Rows \ {e} : row'[d] = row[d]
  BY <1>1, <1>2 DEF TypeOK
<1>6. row'[e] # "none"
  BY <1>1, <1>2 DEF TypeOK
<1>7. Stage[e] = "none" /\ Stage' = [Stage EXCEPT ![e] = "held"]
  BY <1>1, <1>3, <1>4, <1>5, <1>6 DEF Stage
<1> QED
  BY <1>7 DEF Delivery!Next, Delivery!Accept, Delivery!Advance

LEMMA RelayStutters ==
  ASSUME Inv, RelayCrash \/ \E f \in Flushes : RelayStep(f) PROVE UNCHANGED Stage
<1>1. UNCHANGED <<groupStart, last, pending, botVars>> /\ TypeOK
  BY DEF RelayCrash, RelayStep, StartFlush, Publish, PublishFails, MarkSent, NoteFailure,
         FlushThrows, redisVars, Inv
<1>2. Grows
  <2>1. stream' = stream \/ \E f \in Flushes : Publish(f) \/ PublishFails(f)
    BY DEF RelayCrash, RelayStep, StartFlush, MarkSent, NoteFailure, FlushThrows, redisVars
  <2>2. ASSUME NEW f \in Flushes, Publish(f) \/ PublishFails(f) PROVE Grows
    <3>1. /\ flush[f].pc # "idle"
          /\ stream' = stream \/ stream' = Append(stream, First(flush[f].todo))
      BY <2>2 DEF Publish, PublishFails
    <3> QED
      BY <1>1, <3>1, RowInHand, AppendGrows, SameStreamGrows
  <2> QED
    BY <1>1, <2>1, <2>2, SameStreamGrows
<1>3. \A d \in Rows : row'[d] = "none" <=> row[d] = "none"
  <2>1. CASE \E f \in Flushes : MarkSent(f)
    <3>1. PICK f \in Flushes : MarkSent(f)
      BY <2>1
    <3> DEFINE e == First(flush[f].todo)
    <3>2. e \in Rows /\ row[e] # "none" /\ row' = [row EXCEPT ![e] = "sent"]
      BY <3>1, RowInHand DEF MarkSent
    <3> HIDE DEF e
    <3> QED
      BY <1>1, <3>2 DEF TypeOK
  <2>2. CASE row' = row
    BY <2>2
  <2> QED
    BY <2>1, <2>2 DEF RelayCrash, RelayStep, StartFlush, Publish, PublishFails, NoteFailure,
                      FlushThrows
<1> QED
  BY <1>1, <1>2, <1>3, SameClosed, SameStage DEF Served, botVars

(* One step of the thread deals with one row or closes it. *)
LEMMA BotDelivers ==
  ASSUME Inv, BotStep PROVE Delivery!Next \/ UNCHANGED Stage
<1>1. CASE SendWhatsApp \/ NotifyTelegram \/ WhatsAppFails \/ TelegramFails \/ Ack
  <2> DEFINE e == stream[Entry]
  <2>1. /\ Handling /\ UNCHANGED <<row, flush, stream, groupStart, last>>
        /\ whatsapp \subseteq whatsapp' /\ whatsapp' \subseteq whatsapp \cup {e}
        /\ notified \subseteq notified' /\ notified' \subseteq notified \cup {e}
        /\ pending' = pending \/ (bot.pc = "ack" /\ pending' = pending \ {Entry})
    BY <1>1, HandlingEffect
  <2>2. e \in Rows /\ row[e] # "none"
    BY <2>1, EntryIsPending
  <2>3. Acked \subseteq Acked' /\ Acked' \subseteq Acked \cup {Entry}
    BY <2>1 DEF Acked
  <2>4. Acked' = Acked \/ Served(e)
    BY <2>1 DEF Acked, Inv, ServedInv
  <2>5. /\ \A d \in Rows : Closed(d) => Closed(d)'
        /\ \A d \in Rows \ {e} : Closed(d)' => Closed(d)
    BY <2>1, <2>3 DEF Closed
  <2>6. /\ \A d \in Rows : Served(d) => Served(d)'
        /\ \A d \in Rows \ {e} : Served(d)' => Served(d)
    BY <2>1 DEF Served
  <2> HIDE DEF e
  <2>7. Closed(e) \/ Served(e) \/ (\A d \in Rows : Closed(d)' => Closed(d))
    BY <2>1, <2>4 DEF Closed
  <2>8. ASSUME NEW d \in Rows, d = e, Closed(d)' PROVE Closed(d) \/ Served(d)
    BY <2>7, <2>8
  <2> QED
    BY <2>1, <2>2, <2>5, <2>6, <2>8, StageMoves
<1>2. CASE StartBot \/ StartFails \/ ReadNew \/ BotCrash \/ \E S \in SUBSET pending : Reclaim(S)
  <2>1. UNCHANGED <<row, stream, whatsapp, notified>>
    BY <1>2 DEF StartBot, StartFails, ReadNew, BotCrash, Reclaim, relayVars, redisVars
  <2>2. \A d \in Rows : Served(d)' <=> Served(d)
    BY <2>1 DEF Served
  <2>3. \A d \in Rows : Closed(d)' <=> Closed(d)
    <3>1. CASE ReadNew
      <4>1. Acked' = Acked /\ groupStart' = groupStart
        BY <3>1, ReadEffect DEF ReadNew
      <4> QED
        BY <2>1, <4>1 DEF Closed
    <3>2. CASE StartBot /\ groupStart = NoGroup
      <4>1. groupStart' = Len(stream) /\ last' = Len(stream) /\ Len(stream) \in Nat
        BY <3>2 DEF StartBot, Inv, TypeOK
      <4>2. Acked' = {}
        BY <4>1 DEF Acked
      <4> QED
        BY <3>2, <4>2 DEF Closed
    <3>3. CASE UNCHANGED <<groupStart, last, pending>>
      BY <2>1, <3>3, SameStreamGrows, SameClosed DEF Inv
    <3> QED
      BY <1>2, <3>1, <3>2, <3>3 DEF StartBot, StartFails, BotCrash, Reclaim, redisVars
  <2> QED
    BY <2>1, <2>2, <2>3, SameStage
<1> QED
  BY <1>1, <1>2 DEF BotStep

LEMMA DeliveryInit == Init => Delivery!Init
  BY DEF Init, Stage, Delivery!Init

LEMMA DeliveryStep == Inv /\ [Next]_vars => [Delivery!Next]_Stage
<1> SUFFICES ASSUME Inv, [Next]_vars PROVE Delivery!Next \/ UNCHANGED Stage
  OBVIOUS
<1>1. CASE UNCHANGED vars
  <2>1. UNCHANGED <<row, stream, groupStart, last, pending, whatsapp, notified>> /\ TypeOK
    BY <1>1 DEF vars, relayVars, redisVars, botVars, Inv
  <2> QED
    BY <2>1, SameStreamGrows, SameClosed, SameStage DEF Served
<1> QED
  BY <1>1, EnqueueAccepts, RelayStutters, BotDelivers DEF Next

(* The outbox, its relay, the stream and the consumer implement the contract *)
(* of EventDelivery: no crash, lost answer, failed message or second         *)
(* delivery closes an event whose messages were not both sent, or takes back *)
(* one that was dealt with.                                                  *)
THEOREM EventsDelivered == Spec => DeliveryPromise
  BY DeliveryInit, DeliveryStep, Inductive, PTL DEF Spec, DeliveryPromise, Delivery!Spec

-----------------------------------------------------------------------------
(* CollectorCash *)

(* The rows a request may hold, and the requests. *)
RowMaps == UNION {[C -> Row] : C \in SUBSET Customers}

Req == [pc : Pcs, subject : Invoices \cup Settlements \cup {NoId}, name : Names \cup {NoName},
        rows : RowMaps, stale : SUBSET Customers, overtaken : BOOLEAN, first : BOOLEAN]

(* Requests with customers to save. *)
Saving == {"credit", "deduct", "rewrite", "edit"}

(* The tables.  A customer that is gone, and one that was never there. *)
TablesInv ==
  /\ customer \in [Customers -> Row \cup {NoRow}]
  /\ fresh \subseteq Customers /\ fresh \cap Present = {}
  /\ invoice \in [Invoices -> [amount : Amounts, paid : BOOLEAN]]
  /\ settlement \in [Settlements -> Settlement]
  /\ req \in [Requests -> Req]
  /\ account \in [Customers -> Nat \cup {Unknown}]
  /\ \A c \in fresh : account[c] = 0
  /\ \A c \in Customers \ Present : c \in fresh \/ account[c] = Unknown
  /\ failures \in 0 .. MaxFailures

(* What a request has read and nobody has overtaken is what the tables hold. *)
Sound(r) ==
  /\ req[r].stale \subseteq Pending(r)
  /\ Pending(r) \cap fresh = {}
  /\ req[r].pc \notin Saving => Pending(r) = {}
  /\ \A c \in Pending(r) \ req[r].stale :
       c \in Present /\ req[r].rows[c].cash = customer[c].cash
  /\ req[r].pc \in {"savePaid", "findCollectors", "credit"} => req[r].subject \in Invoices
  /\ req[r].pc \in {"saveVerified", "findCollector", "deduct"} =>
       req[r].subject \in Settlements /\ settlement[req[r].subject].status # "none"
  /\ req[r].pc = "savePaid" => req[r].overtaken \/ ~invoice[req[r].subject].paid
  /\ req[r].pc = "saveVerified" =>
       req[r].overtaken \/ settlement[req[r].subject].status = "pending"
  /\ req[r].pc \in {"findCollectors", "findCollector"} => req[r].overtaken \/ req[r].first

(* Request r is about to change the cash of c. *)
Changes(r, c) == c \in Pending(r) /\ req[r].pc \in {"credit", "deduct"}

(* What a request will make of cash n. *)
Effect(r, n) ==
  IF req[r].pc = "credit" THEN n + invoice[req[r].subject].amount
  ELSE NotBelowZero(n - settlement[req[r].subject].amount)

(* While the account of c is known: the row holds it; or one request is      *)
(* about to make it so; or a request will find its copy overtaken, at the    *)
(* latest when another one has saved the row before it.                      *)
Accounted(c) ==
  \/ account[c] = Unknown
  \/ customer[c].cash = account[c] /\ \A r \in Requests : ~Changes(r, c)
  \/ \E r \in Requests :
       /\ Changes(r, c)
       /\ \/ c \in req[r].stale
          \/ \E q \in Requests \ {r} : Changes(q, c)
          \/ account[c] = Effect(r, customer[c].cash)

(* The inductive invariant. *)
CashInv == /\ TablesInv
           /\ \A r \in Requests : Sound(r)
           /\ \A c \in Present : Accounted(c)

LEMMA IdleIsReq ==
  /\ Idle \in Req /\ Idle.pc = "idle" /\ DOMAIN Idle.rows = {} /\ Idle.stale = {}
  /\ Done \in Req /\ Done.pc = "done" /\ DOMAIN Done.rows = {} /\ Done.stale = {}
<1>1. <<>> \in [{} -> Row] /\ DOMAIN <<>> = {}
  OBVIOUS
<1>2. <<>> \in RowMaps
  BY <1>1 DEF RowMaps
<1>3. Idle \in Req
  BY <1>2 DEF Idle, Req, Pcs
<1>4. Done \in Req
  BY <1>2 DEF Done, Idle, Req, Pcs
<1> QED
  BY <1>1, <1>3, <1>4 DEF Idle, Done

LEMMA PresentRow ==
  ASSUME CashInv, NEW c \in Present
  PROVE  c \in Customers /\ customer[c] \in Row /\ customer[c].cash \in Nat
<1>1. c \in Customers /\ customer[c] \in Row
  BY DEF CashInv, TablesInv, Present
<1> QED
  BY <1>1 DEF Row

LEMMA RowIsThere == ASSUME NEW e \in Row PROVE e # NoRow
  BY NullAssumption DEF Row, NoRow

LEMMA ReqFacts ==
  ASSUME CashInv, NEW r \in Requests
  PROVE  /\ req[r] \in Req /\ req[r].rows \in RowMaps /\ Pending(r) \subseteq Customers
         /\ \A c \in Pending(r) : req[r].rows[c] \in Row /\ req[r].rows[c].cash \in Nat
<1>1. req[r] \in Req /\ req[r].rows \in RowMaps
  BY DEF CashInv, TablesInv, Req
<1>2. PICK C \in SUBSET Customers : req[r].rows \in [C -> Row]
  BY <1>1 DEF RowMaps
<1>3. Pending(r) = C
  BY <1>2 DEF Pending
<1>4. \A c \in C : req[r].rows[c] \in Row
  BY <1>2
<1> QED
  BY <1>1, <1>3, <1>4 DEF Row

(* Nothing that concerns request q has changed. *)
LEMMA SoundKeep ==
  ASSUME CashInv, NEW q \in Requests, req'[q] = req[q],
         \A c \in Pending(q) : c \in Customers => customer'[c] = customer[c],
         fresh' \subseteq fresh,
         \A i \in Invoices : invoice'[i].paid => invoice[i].paid,
         \A s \in Settlements : settlement[s].status # "none" => settlement'[s] = settlement[s]
  PROVE  Sound(q)'
<1>1. Pending(q)' = Pending(q) /\ Pending(q) \subseteq Customers
  BY ReqFacts DEF Pending
<1>2. \A c \in Pending(q) : customer'[c] = customer[c]
  BY <1>1
<1>3. Sound(q)
  BY DEF CashInv
<1>4. \A c \in Pending(q) : c \in Present' <=> c \in Present
  BY <1>1, <1>2 DEF Present
<1> QED
  BY <1>1, <1>2, <1>3, <1>4 DEF Sound

(* Nothing that concerns customer c has changed. *)
LEMMA AccountedKeep ==
  ASSUME NEW c \in Customers, Accounted(c), customer'[c] = customer[c], account'[c] = account[c],
         \A q \in Requests :
           /\ Changes(q, c)' <=> Changes(q, c)
           /\ Changes(q, c) => /\ c \in req[q].stale => c \in req'[q].stale
                               /\ Effect(q, customer[c].cash)' = Effect(q, customer[c].cash)
  PROVE  Accounted(c)'
  BY DEF Accounted

(* One request moves on, and it changes no row before or after.              *)
LEMMA ReqPut ==
  ASSUME CashInv, NEW r \in Requests, NEW x \in Req, req' = [req EXCEPT ![r] = x]
  PROVE  /\ req' \in [Requests -> Req] /\ req'[r] = x
         /\ \A q \in Requests \ {r} : req'[q] = req[q]
  BY DEF CashInv, TablesInv

(* A request that changes no cash moves on, the tables stay as they are.     *)
LEMMA QuietStep ==
  ASSUME CashInv, NEW r \in Requests, NEW x \in Req, req' = [req EXCEPT ![r] = x],
         x.pc \notin {"credit", "deduct"}, req[r].pc \notin {"credit", "deduct"},
         UNCHANGED <<customer, fresh, invoice, settlement, account, failures>>,
         Sound(r)'
  PROVE  CashInv'
<1>1. /\ req' \in [Requests -> Req] /\ req'[r] = x
      /\ \A q \in Requests \ {r} : req'[q] = req[q]
  BY ReqPut
<1>2. Present' = Present
  BY DEF Present
<1>3. TablesInv'
  BY <1>1, <1>2 DEF CashInv, TablesInv
<1>4. \A q \in Requests : Sound(q)'
  BY <1>1, SoundKeep
<1>5. \A q \in Requests, c \in Customers : Changes(q, c)' <=> Changes(q, c)
  BY <1>1 DEF Changes, Pending
<1>6. \A q \in Requests, c \in Customers : Changes(q, c) => q # r
  BY DEF Changes
<1>7. ASSUME NEW c \in Present' PROVE Accounted(c)'
  <2>1. c \in Customers /\ Accounted(c)
    BY <1>2, <1>7 DEF CashInv, Present
  <2>2. \A q \in Requests : Changes(q, c) => req'[q] = req[q]
    BY <1>1, <1>6, <2>1
  <2>3. \A q \in Requests : Changes(q, c) => Effect(q, customer[c].cash)' = Effect(q, customer[c].cash)
    BY <2>2 DEF Effect
  <2> QED
    BY <1>5, <2>1, <2>2, <2>3, AccountedKeep
<1> QED
  BY <1>3, <1>4, <1>7 DEF CashInv

(* A request begins with copies of the rows as they are. *)
LEMMA BeginSound ==
  ASSUME CashInv, NEW r \in Requests, NEW x \in Req, Begin(r, x),
         x.pc \notin {"credit", "deduct"},
         UNCHANGED <<customer, fresh, invoice, settlement, account, failures>>,
         x.stale = {},
         x.pc \notin Saving => DOMAIN x.rows = {},
         \A c \in DOMAIN x.rows : c \in Present /\ x.rows[c].cash = customer[c].cash,
         x.pc = "savePaid" => x.subject \in Invoices /\ ~invoice[x.subject].paid,
         x.pc = "saveVerified" =>
           x.subject \in Settlements /\ settlement[x.subject].status = "pending",
         x.pc \notin {"findCollectors", "findCollector"}
  PROVE  CashInv'
<1>1. req' = [req EXCEPT ![r] = x] /\ req[r].pc = "idle"
  BY DEF Begin, Awaits
<1>2. req'[r] = x
  BY <1>1, ReqPut
<1>3. fresh \cap Present = {}
  BY DEF CashInv, TablesInv
<1>4. Sound(r)'
  BY <1>2, <1>3 DEF Sound, Pending, Present
<1> QED
  BY <1>1, <1>4, QuietStep

LEMMA PayInvoiceStep ==
  ASSUME CashInv, NEW r \in Requests, NEW i \in Invoices, NEW n \in Names, PayInvoice(r, i, n)
  PROVE  CashInv'
<1> DEFINE x == [Idle EXCEPT !.pc = "savePaid", !.subject = i, !.name = n]
<1>1. /\ x \in Req /\ x.pc = "savePaid" /\ x.subject = i /\ x.stale = {}
      /\ DOMAIN x.rows = {}
  BY IdleIsReq DEF Req, Pcs
<1>2. Begin(r, x) /\ ~invoice[i].paid
      /\ UNCHANGED <<customer, fresh, invoice, settlement, account, failures>>
  BY DEF PayInvoice, Payable
<1> HIDE DEF x
<1> QED
  BY <1>1, <1>2, BeginSound DEF Saving

LEMMA VerifySettlementStep ==
  ASSUME CashInv, NEW r \in Requests, NEW s \in Settlements, VerifySettlement(r, s)
  PROVE  CashInv'
<1> DEFINE x == [Idle EXCEPT !.pc = "saveVerified", !.subject = s]
<1>1. /\ x \in Req /\ x.pc = "saveVerified" /\ x.subject = s /\ x.stale = {}
      /\ DOMAIN x.rows = {}
  BY IdleIsReq DEF Req, Pcs
<1>2. Begin(r, x) /\ settlement[s].status = "pending"
      /\ UNCHANGED <<customer, fresh, invoice, settlement, account, failures>>
  BY DEF VerifySettlement
<1> HIDE DEF x
<1> QED
  BY <1>1, <1>2, BeginSound DEF Saving

LEMMA EditCustomerStep ==
  ASSUME CashInv, NEW r \in Requests, NEW c \in Customers, NEW n \in Names, EditCustomer(r, c, n)
  PROVE  CashInv'
<1> DEFINE m == [d \in {c} |-> [customer[d] EXCEPT !.name = n]]
           x == [Idle EXCEPT !.pc = "edit", !.rows = m]
<1>1. /\ c \in Present /\ Begin(r, x)
      /\ UNCHANGED <<customer, fresh, invoice, settlement, account, failures>>
  BY DEF EditCustomer
<1>2. customer[c] \in Row
  BY <1>1, PresentRow
<1>3. m \in [{c} -> Row] /\ m[c].cash = customer[c].cash /\ DOMAIN m = {c}
  BY <1>2 DEF Row
<1>4. m \in RowMaps
  BY <1>3 DEF RowMaps
<1> HIDE DEF m
<1>5. x \in Req /\ x.pc = "edit" /\ x.rows = m /\ x.stale = {}
  BY <1>4, IdleIsReq DEF Req, Pcs
<1> HIDE DEF x
<1> QED
  BY <1>1, <1>3, <1>5, BeginSound DEF Saving

LEMMA RewriteCustomersStep ==
  ASSUME CashInv, NEW r \in Requests, NEW C \in SUBSET Customers, RewriteCustomers(r, C)
  PROVE  CashInv'
<1> DEFINE m == [c \in C |-> customer[c]]
           x == [Idle EXCEPT !.pc = "rewrite", !.rows = m]
<1>1. /\ C \subseteq Present /\ Begin(r, x)
      /\ UNCHANGED <<customer, fresh, invoice, settlement, account, failures>>
  BY DEF RewriteCustomers
<1>2. \A c \in C : customer[c] \in Row
  BY <1>1, PresentRow
<1>3. m \in [C -> Row] /\ DOMAIN m = C /\ \A c \in C : m[c].cash = customer[c].cash
  BY <1>2
<1>4. m \in RowMaps
  BY <1>3 DEF RowMaps
<1> HIDE DEF m
<1>5. x \in Req /\ x.pc = "rewrite" /\ x.rows = m /\ x.stale = {}
  BY <1>4, IdleIsReq DEF Req, Pcs
<1> HIDE DEF x
<1> QED
  BY <1>1, <1>3, <1>5, BeginSound DEF Saving

(* saveCustomer throws: the request ends. *)
LEMMA SaveThrows ==
  ASSUME CashInv, NEW r \in Requests, req[r].pc \in {"rewrite"}, req' = [req EXCEPT ![r] = Done],
         UNCHANGED <<customer, fresh, invoice, settlement, account, failures>>
  PROVE  CashInv'
<1>1. req'[r] = Done /\ Done \in Req
  BY IdleIsReq, ReqPut
<1>2. Sound(r)'
  BY <1>1, IdleIsReq DEF Sound, Pending, Saving
<1> QED
  BY <1>1, <1>2, IdleIsReq, QuietStep

(* The invoice is saved as paid; requests that have checked it are overtaken. *)
LEMMA SavePaidStep ==
  ASSUME CashInv, NEW r \in Requests, SavePaid(r) PROVE CashInv'
<1> DEFINE i == req[r].subject
           f == ~invoice[i].paid
           x == [req[r] EXCEPT !.pc = "findCollectors", !.first = f]
           y(q) == [req[q] EXCEPT !.overtaken = TRUE]
           hit(q) == q # r /\ req[q].pc = "savePaid" /\ req[q].subject = i
<1>1. /\ req[r].pc = "savePaid" /\ i \in Invoices /\ (req[r].overtaken \/ f)
      /\ invoice' = [invoice EXCEPT ![i].paid = TRUE]
      /\ UNCHANGED <<customer, fresh, settlement, account, failures>>
  BY DEF SavePaid, Awaits, CashInv, Sound
<1>2. \A q \in Requests : req'[q] = IF q = r THEN x ELSE IF hit(q) THEN y(q) ELSE req[q]
  BY <1>1 DEF SavePaid, Subject, Awaits
<1>3. /\ x \in Req /\ x.pc = "findCollectors" /\ x.subject = i /\ x.first = f
      /\ x.rows = req[r].rows /\ x.stale = req[r].stale /\ x.overtaken = req[r].overtaken
  BY ReqFacts DEF Req, Pcs
<1>4. ASSUME NEW q \in Requests
      PROVE  /\ y(q) \in Req /\ y(q).pc = req[q].pc /\ y(q).subject = req[q].subject
             /\ y(q).rows = req[q].rows /\ y(q).stale = req[q].stale /\ y(q).overtaken
  BY ReqFacts DEF Req
<1> HIDE DEF x, y
<1>5. req' \in [Requests -> Req]
  <2>1. req' = [q \in Requests |-> req'[q]]
    BY DEF SavePaid, Subject
  <2>2. \A q \in Requests : req'[q] \in Req
    BY <1>2, <1>3, <1>4, ReqFacts
  <2> QED
    BY <2>1, <2>2
<1>6. /\ invoice' \in [Invoices -> [amount : Amounts, paid : BOOLEAN]]
      /\ invoice'[i].paid
      /\ \A j \in Invoices : /\ invoice'[j].amount = invoice[j].amount
                             /\ j # i => invoice'[j] = invoice[j]
  BY <1>1 DEF CashInv, TablesInv
<1>7. Present' = Present
  BY <1>1 DEF Present
<1>8. TablesInv'
  BY <1>1, <1>5, <1>6, <1>7 DEF CashInv, TablesInv
<1>9. ASSUME NEW q \in Requests PROVE Sound(q)'
  <2>1. CASE q = r
    <3>1. Sound(r) /\ req'[r] = x
      BY <1>2, <2>1 DEF CashInv
    <3> QED
      BY <1>1, <1>3, <1>7, <2>1, <3>1 DEF Sound, Pending, Saving
  <2>2. CASE hit(q)
    BY <1>1, <1>2, <1>4, <1>7, <2>2 DEF Sound, Pending, CashInv, Saving
  <2>3. CASE q # r /\ ~hit(q)
    <3>1. req'[q] = req[q]
      BY <1>2, <2>3
    <3>2. req[q].pc = "savePaid" => req[q].overtaken \/ ~invoice'[req[q].subject].paid
      BY <1>6, <2>3 DEF CashInv, Sound
    <3> QED
      BY <1>1, <1>7, <3>1, <3>2 DEF Sound, Pending, CashInv
  <2> QED
    BY <2>1, <2>2, <2>3
<1>10. ASSUME NEW q \in Requests, NEW c \in Customers
       PROVE  /\ Changes(q, c)' <=> Changes(q, c)
              /\ Changes(q, c) => req'[q] = req[q]
  <2>1. \/ req'[q] = req[q]
        \/ req'[q].pc \notin {"credit", "deduct"} /\ req[q].pc \notin {"credit", "deduct"}
    BY <1>1, <1>2, <1>3, <1>4
  <2> QED
    BY <2>1 DEF Changes, Pending
<1>11. ASSUME NEW c \in Present' PROVE Accounted(c)'
  <2>1. c \in Customers /\ Accounted(c)
    BY <1>7, <1>11 DEF CashInv, Present
  <2>2. ASSUME NEW q \in Requests, Changes(q, c)
        PROVE  Effect(q, customer[c].cash)' = Effect(q, customer[c].cash)
    <3>1. req'[q] = req[q]
      BY <1>10, <2>1, <2>2
    <3>2. req[q].pc = "credit" => invoice'[req[q].subject].amount = invoice[req[q].subject].amount
      BY <1>6 DEF CashInv, Sound
    <3> QED
      BY <1>1, <3>1, <3>2 DEF Effect
  <2> QED
    BY <1>1, <1>10, <2>1, <2>2, AccountedKeep
<1> QED
  BY <1>8, <1>9, <1>11 DEF CashInv

(* The same with a settlement. *)
LEMMA SaveVerifiedStep ==
  ASSUME CashInv, NEW r \in Requests, SaveVerified(r) PROVE CashInv'
<1> DEFINE s == req[r].subject
           f == settlement[s].status = "pending"
           x == [req[r] EXCEPT !.pc = "findCollector", !.first = f]
           y(q) == [req[q] EXCEPT !.overtaken = TRUE]
           hit(q) == q # r /\ req[q].pc = "saveVerified" /\ req[q].subject = s
<1>1. /\ req[r].pc = "saveVerified" /\ s \in Settlements /\ (req[r].overtaken \/ f)
      /\ settlement[s].status # "none"
      /\ settlement' = [settlement EXCEPT ![s].status = "verified"]
      /\ UNCHANGED <<customer, fresh, invoice, account, failures>>
  BY DEF SaveVerified, Awaits, CashInv, Sound
<1>2. \A q \in Requests : req'[q] = IF q = r THEN x ELSE IF hit(q) THEN y(q) ELSE req[q]
  BY <1>1 DEF SaveVerified, Subject, Awaits
<1>3. /\ x \in Req /\ x.pc = "findCollector" /\ x.subject = s /\ x.first = f
      /\ x.rows = req[r].rows /\ x.stale = req[r].stale /\ x.overtaken = req[r].overtaken
  BY ReqFacts DEF Req, Pcs
<1>4. ASSUME NEW q \in Requests
      PROVE  /\ y(q) \in Req /\ y(q).pc = req[q].pc /\ y(q).subject = req[q].subject
             /\ y(q).rows = req[q].rows /\ y(q).stale = req[q].stale /\ y(q).overtaken
  BY ReqFacts DEF Req
<1> HIDE DEF x, y
<1>5. req' \in [Requests -> Req]
  <2>1. req' = [q \in Requests |-> req'[q]]
    BY DEF SaveVerified, Subject
  <2>2. \A q \in Requests : req'[q] \in Req
    BY <1>2, <1>3, <1>4, ReqFacts
  <2> QED
    BY <2>1, <2>2
<1>6. /\ settlement' \in [Settlements -> Settlement]
      /\ settlement'[s].status = "verified"
      /\ \A t \in Settlements : /\ settlement'[t].amount = settlement[t].amount
                                /\ t # s => settlement'[t] = settlement[t]
  <2> DEFINE z == [settlement[s] EXCEPT !.status = "verified"]
  <2>1. settlement[s] \in Settlement
    BY <1>1 DEF CashInv, TablesInv
  <2>2. z \in Settlement /\ z.status = "verified" /\ z.amount = settlement[s].amount
    BY <2>1 DEF Settlement
  <2>3. settlement' = [settlement EXCEPT ![s] = z]
    BY <1>1 DEF CashInv, TablesInv
  <2> HIDE DEF z
  <2> QED
    BY <1>1, <2>2, <2>3 DEF CashInv, TablesInv
<1>7. Present' = Present
  BY <1>1 DEF Present
<1>8. TablesInv'
  BY <1>1, <1>5, <1>6, <1>7 DEF CashInv, TablesInv
<1>9. ASSUME NEW q \in Requests PROVE Sound(q)'
  <2>1. CASE q = r
    <3>1. Sound(r) /\ req'[r] = x
      BY <1>2, <2>1 DEF CashInv
    <3> QED
      BY <1>1, <1>3, <1>6, <1>7, <2>1, <3>1 DEF Sound, Pending, Saving
  <2>2. CASE hit(q)
    BY <1>1, <1>2, <1>4, <1>6, <1>7, <2>2 DEF Sound, Pending, CashInv, Saving
  <2>3. CASE q # r /\ ~hit(q)
    <3>1. req'[q] = req[q]
      BY <1>2, <2>3
    <3>2. /\ req[q].pc = "saveVerified" =>
               req[q].overtaken \/ settlement'[req[q].subject].status = "pending"
          /\ req[q].pc \in {"saveVerified", "findCollector", "deduct"} =>
               settlement'[req[q].subject].status # "none"
      BY <1>6, <2>3 DEF CashInv, Sound
    <3> QED
      BY <1>1, <1>7, <3>1, <3>2 DEF Sound, Pending, CashInv
  <2> QED
    BY <2>1, <2>2, <2>3
<1>10. ASSUME NEW q \in Requests, NEW c \in Customers
       PROVE  /\ Changes(q, c)' <=> Changes(q, c)
              /\ Changes(q, c) => req'[q] = req[q]
  <2>1. \/ req'[q] = req[q]
        \/ req'[q].pc \notin {"credit", "deduct"} /\ req[q].pc \notin {"credit", "deduct"}
    BY <1>1, <1>2, <1>3, <1>4
  <2> QED
    BY <2>1 DEF Changes, Pending
<1>11. ASSUME NEW c \in Present' PROVE Accounted(c)'
  <2>1. c \in Customers /\ Accounted(c)
    BY <1>7, <1>11 DEF CashInv, Present
  <2>2. ASSUME NEW q \in Requests, Changes(q, c)
        PROVE  Effect(q, customer[c].cash)' = Effect(q, customer[c].cash)
    <3>1. req'[q] = req[q]
      BY <1>10, <2>1, <2>2
    <3>2. req[q].pc = "deduct" =>
            settlement'[req[q].subject].amount = settlement[req[q].subject].amount
      BY <1>6 DEF CashInv, Sound
    <3>3. req[q].pc \in {"credit", "deduct"}
      BY <2>2 DEF Changes
    <3> QED
      BY <1>1, <3>1, <3>2, <3>3 DEF Effect
  <2> QED
    BY <1>1, <1>10, <2>1, <2>2, AccountedKeep
<1> QED
  BY <1>8, <1>9, <1>11 DEF CashInv

-----------------------------------------------------------------------------
(* The customers of a payment or settlement are found *)

LEMMA EffectKeep ==
  ASSUME NEW q, NEW c, req'[q] = req[q], customer'[c] = customer[c], UNCHANGED <<invoice, settlement>>
  PROVE  Effect(q, customer[c].cash)' = Effect(q, customer[c].cash)
  BY DEF Effect

(* From here on the account counts it, and the request is about to save it.  *)
LEMMA FoundStep ==
  ASSUME CashInv, NEW r \in Requests, NEW found \in SUBSET Present, NEW pc \in {"credit", "deduct"},
         \/ req[r].pc = "findCollectors" /\ pc = "credit"
         \/ req[r].pc = "findCollector" /\ pc = "deduct",
         req' = [req EXCEPT ![r] = IF found = {} THEN Done
                   ELSE [req[r] EXCEPT !.rows = [c \in found |-> customer[c]], !.pc = pc]],
         account' \in [Customers -> Nat \cup {Unknown}],
         \A c \in Customers \ found : account'[c] = account[c],
         \A c \in found : \/ account'[c] = Unknown
                          \/ \E n \in Nat : account[c] = n /\ account'[c] = Effect(r, n)',
         UNCHANGED <<customer, fresh, invoice, settlement, failures>>
  PROVE  CashInv'
<1> DEFINE m == [c \in found |-> customer[c]]
           x == IF found = {} THEN Done ELSE [req[r] EXCEPT !.rows = m, !.pc = pc]
<1>1. /\ found \subseteq Customers /\ Present' = Present /\ fresh \cap found = {}
      /\ \A c \in found : customer[c] \in Row
  BY PresentRow DEF CashInv, TablesInv, Present
<1>2. m \in [found -> Row] /\ DOMAIN m = found /\ \A c \in found : m[c].cash = customer[c].cash
  BY <1>1
<1>3. m \in RowMaps
  BY <1>1, <1>2 DEF RowMaps
<1>4. Sound(r) /\ req[r].stale = {} /\ Pending(r) = {}
  BY DEF CashInv, Sound, Saving
<1> HIDE DEF m
<1>5. /\ x \in Req /\ DOMAIN x.rows = found /\ x.stale = {}
      /\ \A c \in found : x.rows[c].cash = customer[c].cash
      /\ found = {} => x.pc = "done"
      /\ found # {} => x.pc = pc /\ x.subject = req[r].subject
  <2>1. CASE found = {}
    BY <2>1, IdleIsReq
  <2>2. CASE found # {}
    BY <1>2, <1>3, <1>4, <2>2, ReqFacts DEF Req, Pcs
  <2> QED
    BY <2>1, <2>2
<1>6. req' = [req EXCEPT ![r] = x]
  BY DEF m
<1> HIDE DEF x
<1>7. /\ req' \in [Requests -> Req] /\ req'[r] = x
      /\ \A q \in Requests \ {r} : req'[q] = req[q]
  BY <1>5, <1>6, ReqPut
<1>8. TablesInv'
  <2>1. \A c \in Customers : c \in found => c \in Present
    OBVIOUS
  <2> QED
    BY <1>1, <1>7, <2>1 DEF CashInv, TablesInv
<1>9. ASSUME NEW q \in Requests PROVE Sound(q)'
  <2>1. CASE q = r
    <3>1. x.pc \in {"done", "credit", "deduct"}
      BY <1>5
    <3>2. x.pc = "credit" => x.subject \in Invoices
      BY <1>4, <1>5 DEF Sound
    <3>3. x.pc = "deduct" => x.subject \in Settlements /\ settlement[x.subject].status # "none"
      BY <1>4, <1>5 DEF Sound
    <3>4. x.pc \notin Saving => found = {}
      BY <1>5 DEF Saving
    <3> QED
      BY <1>1, <1>5, <1>7, <2>1, <3>1, <3>2, <3>3, <3>4 DEF Sound, Pending
  <2>2. CASE q # r
    BY <1>7, <2>2, SoundKeep
  <2> QED
    BY <2>1, <2>2
<1>10. ~\E c : Changes(r, c)
  BY DEF Changes
<1>11. ASSUME NEW q \in Requests \ {r}, NEW c \in Customers
       PROVE  Changes(q, c)' <=> Changes(q, c)
  BY <1>7 DEF Changes, Pending
<1>12. ASSUME NEW c \in Customers PROVE Changes(r, c)' <=> c \in found
  BY <1>5, <1>7 DEF Changes, Pending
<1>13. ASSUME NEW c \in Present' PROVE Accounted(c)'
  <2>1. c \in Customers /\ Accounted(c) /\ customer'[c] = customer[c]
    BY <1>1, <1>13 DEF CashInv, Present
  <2>2. CASE c \notin found
    <3>1. \A q \in Requests : Changes(q, c)' <=> Changes(q, c)
      BY <1>10, <1>11, <1>12, <2>1, <2>2
    <3>2. \A q \in Requests : Changes(q, c) => req'[q] = req[q]
      BY <1>7, <1>10
    <3>3. ASSUME NEW q \in Requests, Changes(q, c)
          PROVE  Effect(q, customer[c].cash)' = Effect(q, customer[c].cash)
      <4>1. req'[q] = req[q]
        BY <3>2, <3>3
      <4> QED
        BY <2>1, <4>1, EffectKeep
    <3> QED
      BY <2>1, <2>2, <3>1, <3>2, <3>3, AccountedKeep
  <2>3. CASE c \in found
    <3>1. Changes(r, c)'
      BY <1>12, <2>1, <2>3
    <3>2. CASE account[c] = Unknown
      BY <2>3, <3>2 DEF Accounted, Unknown
    <3>3. CASE \E q \in Requests : Changes(q, c)
      <4>1. PICK q \in Requests \ {r} : Changes(q, c)
        BY <1>10, <3>3
      <4>2. Changes(q, c)'
        BY <1>11, <2>1, <4>1
      <4> QED
        BY <3>1, <4>1, <4>2 DEF Accounted
    <3>4. CASE customer[c].cash = account[c]
      <4>1. account'[c] = Unknown \/ account'[c] = Effect(r, customer[c].cash)'
        BY <2>1, <2>3, <3>4
      <4> QED
        BY <3>1, <4>1 DEF Accounted
    <3> QED
      BY <2>1, <3>2, <3>3, <3>4 DEF Accounted
  <2> QED
    BY <2>2, <2>3
<1> QED
  BY <1>8, <1>9, <1>13 DEF CashInv

(* What the account says after the customers were found. *)
LEMMA FoundAccount ==
  ASSUME CashInv, NEW r \in Requests, NEW found \in SUBSET Present, NEW change,
         req[r].pc \in {"findCollectors", "findCollector"},
         change \in [Nat -> Nat],
         IF req[r].overtaken THEN Spoil(found)
         ELSE account' = [c \in Customers |->
                            IF c \in found /\ req[r].first /\ account[c] # Unknown
                            THEN change[account[c]] ELSE account[c]]
  PROVE  /\ account' \in [Customers -> Nat \cup {Unknown}]
         /\ \A c \in Customers \ found : account'[c] = account[c]
         /\ \A c \in found : \/ account'[c] = Unknown
                             \/ account[c] \in Nat /\ account'[c] = change[account[c]]
<1>1. account \in [Customers -> Nat \cup {Unknown}] /\ found \subseteq Customers
  BY DEF CashInv, TablesInv, Present
<1>2. req[r].overtaken \/ req[r].first
  BY DEF CashInv, Sound
<1>3. CASE req[r].overtaken
  BY <1>1, <1>3 DEF Spoil
<1>4. CASE ~req[r].overtaken
  <2>1. account' = [c \in Customers |->
                      IF c \in found /\ account[c] # Unknown
                      THEN change[account[c]] ELSE account[c]]
    BY <1>2, <1>4
  <2>2. \A c \in Customers : account[c] \in Nat \/ account[c] = Unknown
    BY <1>1
  <2>3. \A c \in Customers :
          account'[c] = IF c \in found /\ account[c] # Unknown
                        THEN change[account[c]] ELSE account[c]
    BY <2>1
  <2>4. \A c \in Customers : account'[c] \in Nat \cup {Unknown}
    BY <2>2, <2>3
  <2>5. account' \in [Customers -> Nat \cup {Unknown}]
    BY <2>1, <2>4
  <2>6. \A c \in Customers \ found : account'[c] = account[c]
    BY <2>3
  <2>7. ASSUME NEW c \in found
        PROVE  account'[c] = Unknown \/ (account[c] \in Nat /\ account'[c] = change[account[c]])
    <3>1. c \in Customers
      BY <1>1
    <3>2. CASE account[c] = Unknown
      BY <2>3, <3>1, <3>2
    <3>3. CASE account[c] # Unknown
      BY <2>2, <2>3, <3>1, <3>3
    <3> QED
      BY <3>2, <3>3
  <2> QED
    BY <2>5, <2>6, <2>7
<1> QED
  BY <1>3, <1>4

LEMMA FindCollectorsStep ==
  ASSUME CashInv, NEW r \in Requests, FindCollectors(r) PROVE CashInv'
<1> DEFINE found == {c \in Present : customer[c].name = req[r].name}
           a == invoice[req[r].subject].amount
           change == [n \in Nat |-> n + a]
<1>1. /\ req[r].pc = "findCollectors"
      /\ UNCHANGED <<customer, fresh, invoice, settlement, failures>>
  BY DEF FindCollectors, Found, Awaits
<1>2. a \in Nat
  BY <1>1, AmountsAssumption DEF CashInv, TablesInv, Sound
<1>3. account \in [Customers -> Nat \cup {Unknown}] /\ found \subseteq Customers
  BY DEF CashInv, TablesInv, Present
<1>4. change \in [Nat -> Nat] /\ \A n \in Nat : change[n] = n + a
  BY <1>2
<1>5. IF req[r].overtaken THEN Spoil(found)
      ELSE account' = [c \in Customers |->
                         IF c \in found /\ req[r].first /\ account[c] # Unknown
                         THEN account[c] + a ELSE account[c]]
  BY DEF FindCollectors, Found
<1>6. req' = [req EXCEPT ![r] = IF found = {} THEN Done
                ELSE [req[r] EXCEPT !.rows = [c \in found |-> customer[c]], !.pc = "credit"]]
  BY DEF FindCollectors, Found, CashInv, TablesInv
<1> HIDE DEF found, a, change
<1>7. IF req[r].overtaken THEN Spoil(found)
      ELSE account' = [c \in Customers |->
                         IF c \in found /\ req[r].first /\ account[c] # Unknown
                         THEN change[account[c]] ELSE account[c]]
  BY <1>3, <1>4, <1>5
<1>8. found \in SUBSET Present
  BY DEF found
<1>9. /\ account' \in [Customers -> Nat \cup {Unknown}]
      /\ \A c \in Customers \ found : account'[c] = account[c]
      /\ \A c \in found : \/ account'[c] = Unknown
                          \/ account[c] \in Nat /\ account'[c] = change[account[c]]
  <2>1. change \in [Nat -> Nat] /\ req[r].pc \in {"findCollectors", "findCollector"}
    BY <1>1, <1>4
  <2> QED
    BY <1>7, <1>8, <2>1, FoundAccount
<1>10. ASSUME NEW c \in found, NEW n \in Nat PROVE Effect(r, n)' = n + a
  <2>1. req'[r].pc = "credit" /\ req'[r].subject = req[r].subject
    BY <1>6, <1>10, ReqFacts DEF Req, CashInv, TablesInv
  <2> QED
    BY <1>1, <2>1 DEF Effect, a
<1>11. \A c \in found : \/ account'[c] = Unknown
                        \/ \E n \in Nat : account[c] = n /\ account'[c] = Effect(r, n)'
  BY <1>4, <1>9, <1>10
<1> QED
  BY <1>1, <1>6, <1>8, <1>9, <1>11, FoundStep

LEMMA FindCollectorStep ==
  ASSUME CashInv, NEW r \in Requests, FindCollector(r) PROVE CashInv'
<1> DEFINE s == req[r].subject
           a == settlement[s].amount
           change == [n \in Nat |-> NotBelowZero(n - a)]
<1>1. /\ req[r].pc = "findCollector"
      /\ UNCHANGED <<customer, fresh, invoice, settlement, failures>>
  BY DEF FindCollector, Found, Awaits
<1>2. a \in Nat
  BY <1>1 DEF CashInv, TablesInv, Sound, Settlement
<1>3. account \in [Customers -> Nat \cup {Unknown}]
  BY DEF CashInv, TablesInv
<1>4. change \in [Nat -> Nat] /\ \A n \in Nat : change[n] = NotBelowZero(n - a)
  BY <1>2 DEF NotBelowZero
<1>5. PICK found \in SUBSET Present :
        /\ IF req[r].overtaken THEN Spoil(found)
           ELSE account' = [c \in Customers |->
                              IF c \in found /\ req[r].first /\ account[c] # Unknown
                              THEN NotBelowZero(account[c] - a) ELSE account[c]]
        /\ req' = [req EXCEPT ![r] = IF found = {} THEN Done
                     ELSE [req[r] EXCEPT !.rows = [c \in found |-> customer[c]], !.pc = "deduct"]]
  <2>1. CASE CollectorOf(s) = {}
    BY <2>1 DEF FindCollector, Found, CashInv, TablesInv
  <2>2. CASE CollectorOf(s) # {}
    <3>1. CollectorOf(s) \subseteq Present
      BY DEF CollectorOf
    <3>2. PICK c \in CollectorOf(s) :
            /\ IF req[r].overtaken THEN Spoil({c})
               ELSE account' = [d \in Customers |->
                                  IF d \in {c} /\ req[r].first /\ account[d] # Unknown
                                  THEN NotBelowZero(account[d] - a) ELSE account[d]]
            /\ req' = [req EXCEPT ![r] = IF {c} = {} THEN Done
                         ELSE [req[r] EXCEPT !.rows = [d \in {c} |-> customer[d]], !.pc = "deduct"]]
      BY <2>2 DEF FindCollector, Found, CashInv, TablesInv
    <3> QED
      BY <3>1, <3>2
  <2> QED
    BY <2>1, <2>2
<1> HIDE DEF a, change
<1>7. IF req[r].overtaken THEN Spoil(found)
      ELSE account' = [c \in Customers |->
                         IF c \in found /\ req[r].first /\ account[c] # Unknown
                         THEN change[account[c]] ELSE account[c]]
  BY <1>3, <1>4, <1>5
<1>9. /\ account' \in [Customers -> Nat \cup {Unknown}]
      /\ \A c \in Customers \ found : account'[c] = account[c]
      /\ \A c \in found : \/ account'[c] = Unknown
                          \/ account[c] \in Nat /\ account'[c] = change[account[c]]
  BY <1>1, <1>4, <1>7, FoundAccount
<1>10. ASSUME NEW c \in found, NEW n \in Nat PROVE Effect(r, n)' = NotBelowZero(n - a)
  <2>1. req'[r].pc = "deduct" /\ req'[r].subject = req[r].subject
    BY <1>5, <1>10, ReqFacts DEF Req, CashInv, TablesInv
  <2> QED
    BY <1>1, <2>1 DEF Effect, a
<1>11. \A c \in found : \/ account'[c] = Unknown
                        \/ \E n \in Nat : account[c] = n /\ account'[c] = Effect(r, n)'
  BY <1>4, <1>9, <1>10
<1> QED
  BY <1>1, <1>5, <1>9, <1>11, FoundStep

-----------------------------------------------------------------------------
(* A row is saved *)

LEMMA OutdatedReq ==
  ASSUME CashInv, NEW q \in Requests, NEW C \in SUBSET Customers
  PROVE  /\ Outdated(req[q], C) \in Req
         /\ Outdated(req[q], C).pc = req[q].pc /\ Outdated(req[q], C).subject = req[q].subject
         /\ Outdated(req[q], C).rows = req[q].rows
         /\ Outdated(req[q], C).overtaken = req[q].overtaken
         /\ Outdated(req[q], C).first = req[q].first
         /\ Outdated(req[q], C).stale = req[q].stale \cup (C \cap Pending(q))
<1>1. req[q] \in Req /\ Pending(q) \subseteq Customers
  BY ReqFacts
<1> QED
  BY <1>1 DEF Outdated, Req, Pending

(* Only the row of c has changed, and request q knows that it is overtaken.  *)
LEMMA SoundOutdated ==
  ASSUME CashInv, NEW q \in Requests, NEW c \in Customers, req'[q] = Outdated(req[q], {c}),
         \A d \in Customers \ {c} : customer'[d] = customer[d], fresh' \subseteq fresh,
         UNCHANGED <<invoice, settlement>>
  PROVE  Sound(q)'
<1> DEFINE y == Outdated(req[q], {c})
<1>1. /\ y.pc = req[q].pc /\ y.subject = req[q].subject /\ y.rows = req[q].rows
      /\ y.overtaken = req[q].overtaken /\ y.first = req[q].first
      /\ y.stale = req[q].stale \cup ({c} \cap Pending(q))
  BY OutdatedReq
<1>2. Sound(q) /\ Pending(q) \subseteq Customers
  BY ReqFacts DEF CashInv
<1> HIDE DEF y
<1>3. req'[q] = y /\ Pending(q)' = Pending(q)
  BY <1>1 DEF y, Pending
<1>4. \A d \in Pending(q) \ y.stale : d \in Present' /\ req[q].rows[d].cash = customer'[d].cash
  BY <1>1, <1>2 DEF Sound, Present
<1> QED
  BY <1>1, <1>2, <1>3, <1>4 DEF Sound

(* The row of c is saved: with the change owed, unless the copy was overtaken. *)
LEMMA SaveRowStep ==
  ASSUME CashInv, NEW r \in Requests, NEW c \in Pending(r), NEW e \in Row, SaveRow(r, c, e),
         c \notin req[r].stale =>
           e.cash = IF req[r].pc \in {"credit", "deduct"} THEN Effect(r, customer[c].cash)
                    ELSE customer[c].cash
  PROVE  CashInv'
<1> DEFINE left == Pending(r) \ {c}
           m == [d \in left |-> req[r].rows[d]]
           x == IF left = {} THEN Done
                ELSE [req[r] EXCEPT !.rows = m, !.stale = req[r].stale \ {c}]
<1>1. /\ c \in Customers /\ Pending(r) \subseteq Customers /\ req[r] \in Req
      /\ \A d \in Pending(r) : req[r].rows[d] \in Row
  BY ReqFacts
<1>2. Sound(r) /\ c \notin fresh
  BY DEF CashInv, Sound
<1>3. /\ customer' = [customer EXCEPT ![c] = e]
      /\ UNCHANGED <<fresh, invoice, settlement, failures>>
      /\ IF c \in req[r].stale THEN Spoil({c}) ELSE UNCHANGED account
  BY DEF SaveRow
<1>4. m \in [left -> Row] /\ DOMAIN m = left /\ \A d \in left : m[d] = req[r].rows[d]
  BY <1>1
<1>5. m \in RowMaps
  BY <1>1, <1>4 DEF RowMaps
<1>6. req' = [q \in Requests |-> IF q = r THEN x ELSE Outdated(req[q], {c})]
  BY DEF SaveRow
<1> HIDE DEF m
<1>7. /\ x \in Req /\ DOMAIN x.rows = left /\ \A d \in left : x.rows[d] = req[r].rows[d]
      /\ x.stale = req[r].stale \ {c}
      /\ left = {} => x = Done
      /\ left # {} => /\ x.pc = req[r].pc /\ x.subject = req[r].subject
                      /\ x.overtaken = req[r].overtaken /\ x.first = req[r].first
  <2>1. CASE left = {}
    BY <1>2, <2>1, IdleIsReq DEF Sound
  <2>2. CASE left # {}
    BY <1>1, <1>4, <1>5, <2>2 DEF Req
  <2> QED
    BY <2>1, <2>2
<1> HIDE DEF x
<1>8. /\ req' \in [Requests -> Req] /\ req'[r] = x
      /\ \A q \in Requests \ {r} : req'[q] = Outdated(req[q], {c})
  BY <1>1, <1>6, <1>7, OutdatedReq
<1>9. /\ customer' \in [Customers -> Row \cup {NoRow}] /\ customer'[c] = e
      /\ \A d \in Customers \ {c} : customer'[d] = customer[d]
  BY <1>1, <1>3 DEF CashInv, TablesInv
<1>10. Present' = Present \cup {c}
  BY <1>1, <1>9, RowIsThere DEF Present
<1>11. /\ account' \in [Customers -> Nat \cup {Unknown}]
       /\ \A d \in Customers \ {c} : account'[d] = account[d]
       /\ c \in req[r].stale => account'[c] = Unknown
       /\ c \notin req[r].stale => account'[c] = account[c]
  BY <1>1, <1>3 DEF CashInv, TablesInv, Spoil
<1>12. TablesInv'
  BY <1>2, <1>3, <1>8, <1>9, <1>10, <1>11 DEF CashInv, TablesInv
<1>13. ASSUME NEW q \in Requests PROVE Sound(q)'
  <2>1. CASE q = r
    <3>1. \A d \in left \ x.stale : d \in Present' /\ x.rows[d].cash = customer'[d].cash
      BY <1>1, <1>2, <1>7, <1>9, <1>10 DEF Sound
    <3>2. x.stale \subseteq left /\ left \cap fresh = {}
      BY <1>2, <1>7 DEF Sound
    <3>3. CASE left = {}
      BY <1>3, <1>7, <1>8, <2>1, <3>2, <3>3, IdleIsReq DEF Sound, Pending, Saving
    <3>4. CASE left # {}
      BY <1>2, <1>3, <1>7, <1>8, <2>1, <3>1, <3>2, <3>4 DEF Sound, Pending
    <3> QED
      BY <3>3, <3>4
  <2>2. CASE q # r
    BY <1>1, <1>3, <1>8, <1>9, <2>2, SoundOutdated
  <2> QED
    BY <2>1, <2>2
<1>14. ASSUME NEW q \in Requests \ {r}
       PROVE  /\ req'[q].pc = req[q].pc /\ req'[q].subject = req[q].subject
              /\ Pending(q)' = Pending(q)
              /\ req'[q].stale = req[q].stale \cup ({c} \cap Pending(q))
              /\ \A d : Changes(q, d)' <=> Changes(q, d)
  <2> DEFINE y == Outdated(req[q], {c})
  <2>1. {c} \in SUBSET Customers
    BY <1>1
  <2>2. /\ y.pc = req[q].pc /\ y.subject = req[q].subject /\ y.rows = req[q].rows
        /\ y.stale = req[q].stale \cup ({c} \cap Pending(q))
    BY <2>1, OutdatedReq
  <2> HIDE DEF y
  <2>3. req'[q] = y
    BY <1>8 DEF y
  <2> QED
    BY <2>2, <2>3 DEF Changes, Pending
<1>15. ASSUME NEW d \in Customers \ {c} PROVE Changes(r, d)' <=> Changes(r, d)
  <2>1. d \in left <=> d \in Pending(r)
    OBVIOUS
  <2>2. CASE left = {}
    BY <1>7, <1>8, <2>1, <2>2, IdleIsReq DEF Changes, Pending
  <2>3. CASE left # {}
    BY <1>7, <1>8, <2>1, <2>3 DEF Changes, Pending
  <2> QED
    BY <2>2, <2>3
<1>16. ~Changes(r, c)'
  BY <1>7, <1>8 DEF Changes, Pending
<1>17. ASSUME NEW d \in Present', d # c PROVE Accounted(d)'
  <2>1. d \in Customers /\ Accounted(d) /\ customer'[d] = customer[d] /\ account'[d] = account[d]
    BY <1>9, <1>10, <1>11, <1>17 DEF CashInv, Present
  <2>2. ASSUME NEW q \in Requests, Changes(q, d)
        PROVE  /\ req'[q].pc = req[q].pc /\ req'[q].subject = req[q].subject
               /\ d \in req[q].stale => d \in req'[q].stale
    <3>1. CASE q = r
      <4>1. left # {}
        BY <1>17, <2>2, <3>1 DEF Changes
      <4> QED
        BY <1>7, <1>8, <1>17, <3>1, <4>1
    <3>2. CASE q # r
      BY <1>14, <3>2
    <3> QED
      BY <3>1, <3>2
  <2>3. \A q \in Requests : Changes(q, d)' <=> Changes(q, d)
    BY <1>14, <1>15, <1>17, <2>1
  <2>4. \A q \in Requests : Changes(q, d) => Effect(q, customer[d].cash)' = Effect(q, customer[d].cash)
    BY <1>3, <2>1, <2>2 DEF Effect
  <2> QED
    BY <2>1, <2>2, <2>3, <2>4, AccountedKeep
<1>18. Accounted(c)'
  <2>1. CASE c \in req[r].stale
    BY <1>11, <2>1 DEF Accounted
  <2>2. CASE c \notin req[r].stale /\ \E q \in Requests \ {r} : Changes(q, c)
    <3>1. PICK q \in Requests \ {r} : Changes(q, c)
      BY <2>2
    <3>2. Changes(q, c)' /\ c \in req'[q].stale
      BY <1>14, <3>1 DEF Changes
    <3> QED
      BY <3>2 DEF Accounted
  <2>3. CASE c \notin req[r].stale /\ ~\E q \in Requests \ {r} : Changes(q, c)
    <3>1. \A q \in Requests : ~Changes(q, c)'
      BY <1>14, <1>16, <2>3
    <3>2. c \in Present
      BY <1>2, <2>3 DEF Sound
    <3>3. Accounted(c)
      BY <3>2 DEF CashInv
    <3>4. account[c] = Unknown \/ e.cash = account[c]
      <4>1. CASE req[r].pc \in {"credit", "deduct"}
        <5>1. Changes(r, c) /\ \A q \in Requests : Changes(q, c) => q = r
          BY <2>3, <4>1 DEF Changes
        <5>2. account[c] = Unknown \/ account[c] = Effect(r, customer[c].cash)
          BY <2>3, <3>3, <5>1 DEF Accounted
        <5> QED
          BY <2>3, <4>1, <5>2
      <4>2. CASE req[r].pc \notin {"credit", "deduct"}
        <5>1. \A q \in Requests : ~Changes(q, c)
          BY <2>3, <4>2 DEF Changes
        <5>2. account[c] = Unknown \/ customer[c].cash = account[c]
          BY <3>3, <5>1 DEF Accounted
        <5> QED
          BY <2>3, <4>2, <5>2
      <4> QED
        BY <4>1, <4>2
    <3> QED
      BY <1>9, <1>11, <2>3, <3>1, <3>4 DEF Accounted
  <2> QED
    BY <2>1, <2>2, <2>3
<1> QED
  BY <1>12, <1>13, <1>17, <1>18 DEF CashInv

LEMMA CreditStep ==
  ASSUME CashInv, NEW r \in Requests, NEW c \in Customers, Credit(r, c) PROVE CashInv'
<1> DEFINE a == invoice[req[r].subject].amount
           e == [req[r].rows[c] EXCEPT !.cash = req[r].rows[c].cash + a]
<1>1. req[r].pc = "credit" /\ c \in Pending(r) /\ SaveRow(r, c, e)
  BY DEF Credit, Awaits
<1>2. req[r].rows[c] \in Row /\ req[r].rows[c].cash \in Nat
  BY <1>1, ReqFacts
<1>3. a \in Nat
  BY <1>1, AmountsAssumption DEF CashInv, TablesInv, Sound
<1>4. e \in Row /\ e.cash = req[r].rows[c].cash + a
  BY <1>2, <1>3 DEF Row
<1>5. c \notin req[r].stale => req[r].rows[c].cash = customer[c].cash
  BY <1>1 DEF CashInv, Sound
<1>6. Effect(r, customer[c].cash) = customer[c].cash + a
  BY <1>1 DEF Effect
<1> HIDE DEF e, a
<1>7. c \notin req[r].stale => e.cash = Effect(r, customer[c].cash)
  BY <1>4, <1>5, <1>6
<1> QED
  BY <1>1, <1>4, <1>7, SaveRowStep

LEMMA DeductStep ==
  ASSUME CashInv, NEW r \in Requests, NEW c \in Customers, Deduct(r, c) PROVE CashInv'
<1> DEFINE a == settlement[req[r].subject].amount
           e == [req[r].rows[c] EXCEPT !.cash = NotBelowZero(req[r].rows[c].cash - a)]
<1>1. req[r].pc = "deduct" /\ c \in Pending(r) /\ SaveRow(r, c, e)
  BY DEF Deduct, Awaits
<1>2. req[r].rows[c] \in Row /\ req[r].rows[c].cash \in Nat
  BY <1>1, ReqFacts
<1>3. a \in Nat
  BY <1>1 DEF CashInv, TablesInv, Sound, Settlement
<1>4. NotBelowZero(req[r].rows[c].cash - a) \in Nat
  BY <1>2, <1>3 DEF NotBelowZero
<1>5. e \in Row /\ e.cash = NotBelowZero(req[r].rows[c].cash - a)
  BY <1>2, <1>4 DEF Row
<1>6. c \notin req[r].stale => req[r].rows[c].cash = customer[c].cash
  BY <1>1 DEF CashInv, Sound
<1>7. Effect(r, customer[c].cash) = NotBelowZero(customer[c].cash - a)
  BY <1>1 DEF Effect
<1> HIDE DEF e, a
<1>8. c \notin req[r].stale => e.cash = Effect(r, customer[c].cash)
  BY <1>5, <1>6, <1>7
<1> QED
  BY <1>1, <1>5, <1>8, SaveRowStep

(* The edit form and the sweep leave the cash as they read it. *)
LEMMA SaveCopyStep ==
  ASSUME CashInv, NEW r \in Requests, NEW c \in Customers, SaveEdited(r, c) \/ SaveRewritten(r, c)
  PROVE  CashInv'
<1>1. /\ req[r].pc \in {"edit", "rewrite"} /\ c \in Pending(r)
      /\ \/ SaveRow(r, c, req[r].rows[c])
         \/ /\ req[r].pc = "rewrite" /\ req' = [req EXCEPT ![r] = Done]
            /\ UNCHANGED <<customer, fresh, invoice, settlement, account, failures>>
  BY DEF SaveEdited, SaveRewritten, Awaits
<1>2. req[r].rows[c] \in Row
  BY <1>1, ReqFacts
<1>3. c \notin req[r].stale => req[r].rows[c].cash = customer[c].cash
  BY <1>1 DEF CashInv, Sound
<1> QED
  BY <1>1, <1>2, <1>3, SaveRowStep, SaveThrows

-----------------------------------------------------------------------------
(* Customers and settlements come and go *)

LEMMA CreateCustomerStep ==
  ASSUME CashInv, NEW c \in Customers, NEW n \in Names, CreateCustomer(c, n) PROVE CashInv'
<1> DEFINE e == [name |-> n, cash |-> 0]
<1>1. /\ c \in fresh /\ fresh' = fresh \ {c} /\ customer' = [customer EXCEPT ![c] = e]
      /\ UNCHANGED <<invoice, settlement, req, account, failures>>
  BY DEF CreateCustomer
<1>2. e \in Row /\ e.cash = 0
  BY DEF Row
<1> HIDE DEF e
<1>3. /\ customer' \in [Customers -> Row \cup {NoRow}] /\ customer'[c] = e
      /\ \A d \in Customers \ {c} : customer'[d] = customer[d]
  BY <1>1, <1>2 DEF CashInv, TablesInv
<1>4. Present' = Present \cup {c}
  BY <1>2, <1>3, RowIsThere DEF Present
<1>5. TablesInv'
  BY <1>1, <1>3, <1>4 DEF CashInv, TablesInv
<1>6. \A q \in Requests : c \notin Pending(q)
  BY <1>1 DEF CashInv, Sound
<1>7. \A q \in Requests : Sound(q)'
  <2> SUFFICES ASSUME NEW q \in Requests PROVE Sound(q)'
    OBVIOUS
  <2>1. \A d \in Pending(q) : d \in Customers => customer'[d] = customer[d]
    BY <1>3, <1>6
  <2> QED
    BY <1>1, <2>1, SoundKeep
<1>8. \A q \in Requests : \A d : Changes(q, d)' <=> Changes(q, d)
  BY <1>1 DEF Changes, Pending
<1>9. Accounted(c)'
  <2>1. account'[c] = 0 /\ customer'[c].cash = 0
    BY <1>1, <1>2, <1>3 DEF CashInv, TablesInv
  <2>2. \A q \in Requests : ~Changes(q, c)'
    BY <1>6, <1>8 DEF Changes
  <2> QED
    BY <2>1, <2>2 DEF Accounted
<1>10. ASSUME NEW d \in Present', d # c PROVE Accounted(d)'
  <2>1. d \in Customers /\ Accounted(d) /\ customer'[d] = customer[d]
    BY <1>3, <1>4, <1>10 DEF CashInv, Present
  <2>2. \A q \in Requests : Effect(q, customer[d].cash)' = Effect(q, customer[d].cash)
    BY <1>1, <2>1, EffectKeep
  <2> QED
    BY <1>1, <1>8, <2>1, <2>2, AccountedKeep
<1> QED
  BY <1>5, <1>7, <1>9, <1>10 DEF CashInv

LEMMA DeleteCustomerStep ==
  ASSUME CashInv, NEW c \in Customers, DeleteCustomer(c) PROVE CashInv'
<1>1. /\ c \in Present /\ customer' = [customer EXCEPT ![c] = NoRow]
      /\ req' = [q \in Requests |-> Outdated(req[q], {c})] /\ Spoil({c})
      /\ UNCHANGED <<fresh, invoice, settlement, failures>>
  BY DEF DeleteCustomer
<1>2. /\ req' \in [Requests -> Req]
      /\ \A q \in Requests : req'[q] = Outdated(req[q], {c})
  BY <1>1, OutdatedReq
<1>3. /\ customer' \in [Customers -> Row \cup {NoRow}] /\ customer'[c] = NoRow
      /\ \A d \in Customers \ {c} : customer'[d] = customer[d]
  BY <1>1 DEF CashInv, TablesInv
<1>4. Present' = Present \ {c}
  BY <1>3 DEF Present
<1>5. /\ account' \in [Customers -> Nat \cup {Unknown}] /\ account'[c] = Unknown
      /\ \A d \in Customers \ {c} : account'[d] = account[d]
  BY <1>1 DEF CashInv, TablesInv, Spoil
<1>6. TablesInv'
  BY <1>1, <1>2, <1>3, <1>4, <1>5 DEF CashInv, TablesInv
<1>7. \A q \in Requests : Sound(q)'
  BY <1>1, <1>2, <1>3, SoundOutdated
<1>8. ASSUME NEW q \in Requests
      PROVE  /\ req'[q].pc = req[q].pc /\ req'[q].subject = req[q].subject
             /\ req[q].stale \subseteq req'[q].stale
             /\ \A d : Changes(q, d)' <=> Changes(q, d)
  <2> DEFINE y == Outdated(req[q], {c})
  <2>1. {c} \in SUBSET Customers
    OBVIOUS
  <2>2. /\ y.pc = req[q].pc /\ y.subject = req[q].subject /\ y.rows = req[q].rows
        /\ y.stale = req[q].stale \cup ({c} \cap Pending(q))
    BY <2>1, OutdatedReq
  <2> HIDE DEF y
  <2>3. req'[q] = y
    BY <1>2 DEF y
  <2> QED
    BY <2>2, <2>3 DEF Changes, Pending
<1>9. ASSUME NEW d \in Present' PROVE Accounted(d)'
  <2>1. /\ d \in Customers /\ Accounted(d) /\ customer'[d] = customer[d] /\ account'[d] = account[d]
    BY <1>3, <1>4, <1>5, <1>9 DEF CashInv, Present
  <2>2. ASSUME NEW q \in Requests PROVE Effect(q, customer[d].cash)' = Effect(q, customer[d].cash)
    <3>1. req'[q].pc = req[q].pc /\ req'[q].subject = req[q].subject
      BY <1>8
    <3>2. invoice' = invoice /\ settlement' = settlement /\ customer'[d].cash = customer[d].cash
      BY <1>1, <2>1
    <3> QED
      BY <3>1, <3>2 DEF Effect
  <2> QED
    BY <1>8, <2>1, <2>2, AccountedKeep
<1> QED
  BY <1>6, <1>7, <1>9 DEF CashInv

LEMMA SubmitSettlementStep ==
  ASSUME CashInv, NEW s \in Settlements, NEW id \in Customers \cup {NoId},
         NEW n \in Names \cup {NoName}, NEW amount \in Amounts,
         SubmitSettlement(s, id, n, amount)
  PROVE  CashInv'
<1> DEFINE z == [status |-> "pending", id |-> id, name |-> n, amount |-> amount]
<1>1. /\ settlement[s].status = "none" /\ settlement' = [settlement EXCEPT ![s] = z]
      /\ UNCHANGED <<customer, fresh, invoice, req, account, failures>>
  BY DEF SubmitSettlement
<1>2. z \in Settlement
  BY AmountsAssumption DEF Settlement
<1> HIDE DEF z
<1>3. /\ settlement' \in [Settlements -> Settlement]
      /\ \A t \in Settlements \ {s} : settlement'[t] = settlement[t]
  BY <1>1, <1>2 DEF CashInv, TablesInv
<1>4. Present' = Present
  BY <1>1 DEF Present
<1>5. TablesInv'
  BY <1>1, <1>3, <1>4 DEF CashInv, TablesInv
<1>6. \A q \in Requests : Sound(q)'
  BY <1>1, <1>3, SoundKeep
<1>7. \A q \in Requests : \A d : Changes(q, d)' <=> Changes(q, d)
  BY <1>1 DEF Changes, Pending
<1>8. ASSUME NEW c \in Present' PROVE Accounted(c)'
  <2>1. c \in Customers /\ Accounted(c) /\ customer'[c] = customer[c] /\ account'[c] = account[c]
    BY <1>1, <1>4, <1>8 DEF CashInv, Present
  <2>2. ASSUME NEW q \in Requests, Changes(q, c)
        PROVE  Effect(q, customer[c].cash)' = Effect(q, customer[c].cash)
    <3>1. req[q].pc = "deduct" => settlement'[req[q].subject] = settlement[req[q].subject]
      BY <1>1, <1>3 DEF CashInv, Sound
    <3>2. req[q].pc \in {"credit", "deduct"}
      BY <2>2 DEF Changes
    <3> QED
      BY <1>1, <3>1, <3>2 DEF Effect
  <2> QED
    BY <1>1, <1>7, <2>1, <2>2, AccountedKeep
<1> QED
  BY <1>5, <1>6, <1>8 DEF CashInv

-----------------------------------------------------------------------------
(* A statement throws, the process dies *)

(* What the requests that end had still to change is no longer known. *)
LEMMA InterruptedStep ==
  ASSUME CashInv, NEW R \in SUBSET Requests, Interrupted(R) PROVE CashInv'
<1> DEFINE lost == UNION {Owed(r) : r \in R}
<1>1. /\ failures' \in 0 .. MaxFailures
      /\ req' = [r \in Requests |-> IF r \in R THEN Done ELSE req[r]] /\ Spoil(lost)
      /\ UNCHANGED <<customer, fresh, invoice, settlement>>
  BY BoundsAssumption DEF Interrupted, Failure, CashInv, TablesInv
<1>2. ASSUME NEW r \in R, NEW c \in Customers, Changes(r, c) PROVE c \in lost
  <2>1. c \in Pending(r) /\ req[r].pc \in {"credit", "deduct"}
    BY <1>2 DEF Changes
  <2>2. Owed(r) = Pending(r)
    <3>1. CASE req[r].pc = "credit"
      BY <3>1 DEF Owed, Awaits
    <3>2. CASE req[r].pc = "deduct"
      BY <3>2 DEF Owed, Awaits
    <3> QED
      BY <2>1, <3>1, <3>2
  <2> QED
    BY <2>1, <2>2
<1>3. lost \cap fresh = {}
  <2>1. ASSUME NEW r \in R PROVE Owed(r) \subseteq Present \cup Pending(r)
    BY DEF Owed, CollectorOf, Awaits
  <2>2. \A r \in R : Pending(r) \cap fresh = {}
    BY DEF CashInv, Sound
  <2> QED
    BY <2>1, <2>2 DEF CashInv, TablesInv
<1> HIDE DEF lost
<1>4. req' \in [Requests -> Req]
  BY <1>1, IdleIsReq, ReqFacts
<1>5. /\ account' \in [Customers -> Nat \cup {Unknown}]
      /\ \A c \in Customers : account'[c] = IF c \in lost THEN Unknown ELSE account[c]
  BY <1>1 DEF Spoil, CashInv, TablesInv
<1>6. Present' = Present
  BY <1>1 DEF Present
<1>7. TablesInv'
  BY <1>1, <1>3, <1>4, <1>5, <1>6 DEF CashInv, TablesInv
<1>8. ASSUME NEW q \in Requests PROVE Sound(q)'
  <2>1. CASE q \in R
    BY <1>1, <2>1, IdleIsReq DEF Sound, Pending, Saving
  <2>2. CASE q \notin R
    BY <1>1, <2>2, SoundKeep
  <2> QED
    BY <2>1, <2>2
<1>9. ASSUME NEW c \in Present' PROVE Accounted(c)'
  <2>1. c \in Customers /\ Accounted(c) /\ customer'[c] = customer[c]
    BY <1>1, <1>6, <1>9 DEF CashInv, Present
  <2>2. CASE c \in lost
    BY <1>5, <2>1, <2>2 DEF Accounted
  <2>3. CASE c \notin lost
    <3>1. account'[c] = account[c]
      BY <1>5, <2>1, <2>3
    <3>2. \A q \in Requests : Changes(q, c) => q \notin R
      BY <1>2, <2>1, <2>3
    <3>3. ASSUME NEW q \in Requests PROVE Changes(q, c)' <=> Changes(q, c)
      <4>1. CASE q \in R
        BY <1>1, <3>2, <4>1, IdleIsReq DEF Changes, Pending
      <4>2. CASE q \notin R
        BY <1>1, <4>2 DEF Changes, Pending
      <4> QED
        BY <4>1, <4>2
    <3>4. \A q \in Requests : Changes(q, c) => req'[q] = req[q]
      BY <1>1, <3>2
    <3>5. \A q \in Requests : Changes(q, c) => Effect(q, customer[c].cash)' = Effect(q, customer[c].cash)
      BY <1>1, <2>1, <3>4, EffectKeep
    <3> QED
      BY <2>1, <3>1, <3>3, <3>4, <3>5, AccountedKeep
  <2> QED
    BY <2>2, <2>3
<1> QED
  BY <1>7, <1>8, <1>9 DEF CashInv

-----------------------------------------------------------------------------

LEMMA CashInvInit == CashInit => CashInv
<1> SUFFICES ASSUME CashInit PROVE CashInv
  OBVIOUS
<1>1. req \in [Requests -> Req] /\ \A r \in Requests : req[r] = Idle
  BY IdleIsReq DEF CashInit
<1>2. /\ customer \in [Customers -> Row \cup {NoRow}]
      /\ \A c \in Present : customer[c].cash = 0
  BY DEF CashInit, Row, Present
<1>3. settlement \in [Settlements -> Settlement]
  BY DEF CashInit, NoSettlement, Settlement
<1>4. TablesInv
  <2>1. fresh \subseteq Customers /\ fresh \cap Present = {}
    BY DEF CashInit
  <2>2. invoice \in [Invoices -> [amount : Amounts, paid : BOOLEAN]]
    BY DEF CashInit
  <2>3. account \in [Customers -> Nat \cup {Unknown}] /\ \A c \in Customers : account[c] = 0
    BY DEF CashInit
  <2>4. \A c \in Customers \ Present : c \in fresh
    BY DEF CashInit
  <2>5. failures \in 0 .. MaxFailures
    BY BoundsAssumption DEF CashInit
  <2> QED
    BY <1>1, <1>2, <1>3, <2>1, <2>2, <2>3, <2>4, <2>5 DEF TablesInv
<1>5. \A r \in Requests : Sound(r)
  BY <1>1, IdleIsReq DEF Sound, Pending, Saving
<1>6. \A c \in Present : Accounted(c)
  BY <1>1, <1>2, IdleIsReq DEF Accounted, Changes, CashInit, Present
<1> QED
  BY <1>4, <1>5, <1>6 DEF CashInv

LEMMA CashInvStutter ==
  ASSUME CashInv, UNCHANGED cashVars PROVE CashInv'
<1>1. TablesInv'
  BY DEF cashVars, CashInv, TablesInv, Present
<1>2. \A q \in Requests : Sound(q)'
  BY SoundKeep DEF cashVars
<1>3. ASSUME NEW c \in Present' PROVE Accounted(c)'
  <2>1. c \in Customers /\ Accounted(c)
    BY <1>3 DEF cashVars, CashInv, Present
  <2>2. \A q \in Requests : /\ Changes(q, c)' <=> Changes(q, c)
                            /\ Effect(q, customer[c].cash)' = Effect(q, customer[c].cash)
    BY EffectKeep DEF cashVars, Changes, Pending
  <2> QED
    BY <2>1, <2>2, AccountedKeep DEF cashVars
<1> QED
  BY <1>1, <1>2, <1>3 DEF CashInv

LEMMA CashInvStep == CashInv /\ [CashNext]_cashVars => CashInv'
<1> SUFFICES ASSUME CashInv, [CashNext]_cashVars PROVE CashInv'
  OBVIOUS
<1>1. ASSUME NEW r \in Requests, RequestStep(r) PROVE CashInv'
  BY <1>1, PayInvoiceStep, SavePaidStep, FindCollectorsStep, VerifySettlementStep,
     SaveVerifiedStep, FindCollectorStep, RewriteCustomersStep, CreditStep, DeductStep,
     SaveCopyStep, EditCustomerStep DEF RequestStep
<1>2. CASE DatabaseError \/ Crash
  <2>1. \A r \in Active : {r} \in SUBSET Requests
    BY DEF Active
  <2>2. Active \in SUBSET Requests
    BY DEF Active
  <2> QED
    BY <1>2, <2>1, <2>2, InterruptedStep DEF DatabaseError, Crash
<1> QED
  BY <1>1, <1>2, CreateCustomerStep, DeleteCustomerStep, SubmitSettlementStep, CashInvStutter
  DEF CashNext

(* The invariant holds in every reachable state of CollectorCash. *)
THEOREM CashInductive == CashSpec => []CashInv
  BY CashInvInit, CashInvStep, PTL DEF CashSpec

(* Customers, invoices, settlements and requests keep their types, whatever
   payInvoice, verifySettlement and the saves of customers interleave. *)
THEOREM CashTyping == CashSpec => []CashTypeOK
<1>1. CashInv => CashTypeOK
  <2> SUFFICES ASSUME CashInv PROVE CashTypeOK
    OBVIOUS
  <2>1. \A r \in Requests : req[r].pc \in Pcs /\ req[r].stale \subseteq Pending(r)
    BY ReqFacts DEF Req, CashInv, Sound
  <2>2. \A r \in Requests : \A c \in Pending(r) : c \in Customers /\ req[r].rows[c] \in Row
    BY ReqFacts
  <2> QED
    BY <2>1, <2>2 DEF CashTypeOK, CashInv, TablesInv
<1> QED
  BY <1>1, CashInductive, PTL

(* What a collector holds is what was paid to him less what he settled, for
   every number of customers, invoices, settlements and requests. *)
THEOREM CashAccounted == CashSpec => []CashIsAccounted
<1>1. CashInv => CashIsAccounted
  BY DEF CashInv, Accounted, Changes, CashIsAccounted
<1> QED
  BY <1>1, CashInductive, PTL
=============================================================================
