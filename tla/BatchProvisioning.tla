-------------------------- MODULE BatchProvisioning --------------------------
(***************************************************************************)
(* A voucher batch on its way to the router: erp-node-service writes the   *)
(* batch and its outbox event in one transaction, its relay publishes      *)
(* voucher.batch.created, and the consumer of mikrotik-go-service adds the *)
(* vouchers as hotspot users, with retries and a dead-letter stream.  An   *)
(* operator may delete a batch together with its router users meanwhile.   *)
(*                                                                         *)
(* One router session and one stream; entry i of the stream was published  *)
(* for batch stream[i].                                                    *)
(***************************************************************************)
EXTENDS Integers, Sequences, FiniteSets

CONSTANTS
  MaxBatches,     \* bound: batches ever created, in createdAt order
  Vouchers,       \* Vouchers[b]: usernames of batch b, in order
  Nobody,         \* owner of a username that is not on the router
  Stranger,       \* owner of a user that no batch created
  Flushes,        \* timer calls of flush, numbered
  TakeCount,      \* events a flush reads at most
  ReadCount,      \* entries XREADGROUP returns at most
  MaxDeliveries,  \* REDIS_MAX_DELIVERIES
  MaxFaults       \* bound: crashes, lost answers and database errors

Batches == 1 .. MaxBatches
Names(b) == {Vouchers[b][k] : k \in 1 .. Len(Vouchers[b])}
Users == UNION {Names(b) : b \in Batches}

ASSUME BatchesAssumption ==
  /\ MaxBatches \in Nat
  /\ \A b \in Batches : Vouchers[b] \in Seq(Names(b))
  /\ Nobody \notin Batches /\ Stranger \notin Batches /\ Nobody # Stranger
ASSUME SizesAssumption ==
  /\ Flushes \subseteq Nat
  /\ {TakeCount, ReadCount, MaxDeliveries} \subseteq Nat \ {0}
  /\ MaxFaults \in Nat

NoGroup == -1

VARIABLES
  batch,      \* voucher_batches: "none", "present", "deleting" or "deleted"
  event,      \* outbox_events.status of the batch's event, or "none"
  flush,      \* calls of flush in progress
  stream,     \* the Redis stream voucher.batch.created
  groupStart, \* entries of the stream when the group was created at "$"
  last,       \* entries the group has delivered up to
  pending,    \* entries delivered and not acknowledged
  count,      \* deliveries of each entry so far (the PEL's counter)
  dlq,        \* batches with an entry on the dead-letter stream
  consumer,   \* the consumer goroutine
  router,     \* owner of each username on the router
  removing,   \* usernames a deletion has yet to remove, by batch
  provisioned,\* history: batches the handler has returned success for
  faults

relayVars == <<event, flush>>
redisVars == <<stream, groupStart, last, pending, count, dlq>>
vars == <<batch, relayVars, redisVars, consumer, router, removing,
          provisioned, faults>>

Entries == 1 .. Len(stream)
Owners == Batches \cup {Nobody, Stranger}

Flush == [pc : {"idle", "take", "publish", "published", "failed"},
          todo : SUBSET Batches]
IdleFlush == [pc |-> "idle", todo |-> {}]

\* existing is the router's user list as the handler read it, next the
\* position of the voucher it is at.
Consumer == [pc : {"down", "poll", "list", "add", "deadLetter", "ack"},
             todo : SUBSET Entries, existing : [Users -> Owners],
             next : Nat]
NoUsers == [u \in Users |-> Nobody]
Polling == [pc |-> "poll", todo |-> {}, existing |-> NoUsers, next |-> 0]

TypeOK ==
  /\ batch \in [Batches -> {"none", "present", "deleting", "deleted"}]
  /\ event \in [Batches -> {"none", "pending", "processing", "published"}]
  /\ flush \in [Flushes -> Flush]
  /\ stream \in Seq(Batches)
  /\ groupStart \in {NoGroup} \cup 0 .. Len(stream)
  /\ last \in 0 .. Len(stream)
  /\ pending \subseteq Entries
  /\ count \in [Entries -> Nat]
  /\ dlq \subseteq Batches
  /\ consumer \in Consumer
  /\ router \in [Users -> Owners]
  /\ removing \in [Batches -> SUBSET Users]
  /\ provisioned \subseteq Batches
  /\ faults \in 0 .. MaxFaults

Init ==
  /\ batch = [b \in Batches |-> "none"]
  /\ event = [b \in Batches |-> "none"]
  /\ flush = [f \in Flushes |-> IdleFlush]
  /\ stream = <<>>
  /\ groupStart = NoGroup
  /\ last = 0
  /\ pending = {}
  /\ count = <<>>
  /\ dlq = {}
  /\ consumer = [Polling EXCEPT !.pc = "down"]
  /\ router \in [Users -> {Nobody, Stranger}]
  /\ removing = [b \in Batches |-> {}]
  /\ provisioned = {}
  /\ faults = 0

Fault == faults < MaxFaults /\ faults' = faults + 1

First(S) == CHOOSE x \in S : \A y \in S : x <= y

-----------------------------------------------------------------------------
(* erp-node-service: creation and deletion of a batch. *)

\* One transaction; a second batch with the same id is refused.
CreateBatch(b) ==
  /\ batch[b] = "none"
  /\ \A c \in Batches : c < b => batch[c] # "none"
  /\ batch' = [batch EXCEPT ![b] = "present"]
  /\ event' = [event EXCEPT ![b] = "pending"]
  /\ UNCHANGED <<flush, redisVars, consumer, router, removing, provisioned,
                 faults>>

\* deleteWithRouter: names are the users to remove, none if the operator
\* keeps them.  The outbox event is left alone.
BeginDelete(b, names) ==
  /\ batch[b] = "present"
  /\ batch' = [batch EXCEPT ![b] = "deleting"]
  /\ removing' = [removing EXCEPT ![b] = names]
  /\ UNCHANGED <<relayVars, redisVars, consumer, router, provisioned, faults>>

\* removeHotspotUser: done, or failed and counted; by name alone.
RemoveUser(b, u) ==
  /\ u \in removing[b]
  /\ router' \in {router, [router EXCEPT ![u] = Nobody]}
  /\ removing' = [removing EXCEPT ![b] = @ \ {u}]
  /\ UNCHANGED <<batch, relayVars, redisVars, consumer, provisioned, faults>>

DeleteRow(b) ==
  /\ batch[b] = "deleting"
  /\ removing[b] = {}
  /\ batch' = [batch EXCEPT ![b] = "deleted"]
  /\ UNCHANGED <<relayVars, redisVars, consumer, router, removing,
                 provisioned, faults>>

-----------------------------------------------------------------------------
(* erp-node-service: the relay. *)

Due == LET open == {b \in Batches : event[b] \in {"pending", "processing"}}
       IN  {b \in open : Cardinality({c \in open : c < b}) < TakeCount}

Running == \E f \in Flushes : flush[f].pc # "idle"

StartFlush(f) ==
  /\ ~Running
  /\ flush[f].pc = "idle"
  /\ Due # {}
  /\ flush' = [flush EXCEPT ![f] = [pc |-> "take", todo |-> Due]]
  /\ UNCHANGED <<batch, event, redisVars, consumer, router, removing,
                 provisioned, faults>>

Current(f) == First(flush[f].todo)
At(f, pc) == flush' = [flush EXCEPT ![f].pc = pc]
NextEvent(f) ==
  LET todo == flush[f].todo \ {Current(f)}
  IN  flush' = [flush EXCEPT ![f] =
                  IF todo = {} THEN IdleFlush
                  ELSE [pc |-> "take", todo |-> todo]]

Take(f) ==
  /\ flush[f].pc = "take"
  /\ event' = [event EXCEPT ![Current(f)] = "processing"]
  /\ At(f, "publish")
  /\ UNCHANGED <<batch, redisVars, consumer, router, removing, provisioned,
                 faults>>

Append1(b) == stream' = Append(stream, b) /\ count' = Append(count, 0)

Publish(f) ==
  /\ flush[f].pc = "publish"
  /\ Append1(Current(f))
  /\ At(f, "published")
  /\ UNCHANGED <<batch, event, groupStart, last, pending, dlq, consumer,
                 router, removing, provisioned, faults>>

\* XADD is refused, or it is done and the answer lost.
PublishFails(f) ==
  /\ flush[f].pc = "publish"
  /\ \/ UNCHANGED <<stream, count, faults>>
     \/ Fault /\ Append1(Current(f))
  /\ At(f, "failed")
  /\ UNCHANGED <<batch, event, groupStart, last, pending, dlq, consumer,
                 router, removing, provisioned>>

SaveOutcome(f) ==
  /\ flush[f].pc \in {"published", "failed"}
  /\ event' = [event EXCEPT ![Current(f)] =
                 IF flush[f].pc = "published" THEN "published" ELSE "pending"]
  /\ NextEvent(f)
  /\ UNCHANGED <<batch, redisVars, consumer, router, removing, provisioned,
                 faults>>

\* A save throws, which ends the call; or the process crashes.  A row left
\* "processing" is read again by the next call.
FlushEnds(f) ==
  /\ flush[f].pc # "idle"
  /\ Fault
  /\ flush' = [flush EXCEPT ![f] = IdleFlush]
  /\ UNCHANGED <<batch, event, redisVars, consumer, router, removing,
                 provisioned>>

-----------------------------------------------------------------------------
(* mikrotik-go-service: the consumer. *)

\* XGROUP CREATE at "$", tried again after every error.
StartConsumer ==
  /\ consumer.pc = "down"
  /\ consumer' = Polling
  /\ IF groupStart = NoGroup
     THEN groupStart' = Len(stream) /\ last' = Len(stream)
     ELSE UNCHANGED <<groupStart, last>>
  /\ UNCHANGED <<batch, relayVars, stream, pending, count, dlq, router,
                 removing, provisioned, faults>>

Entry == First(consumer.todo)
Provisioning == stream[Entry]

\* The entries S are handled one after the other, oldest first.
Handling(S) ==
  IF S = {} THEN Polling ELSE [Polling EXCEPT !.pc = "list", !.todo = S]
NextEntry == consumer' = Handling(consumer.todo \ {Entry})

Deliver(S) == count' = [i \in Entries |-> IF i \in S THEN count[i] + 1
                                          ELSE count[i]]

\* Mutant: the group moves on by the count it asked for.
ReadPastTheEnd ==
  /\ consumer.pc = "poll"
  /\ last < Len(stream)
  /\ last' = last + ReadCount
  /\ UNCHANGED <<batch, relayVars, stream, groupStart, pending, count, dlq,
                 consumer, router, removing, provisioned, faults>>

\* XREADGROUP: the next entries of the stream become pending.
ReadNew ==
  /\ consumer.pc = "poll"
  /\ last < Len(stream)
  /\ LET new == {i \in Entries : last < i /\ i <= last + ReadCount}
     IN  /\ last' = last + Cardinality(new)
         /\ pending' = pending \cup new
         /\ Deliver(new)
         /\ consumer' = Handling(new)
  /\ UNCHANGED <<batch, relayVars, stream, groupStart, dlq, router, removing,
                 provisioned, faults>>

\* Mutant: pending entries are never looked at again.
ReclaimNothing(S) == consumer.pc = "poll" /\ S = {} /\ UNCHANGED vars

\* claimStalePending: S are the pending entries idle for a minute.
Reclaim(S) ==
  /\ consumer.pc = "poll"
  /\ S # {}
  /\ Deliver(S)
  /\ consumer' = Handling(S)
  /\ UNCHANGED <<batch, relayVars, stream, groupStart, last, pending, dlq,
                 router, removing, provisioned, faults>>

\* Mutant: the counter is read after the entry is claimed.
AttemptsAfterClaim == count[Entry]

\* A new entry counts as the first attempt, a reclaimed one as many as the
\* counter showed before it was claimed.
Attempts == IF count[Entry] <= 2 THEN 1 ELSE count[Entry] - 1

\* The handler returns an error.
HandlerFails ==
  IF Attempts >= MaxDeliveries
  THEN consumer' = [consumer EXCEPT !.pc = "deadLetter"]
  ELSE NextEntry

ListUsers ==
  /\ consumer.pc = "list"
  /\ consumer' = [consumer EXCEPT !.pc = "add", !.existing = router,
                                  !.next = 1]
  /\ UNCHANGED <<batch, relayVars, redisVars, router, removing, provisioned,
                 faults>>

ListFails ==
  /\ consumer.pc = "list"
  /\ HandlerFails
  /\ UNCHANGED <<batch, relayVars, redisVars, router, removing, provisioned,
                 faults>>

Name == Vouchers[Provisioning][consumer.next]
More == /\ consumer.pc = "add"
        /\ consumer.next <= Len(Vouchers[Provisioning])

\* Listed: the same user is skipped, another configuration is an error.
KnownUser ==
  /\ More
  /\ consumer.existing[Name] # Nobody
  /\ IF consumer.existing[Name] = Provisioning
     THEN consumer' = [consumer EXCEPT !.next = @ + 1]
     ELSE HandlerFails
  /\ UNCHANGED <<batch, relayVars, redisVars, router, removing, provisioned,
                 faults>>

\* AddHotspotUser succeeds; the new user joins the handler's list.
AddUser ==
  /\ More
  /\ consumer.existing[Name] = Nobody
  /\ router[Name] = Nobody
  /\ router' = [router EXCEPT ![Name] = Provisioning]
  /\ consumer' = [consumer EXCEPT !.existing[Name] = Provisioning,
                                  !.next = @ + 1]
  /\ UNCHANGED <<batch, relayVars, redisVars, removing, provisioned, faults>>

\* Mutant: an error for one voucher does not stop the batch.
SkipOnError ==
  /\ More
  /\ consumer.existing[Name] = Nobody
  /\ consumer' = [consumer EXCEPT !.next = @ + 1]
  /\ UNCHANGED <<batch, relayVars, redisVars, router, removing, provisioned,
                 faults>>

\* It is refused, or the user is created and the answer lost.
AddFails ==
  /\ More
  /\ consumer.existing[Name] = Nobody
  /\ \/ UNCHANGED <<router, faults>>
     \/ /\ router[Name] = Nobody
        /\ Fault
        /\ router' = [router EXCEPT ![Name] = Provisioning]
  /\ HandlerFails
  /\ UNCHANGED <<batch, relayVars, redisVars, removing, provisioned>>

HandlerSucceeds ==
  /\ consumer.pc = "add"
  /\ ~More
  /\ consumer' = [consumer EXCEPT !.pc = "ack"]
  /\ provisioned' = provisioned \cup {Provisioning}
  /\ UNCHANGED <<batch, relayVars, redisVars, router, removing, faults>>

\* XADD to the dead-letter stream, then XACK.
DeadLetter ==
  /\ consumer.pc = "deadLetter"
  /\ dlq' = dlq \cup {Provisioning}
  /\ consumer' = [consumer EXCEPT !.pc = "ack"]
  /\ UNCHANGED <<batch, relayVars, stream, groupStart, last, pending, count,
                 router, removing, provisioned, faults>>

\* Mutant: the entry is acknowledged although the DLQ did not take it.
AckUnwritten ==
  /\ consumer.pc = "deadLetter"
  /\ Fault
  /\ consumer' = [consumer EXCEPT !.pc = "ack"]
  /\ UNCHANGED <<batch, relayVars, redisVars, router, removing, provisioned>>

\* The DLQ is out of reach: the entry stays pending.
DeadLetterFails ==
  /\ consumer.pc = "deadLetter"
  /\ Fault
  /\ dlq' \in {dlq, dlq \cup {Provisioning}}
  /\ NextEntry
  /\ UNCHANGED <<batch, relayVars, stream, groupStart, last, pending, count,
                 router, removing, provisioned>>

Ack ==
  /\ consumer.pc = "ack"
  /\ \/ pending' = pending \ {Entry} /\ UNCHANGED faults
     \/ Fault /\ UNCHANGED pending
  /\ NextEntry
  /\ UNCHANGED <<batch, relayVars, stream, groupStart, last, count, dlq,
                 router, removing, provisioned>>

ConsumerCrash ==
  /\ consumer.pc # "down"
  /\ Fault
  /\ consumer' = [Polling EXCEPT !.pc = "down"]
  /\ UNCHANGED <<batch, relayVars, redisVars, router, removing, provisioned>>

-----------------------------------------------------------------------------

BatchStep(b) ==
  \/ CreateBatch(b)
  \/ \E names \in {{}, Names(b)} : BeginDelete(b, names)
  \/ \E u \in Users : RemoveUser(b, u)
  \/ DeleteRow(b)

RelayStep(f) ==
  \/ StartFlush(f) \/ Take(f) \/ Publish(f) \/ PublishFails(f)
  \/ SaveOutcome(f) \/ FlushEnds(f)

ConsumerStep ==
  \/ StartConsumer \/ ReadNew \/ \E S \in SUBSET pending : Reclaim(S)
  \/ ListUsers \/ ListFails \/ KnownUser \/ AddUser \/ AddFails
  \/ HandlerSucceeds \/ DeadLetter \/ DeadLetterFails \/ Ack \/ ConsumerCrash

Next == \/ \E b \in Batches : BatchStep(b)
        \/ \E f \in Flushes : RelayStep(f)
        \/ ConsumerStep

Spec == Init /\ [][Next]_vars

\* The timers fire, every call ends, and Redis takes an event that is tried
\* again and again.  Nothing is asked of the router.
Fairness ==
  /\ \A f \in Flushes : /\ WF_vars(StartFlush(f))
                        /\ WF_vars(Take(f))
                        /\ SF_vars(Publish(f))
                        /\ WF_vars(SaveOutcome(f))
  /\ WF_vars(StartConsumer)
  /\ WF_vars(ReadNew)
  /\ \A b \in Batches :
       SF_vars(\E S \in SUBSET pending :
                 (\E i \in S : stream[i] = b) /\ Reclaim(S))
  /\ WF_vars(ListUsers \/ ListFails)
  /\ WF_vars(KnownUser \/ AddUser \/ AddFails \/ HandlerSucceeds)
  /\ WF_vars(DeadLetter)
  /\ WF_vars(Ack)

FairSpec == Spec /\ Fairness

-----------------------------------------------------------------------------
(* Properties *)

Acked == (groupStart + 1 .. last) \ pending
Closed(b) == groupStart # NoGroup /\ \E i \in Acked : stream[i] = b

\* An operator removes the batch, and maybe the users of its names.
Withdrawn(b) == batch[b] \in {"deleting", "deleted"}

\* A batch the group has closed and nobody deletes is on the router with
\* every voucher, or on the dead-letter stream: a partial run, a lost answer
\* of the router, a crash between two vouchers or a stale user list never
\* close a batch that is only half there.  (The names are random and no two
\* batches are compared: the deletion of another batch that drew the same
\* name may take the user away.)
ClosedIsComplete ==
  \A b \in Batches :
    Closed(b) /\ batch[b] = "present" =>
      \/ b \in dlq
      \/ \A u \in Names(b) :
           router[u] = b \/ \E c \in Batches : Withdrawn(c) /\ u \in Names(c)

\* A batch is parked only when one of its entries has been delivered more
\* than MaxDeliveries times, once more than REDIS_MAX_DELIVERIES says: the
\* counter is read before the entry is claimed again.  (If it says 1, the
\* first failure is enough.)
ParkedAfterRetries ==
  \A b \in dlq : \E i \in Entries :
    stream[i] = b /\ count[i] >= (IF MaxDeliveries = 1 THEN 1
                                  ELSE MaxDeliveries + 1)

Stage == [b \in Batches |->
            IF event[b] = "none" THEN "none"
            ELSE IF Closed(b) THEN "closed"
            ELSE IF b \in provisioned \cup dlq THEN "dealt" ELSE "held"]

Delivery == INSTANCE EventDelivery WITH Event <- Batches, stage <- Stage

\* Outbox, stream, group and dead-letter stream together keep the promise of
\* EventDelivery: no batch is closed that was neither provisioned nor parked.
DeliveryPromise == Delivery!Spec

\* Whatever the router does, a batch created after the group exists is
\* closed in the end: refused often enough, it is parked.
EventuallyClosed ==
  \A b \in Batches : (event[b] # "none" /\ groupStart = 0) ~> Closed(b)
=============================================================================
