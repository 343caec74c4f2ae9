---------------------------- MODULE PaymentEvents ----------------------------
(***************************************************************************)
(* The events of payment-service on their way to bot-py-service: the rows  *)
(* of payment_outbox, the relay that publishes them (OutboxService.flush,  *)
(* every two seconds, also while an earlier flush is still running), the   *)
(* Redis stream with the consumer group of the bot, and the bot's          *)
(* consumer thread with the handler of payment.order.settled.              *)
(*                                                                         *)
(* Rows are numbered in createdAt order.  One stream is modelled; the      *)
(* streams of the other topics go through the same code.                   *)
(***************************************************************************)
EXTENDS Integers, Sequences, FiniteSets

CONSTANTS
  MaxRows,     \* bound: rows ever written
  WithPhone,   \* rows whose event is sent to the customer over WhatsApp
  Flushes,     \* calls of flush that may run at the same time, numbered
  BatchSize,   \* rows a flush reads at most
  ReadCount,   \* entries XREADGROUP returns at most
  MaxFaults    \* bound: crashes, lost answers and database errors

ASSUME RowsAssumption == MaxRows \in Nat /\ WithPhone \subseteq 1 .. MaxRows
ASSUME SizesAssumption == /\ Flushes \subseteq Nat
                          /\ BatchSize \in Nat \ {0}
                          /\ ReadCount \in Nat \ {0}
                          /\ MaxFaults \in Nat

Rows == 1 .. MaxRows
NoGroup == -1

VARIABLES
  row,        \* payment_outbox: "none" (not written), "unsent" or "sent"
  flush,      \* calls of flush in progress
  stream,     \* the Redis stream: the row each entry was published from
  groupStart, \* entries of the stream when the group was created at "$"
  last,       \* entries the group has delivered up to
  pending,    \* entries delivered and not acknowledged (the group's PEL)
  bot,        \* the consumer thread
  whatsapp,   \* rows whose customer has received the message
  notified,   \* rows whose sale notification reached Telegram
  faults      \* faults so far

relayVars == <<row, flush>>
redisVars == <<stream, groupStart, last, pending>>
botVars == <<bot, whatsapp, notified>>
vars == <<relayVars, redisVars, botVars, faults>>

Flush == [pc : {"idle", "publish", "mark", "note"}, todo : SUBSET Rows]
IdleFlush == [pc |-> "idle", todo |-> {}]

Entries == 1 .. Len(stream)

Bot == [pc : {"down", "poll", "whatsapp", "telegram", "ack", "dead"},
        todo : SUBSET Entries]
Poll == [pc |-> "poll", todo |-> {}]

TypeOK ==
  /\ row \in [Rows -> {"none", "unsent", "sent"}]
  /\ flush \in [Flushes -> Flush]
  /\ stream \in Seq(Rows)
  /\ groupStart \in {NoGroup} \cup 0 .. Len(stream)
  /\ last \in 0 .. Len(stream)
  /\ pending \subseteq Entries
  /\ bot \in Bot
  /\ whatsapp \subseteq Rows
  /\ notified \subseteq Rows
  /\ faults \in 0 .. MaxFaults

Init ==
  /\ row = [e \in Rows |-> "none"]
  /\ flush = [f \in Flushes |-> IdleFlush]
  /\ stream = <<>>
  /\ groupStart = NoGroup
  /\ last = 0
  /\ pending = {}
  /\ bot = [pc |-> "down", todo |-> {}]
  /\ whatsapp = {}
  /\ notified = {}
  /\ faults = 0

Fault == faults < MaxFaults /\ faults' = faults + 1

\* The smallest element: the oldest row or entry of a batch.
First(S) == CHOOSE x \in S : \A y \in S : x <= y

-----------------------------------------------------------------------------
(* The outbox and its relay. *)

\* The transaction of settleOrder commits row e.
Enqueue(e) ==
  /\ row[e] = "none"
  /\ \A d \in Rows : d < e => row[d] # "none"
  /\ row' = [row EXCEPT ![e] = "unsent"]
  /\ UNCHANGED <<flush, redisVars, botVars, faults>>

\* The rows flush reads: unsent, the BatchSize oldest.
Batch == LET unsent == {e \in Rows : row[e] = "unsent"}
         IN  {e \in unsent : Cardinality({d \in unsent : d < e}) < BatchSize}

\* The timer fires; earlier calls may still be publishing.
StartFlush(f) ==
  /\ flush[f].pc = "idle"
  /\ \A g \in Flushes : g < f => flush[g].pc # "idle"
  /\ Batch # {}
  /\ flush' = [flush EXCEPT ![f] = [pc |-> "publish", todo |-> Batch]]
  /\ UNCHANGED <<row, redisVars, botVars, faults>>

At(f, pc) == flush' = [flush EXCEPT ![f].pc = pc]

\* The call goes on with the next row of its batch or returns.
NextRow(f) ==
  LET todo == flush[f].todo \ {First(flush[f].todo)}
  IN  flush' = [flush EXCEPT ![f] =
                  IF todo = {} THEN IdleFlush
                  ELSE [pc |-> "publish", todo |-> todo]]

Publish(f) ==
  /\ flush[f].pc = "publish"
  /\ stream' = Append(stream, First(flush[f].todo))
  /\ At(f, "mark")
  /\ UNCHANGED <<row, groupStart, last, pending, botVars, faults>>

\* publish returns false: XADD is refused, or it is done and the answer lost.
PublishFails(f) ==
  /\ flush[f].pc = "publish"
  /\ \/ UNCHANGED <<stream, faults>>
     \/ Fault /\ stream' = Append(stream, First(flush[f].todo))
  /\ At(f, "note")
  /\ UNCHANGED <<row, groupStart, last, pending, botVars>>

MarkSent(f) ==
  /\ flush[f].pc = "mark"
  /\ row' = [row EXCEPT ![First(flush[f].todo)] = "sent"]
  /\ NextRow(f)
  /\ UNCHANGED <<redisVars, botVars, faults>>

\* attempts and lastError are written, sent is not.
NoteFailure(f) ==
  /\ flush[f].pc = "note"
  /\ NextRow(f)
  /\ UNCHANGED <<row, redisVars, botVars, faults>>

\* An update throws; the timer's catch drops the rest of the batch.
FlushThrows(f) ==
  /\ flush[f].pc \in {"mark", "note"}
  /\ Fault
  /\ flush' = [flush EXCEPT ![f] = IdleFlush]
  /\ UNCHANGED <<row, redisVars, botVars>>

RelayCrash ==
  /\ \E f \in Flushes : flush[f].pc # "idle"
  /\ Fault
  /\ flush' = [f \in Flushes |-> IdleFlush]
  /\ UNCHANGED <<row, redisVars, botVars>>

-----------------------------------------------------------------------------
(* The consumer thread of the bot. *)

\* xgroup_create at "$": a group that exists is kept, a new one starts
\* behind what the stream already holds.
StartBot ==
  /\ bot.pc = "down"
  /\ bot' = Poll
  /\ IF groupStart = NoGroup
     THEN groupStart' = Len(stream) /\ last' = Len(stream)
     ELSE UNCHANGED <<groupStart, last>>
  /\ UNCHANGED <<relayVars, stream, pending, whatsapp, notified, faults>>

\* Only a ResponseError of xgroup_create is caught: with Redis out of reach
\* the thread ends and the process stays up without it.
StartFails ==
  /\ bot.pc = "down"
  /\ Fault
  /\ bot' = [bot EXCEPT !.pc = "dead"]
  /\ UNCHANGED <<relayVars, redisVars, whatsapp, notified>>

\* The entries S, oldest first, are dispatched one after the other.
Entry == First(bot.todo)
Dispatching(S) ==
  IF S = {} THEN Poll
  ELSE [pc |-> IF stream[First(S)] \in WithPhone THEN "whatsapp"
               ELSE "telegram",
        todo |-> S]
NextEntry == bot' = Dispatching(bot.todo \ {Entry})

\* Mutant: the group moves on by the count it asked for.
ReadPastTheEnd ==
  /\ bot.pc = "poll"
  /\ last < Len(stream)
  /\ LET new == {i \in Entries : last < i /\ i <= last + ReadCount}
     IN  /\ last' = last + ReadCount
         /\ pending' = pending \cup new
         /\ bot' = Dispatching(new)
  /\ UNCHANGED <<relayVars, stream, groupStart, whatsapp, notified, faults>>

\* XREADGROUP: the next entries of the stream become pending.
ReadNew ==
  /\ bot.pc = "poll"
  /\ last < Len(stream)
  /\ LET new == {i \in Entries : last < i /\ i <= last + ReadCount}
     IN  /\ last' = last + Cardinality(new)
         /\ pending' = pending \cup new
         /\ bot' = Dispatching(new)
  /\ UNCHANGED <<relayVars, stream, groupStart, whatsapp, notified, faults>>

\* Mutant: pending entries are never looked at again.
ReclaimNothing(S) == bot.pc = "poll" /\ S = {} /\ UNCHANGED vars

\* _claim_stale_pending: S are the pending entries idle for a minute.
Reclaim(S) ==
  /\ bot.pc = "poll"
  /\ S # {}
  /\ bot' = Dispatching(S)
  /\ UNCHANGED <<relayVars, redisVars, whatsapp, notified, faults>>

Received == whatsapp \cup {stream[Entry]}

\* send_voucher_wa: the gateway accepts the message.
SendWhatsApp ==
  /\ bot.pc = "whatsapp"
  /\ whatsapp' = Received
  /\ bot' = [bot EXCEPT !.pc = "telegram"]
  /\ UNCHANGED <<relayVars, redisVars, notified, faults>>

\* It returns False, which leaves the entry pending; after a timeout the
\* message may have been sent all the same.
WhatsAppFails ==
  /\ bot.pc = "whatsapp"
  /\ whatsapp' \in {whatsapp, Received}
  /\ NextEntry
  /\ UNCHANGED <<relayVars, redisVars, notified, faults>>

\* notify_sale returns True: one of the enabled bots delivered it.
NotifyTelegram ==
  /\ bot.pc = "telegram"
  /\ notified' = notified \cup {stream[Entry]}
  /\ bot' = [bot EXCEPT !.pc = "ack"]
  /\ UNCHANGED <<relayVars, redisVars, whatsapp, faults>>

\* Mutant: the entry is acknowledged whatever the handler returns.
AckAfterFailure ==
  /\ bot.pc = "telegram"
  /\ bot' = [bot EXCEPT !.pc = "ack"]
  /\ UNCHANGED <<relayVars, redisVars, whatsapp, notified, faults>>

\* It returns False, and so does the handler: the entry stays pending.
TelegramFails ==
  /\ bot.pc = "telegram"
  /\ notified' \in {notified, notified \cup {stream[Entry]}}
  /\ NextEntry
  /\ UNCHANGED <<relayVars, redisVars, whatsapp, faults>>

\* XACK; when it fails the error is logged and the entry stays pending.
Ack ==
  /\ bot.pc = "ack"
  /\ \/ pending' = pending \ {Entry} /\ UNCHANGED faults
     \/ Fault /\ UNCHANGED pending
  /\ NextEntry
  /\ UNCHANGED <<relayVars, stream, groupStart, last, whatsapp, notified>>

BotCrash ==
  /\ bot.pc # "down"
  /\ Fault
  /\ bot' = [pc |-> "down", todo |-> {}]
  /\ UNCHANGED <<relayVars, redisVars, whatsapp, notified>>

-----------------------------------------------------------------------------

RelayStep(f) ==
  \/ StartFlush(f) \/ Publish(f) \/ PublishFails(f)
  \/ MarkSent(f) \/ NoteFailure(f) \/ FlushThrows(f)

BotStep ==
  \/ StartBot \/ StartFails \/ ReadNew
  \/ \E S \in SUBSET pending : Reclaim(S)
  \/ SendWhatsApp \/ WhatsAppFails \/ NotifyTelegram \/ TelegramFails
  \/ Ack \/ BotCrash

Next ==
  \/ \E e \in Rows : Enqueue(e)
  \/ \E f \in Flushes : RelayStep(f)
  \/ RelayCrash
  \/ BotStep

Spec == Init /\ [][Next]_vars

\* The timers fire and every call ends.  Redis, the WhatsApp gateway and
\* Telegram, tried again and again, answer in the end, and for each entry
\* that is tried again and again.
Fairness ==
  /\ \A f \in Flushes :
       /\ WF_vars(StartFlush(f))
       /\ SF_vars(Publish(f))
       /\ WF_vars(MarkSent(f))
       /\ WF_vars(NoteFailure(f))
  /\ WF_vars(StartBot)
  /\ WF_vars(ReadNew)
  /\ \A e \in Rows :
       /\ SF_vars(\E S \in SUBSET pending :
                    (\E i \in S : stream[i] = e) /\ Reclaim(S))
       /\ SF_vars(SendWhatsApp /\ stream[Entry] = e)
       /\ SF_vars(NotifyTelegram /\ stream[Entry] = e)
  /\ WF_vars(Ack)

FairSpec == Spec /\ Fairness

-----------------------------------------------------------------------------
(* Properties *)

\* Entries the group delivered and the bot acknowledged.
Acked == (groupStart + 1 .. last) \ pending
Closed(e) == groupStart # NoGroup /\ \E i \in Acked : stream[i] = e

\* The customer has the voucher, an admin knows of the sale.
Served(e) == e \in notified /\ (e \in WithPhone => e \in whatsapp)

Stage == [e \in Rows |->
            IF row[e] = "none" THEN "none"
            ELSE IF Closed(e) THEN "closed"
            ELSE IF Served(e) THEN "dealt" ELSE "held"]

Delivery == INSTANCE EventDelivery WITH Event <- Rows, stage <- Stage

\* The outbox, the stream and the group together keep the promise of
\* EventDelivery: an entry leaves the group only after both messages were
\* sent; a handler that failed half way, a crash between the two or a lost
\* XACK leave it pending, and what was served stays so.
DeliveryPromise == Delivery!Spec

\* Once the bot's group exists on the empty stream, every committed event
\* is delivered, unless the consumer thread has ended.
EventuallyDelivered ==
  \A e \in Rows :
    (row[e] # "none" /\ groupStart = 0) ~> (Served(e) \/ bot.pc = "dead")
=============================================================================
