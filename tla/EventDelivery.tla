---------------------------- MODULE EventDelivery ----------------------------
(***************************************************************************)
(* What a transactional outbox, its relay, a Redis stream and a consumer   *)
(* group promise together for every event: once the transaction that       *)
(* writes it commits it is held; it is closed only after it has been       *)
(* dealt with at least once; nothing takes it back.                        *)
(***************************************************************************)

CONSTANT Event

VARIABLE stage

TypeOK == stage \in [Event -> {"none", "held", "dealt", "closed"}]

Init == stage = [e \in Event |-> "none"]

Advance(e, from, to) == /\ stage[e] = from
                        /\ stage' = [stage EXCEPT ![e] = to]

\* The transaction of the producer commits.
Accept(e) == Advance(e, "none", "held")

\* The consumer has done for the event what it is there for, or has put it
\* aside for the operator.  It may do so again, which changes nothing here.
Deal(e) == Advance(e, "held", "dealt")

\* The consumer group acknowledges the event.
Close(e) == Advance(e, "dealt", "closed")

Next == \E e \in Event : Accept(e) \/ Deal(e) \/ Close(e)

Spec == Init /\ [][Next]_stage
=============================================================================
