---------------------------- MODULE EventDelivery ----------------------------
(***************************************************************************)
(* What the outbox promises about one event, whatever tables, claims and   *)
(* leases implement it: a queued event is either delivered to the broker   *)
(* or handed to an operator, and only an operator queues it again.         *)
(***************************************************************************)
CONSTANT Events

VARIABLE phase   \* "absent", "queued", "delivered" or "failed" per event

Init == phase = [e \in Events |-> "absent"]

Move(e, from, to) ==
  /\ phase[e] \in from
  /\ phase' = [phase EXCEPT ![e] = to]

Submit(e) == Move(e, {"absent"}, "queued")
Deliver(e) == Move(e, {"queued"}, "delivered")
GiveUp(e) == Move(e, {"queued"}, "failed")
Resubmit(e) == Move(e, {"delivered", "failed"}, "queued")

Next == \E e \in Events : Submit(e) \/ Deliver(e) \/ GiveUp(e) \/ Resubmit(e)

Spec == Init /\ [][Next]_phase
=============================================================================
