-------------------------- MODULE MCEventConsumer --------------------------
(***************************************************************************)
(* EventConsumer with names of its own, so that it can stand beside the    *)
(* outbox, and its small instance for TLC.                                 *)
(***************************************************************************)
EXTENDS Naturals

CONSTANTS
  Subs, Msgs, EventOf, Bad, Tasks, MaxRedeliver, NoEvent,    \* of EventConsumer
  ConsumerEvents, MaxConsumerFaults                          \* its Events and MaxFaults

VARIABLES box, redel, task, ledger, effects, gaps, dtopic, drows, consumerFaults

Consumer == INSTANCE EventConsumer
              WITH Events <- ConsumerEvents, MaxFaults <- MaxConsumerFaults, faults <- consumerFaults

ConsumerConstants ==
  /\ EventOf \in [Msgs -> ConsumerEvents \cup {NoEvent}] /\ Bad \subseteq Msgs /\ NoEvent \notin ConsumerEvents
  /\ MaxRedeliver \in Nat /\ MaxConsumerFaults \in Nat

ASSUME ConsumerAssumption == ConsumerConstants

ConsumerSpec == Consumer!FairSpec

\* The dispatch keeps its promises together: serialised, accounted for, and
\* nothing lost (_dispatch_with_dedup, _handle_message, the DLQ worker).
ConsumerSound == Consumer!ConsumerSound

\* Every published copy ends acknowledged or stored for an operator, also
\* when coroutines time out and the worker crashes (_handle_message).
CopiesSettled == Consumer!CopiesSettled

----------------------------------------------------------------------------
(* The small instance *)

\* One message has no event id.
OneDirect ==
  LET direct == CHOOSE m \in Msgs : TRUE
      event == CHOOSE e \in ConsumerEvents : TRUE
  IN  [m \in Msgs |-> IF m = direct THEN NoEvent ELSE event]

=============================================================================
