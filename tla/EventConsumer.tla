---------------------------- MODULE EventConsumer ----------------------------
(***************************************************************************)
(* The consuming side of the bus: every subscription of a topic gets its   *)
(* own copy of a message; a worker bridges it to a coroutine that runs     *)
(* _dispatch_with_dedup, and acknowledges or rejects it.  A message that   *)
(* keeps failing moves to the dead-letter topic, which worker_dlq stores   *)
(* in dlq_messages.                                                        *)
(*                                                                         *)
(* A task is one running coroutine.  It is attached while the receive      *)
(* thread waits for it; after JOB_TIMEOUT_S the thread rejects the message *)
(* and cancels the coroutine, which goes on until the cancellation reaches *)
(* it.  The broker (delivery, redelivery counts, the dead-letter move) is  *)
(* external.                                                               *)
(***************************************************************************)
EXTENDS Integers, FiniteSets

CONSTANTS
  Subs,          \* subscriptions of the topic
  Events,        \* event ids
  Msgs,          \* messages published to the topic
  EventOf,       \* the event id each message carries, NoEvent for none
  Bad,           \* messages that break the contract or name no handler
  Tasks,         \* coroutines that may run at once
  MaxRedeliver,  \* pulsar_dlq_max_redeliver
  MaxFaults,     \* bound: crashes, lost acknowledgements, database errors
  NoEvent

VARIABLES
  box,      \* a message in the backlog of a subscription
  redel,    \* its redelivery count
  task,     \* where a coroutine is, on what, and whether it is waited for
  ledger,   \* event_processed: (scope, event) pairs
  effects,  \* committed runs of the handler
  gaps,     \* runs whose ledger entry was lost to an interruption
  dtopic,   \* the dead-letter topic and worker_dlq's progress
  drows,    \* dlq_messages rows of a dead letter
  faults

consumerVars == <<box, redel, task, ledger, effects, gaps, dtopic, drows, faults>>

Copies == Subs \X Msgs
Scopes == Subs \X Events

Running == {"start", "check", "handler", "record", "ok", "error"}
\* Between taking the advisory lock and the end of its transaction.
Locked == {"check", "handler", "record"}

AnyCopy == CHOOSE c \in Copies : TRUE

Task == [pc: Running \cup {"free"}, on: Copies \cup {AnyCopy}, attached: BOOLEAN]

TypeOK ==
  /\ box \in [Copies -> {"none", "ready", "held", "acked", "dead"}]
  /\ redel \in [Copies -> 0..MaxRedeliver]
  /\ task \in [Tasks -> Task] /\ \A t \in Tasks : task[t].pc # "free" => task[t].on \in Copies
  /\ ledger \subseteq Scopes
  /\ effects \in [Scopes -> Nat]
  /\ gaps \in [Scopes -> Nat]
  /\ dtopic \in [Copies -> {"none", "ready", "stored", "acked"}]
  /\ drows \in [Copies -> Nat]
  /\ faults \in 0..MaxFaults

Init ==
  /\ box = [c \in Copies |-> "none"]
  /\ redel = [c \in Copies |-> 0]
  /\ task = [t \in Tasks |-> [pc |-> "free", on |-> AnyCopy, attached |-> FALSE]]
  /\ ledger = {}
  /\ effects = [k \in Scopes |-> 0]
  /\ gaps = [k \in Scopes |-> 0]
  /\ dtopic = [c \in Copies |-> "none"]
  /\ drows = [c \in Copies |-> 0]
  /\ faults = 0

Fault == faults < MaxFaults /\ faults' = faults + 1

\* The (scope, event_id) a task works for.
HasEvent(t) == EventOf[task[t].on[2]] # NoEvent
ScopeOf(t) == <<task[t].on[1], EventOf[task[t].on[2]]>>

Go(t, where) == task' = [task EXCEPT ![t].pc = where]
Free(t) == task' = [task EXCEPT ![t] = [pc |-> "free", on |-> AnyCopy, attached |-> FALSE]]

-----------------------------------------------------------------------------
(* The broker *)

\* A message reaches the backlog of every subscription of its topic.
Publish(m) ==
  /\ \A s \in Subs : box[<<s, m>>] = "none"
  /\ box' = [c \in Copies |-> IF c[2] = m THEN "ready" ELSE box[c]]
  /\ UNCHANGED <<redel, task, ledger, effects, gaps, dtopic, drows, faults>>

\* A copy goes back to the backlog, or to the dead-letter topic at the limit.
GiveBack(c) ==
  IF redel[c] < MaxRedeliver
  THEN /\ box' = [box EXCEPT ![c] = "ready"]
       /\ redel' = [redel EXCEPT ![c] = @ + 1]
       /\ UNCHANGED dtopic
  ELSE /\ box' = [box EXCEPT ![c] = "dead"]
       /\ dtopic' = [dtopic EXCEPT ![c] = "ready"]
       /\ UNCHANGED redel

\* The connection of a consumer that no longer works on the copy is gone.
Redeliver(c) ==
  /\ box[c] = "held"
  /\ ~ \E t \in Tasks : task[t].pc # "free" /\ task[t].attached /\ task[t].on = c
  /\ GiveBack(c)
  /\ UNCHANGED <<task, ledger, effects, gaps, drows, faults>>

-----------------------------------------------------------------------------
(* _handle_message, _on_payload and _dispatch_with_dedup *)

\* Contract violations and unknown tasks raise before any dispatch.
Receive(t, c) ==
  /\ task[t].pc = "free"
  /\ box[c] = "ready"
  /\ box' = [box EXCEPT ![c] = "held"]
  /\ task' = [task EXCEPT ![t] = [pc |-> IF c[2] \in Bad THEN "error" ELSE "start",
                                  on |-> c, attached |-> TRUE]]
  /\ UNCHANGED <<redel, ledger, effects, gaps, dtopic, drows, faults>>

\* pg_advisory_xact_lock(scope:event_id) waits for the transaction holding it.
Lock(t) ==
  /\ task[t].pc = "start" /\ HasEvent(t)
  /\ ~ \E u \in Tasks : task[u].pc \in Locked /\ HasEvent(u) /\ ScopeOf(u) = ScopeOf(t)
  /\ Go(t, "check")
  /\ UNCHANGED <<box, redel, ledger, effects, gaps, dtopic, drows, faults>>

\* Faulty variant: the ledger is not consulted.
CheckNothing(t) ==
  /\ task[t].pc = "check"
  /\ Go(t, "handler")
  /\ UNCHANGED <<box, redel, ledger, effects, gaps, dtopic, drows, faults>>

\* already_processed: skip, releasing the lock, or run the handler.
Check(t) ==
  /\ task[t].pc = "check"
  /\ Go(t, IF ScopeOf(t) \in ledger THEN "ok" ELSE "handler")
  /\ UNCHANGED <<box, redel, ledger, effects, gaps, dtopic, drows, faults>>

\* A run of t's handler that leaves no ledger entry behind.
Gap(t) == gaps' = [gaps EXCEPT ![ScopeOf(t)] = @ + 1]

\* The handler commits its own transaction, or raises before or after it.
Handle(t) ==
  /\ task[t].pc = "handler"
  /\ \/ /\ effects' = [effects EXCEPT ![ScopeOf(t)] = @ + 1]
        /\ \/ Go(t, "record") /\ UNCHANGED gaps
           \/ Go(t, "error") /\ Gap(t)
     \/ Go(t, "error") /\ UNCHANGED <<effects, gaps>>
  /\ UNCHANGED <<box, redel, ledger, dtopic, drows, faults>>

\* A message without event_id runs its handler with no ledger and no lock.
HandleDirect(t) ==
  /\ task[t].pc = "start" /\ ~HasEvent(t)
  /\ \E where \in {"ok", "error"} : Go(t, where)
  /\ UNCHANGED <<box, redel, ledger, effects, gaps, dtopic, drows, faults>>

\* record_processed commits the ledger entry and with it frees the lock.
Record(t) ==
  /\ task[t].pc = "record"
  /\ \/ /\ ledger' = ledger \cup {ScopeOf(t)}
        /\ Go(t, "ok")
        /\ UNCHANGED <<gaps, faults>>
     \/ /\ Fault /\ Gap(t)
        /\ Go(t, "error")
        /\ UNCHANGED ledger
  /\ UNCHANGED <<box, redel, effects, dtopic, drows>>

\* The coroutine ends.  Its thread, if still waiting, acknowledges or rejects
\* the message; errors of either call are suppressed and the copy stays held.
Answer(t) ==
  /\ task[t].pc \in {"ok", "error"}
  /\ Free(t)
  /\ \/ /\ ~task[t].attached
        /\ UNCHANGED <<box, redel, dtopic, faults>>
     \/ /\ task[t].attached /\ task[t].pc = "ok"
        /\ box' = [box EXCEPT ![task[t].on] = "acked"]
        /\ UNCHANGED <<redel, dtopic, faults>>
     \/ /\ task[t].attached /\ task[t].pc = "error"
        /\ GiveBack(task[t].on)
        /\ UNCHANGED faults
     \/ /\ task[t].attached /\ Fault
        /\ UNCHANGED <<box, redel, dtopic>>
  /\ UNCHANGED <<ledger, effects, gaps, drows>>

\* future.result timed out: reject the message, cancel the coroutine.
Timeout(t) ==
  /\ task[t].pc \in Running \ {"ok", "error"} /\ task[t].attached
  /\ task' = [task EXCEPT ![t].attached = FALSE]
  /\ GiveBack(task[t].on)
  /\ UNCHANGED <<ledger, effects, gaps, drows, faults>>

\* The cancellation arrives, or the process dies: the transaction rolls back
\* and frees the lock.  A held copy is redelivered later.
Interrupt(t) ==
  /\ task[t].pc \in Running
  /\ IF task[t].attached THEN Fault ELSE UNCHANGED faults
  /\ IF task[t].pc = "record" THEN Gap(t) ELSE UNCHANGED gaps
  /\ Free(t)
  /\ UNCHANGED <<box, redel, ledger, effects, dtopic, drows>>

-----------------------------------------------------------------------------
(* worker_dlq *)

\* Faulty variant: a dead letter without event id is refused every time.
DlqPersistWithId(c) ==
  /\ dtopic[c] = "ready" /\ EventOf[c[2]] # NoEvent
  /\ drows' = [drows EXCEPT ![c] = IF @ = 0 THEN 1 ELSE @]
  /\ dtopic' = [dtopic EXCEPT ![c] = "stored"]
  /\ UNCHANGED <<box, redel, task, ledger, effects, gaps, faults>>

\* _persist: the unique source_message_id makes a second insert a no-op.
DlqPersist(c) ==
  /\ dtopic[c] = "ready"
  /\ drows' = [drows EXCEPT ![c] = IF @ = 0 THEN 1 ELSE @]
  /\ dtopic' = [dtopic EXCEPT ![c] = "stored"]
  /\ UNCHANGED <<box, redel, task, ledger, effects, gaps, faults>>

DlqAck(c) ==
  /\ dtopic[c] = "stored"
  /\ \/ dtopic' = [dtopic EXCEPT ![c] = "acked"] /\ UNCHANGED faults
     \/ dtopic' = [dtopic EXCEPT ![c] = "ready"] /\ Fault
  /\ UNCHANGED <<box, redel, task, ledger, effects, gaps, drows>>

-----------------------------------------------------------------------------
Step(t) == \/ Lock(t) \/ Check(t) \/ Handle(t) \/ HandleDirect(t) \/ Record(t)
           \/ Answer(t)
Dlq(c) == DlqPersist(c) \/ DlqAck(c)

Consume ==
  \/ \E t \in Tasks : \/ Step(t) \/ Timeout(t) \/ Interrupt(t)
                      \/ \E c \in Copies : Receive(t, c)
  \/ \E c \in Copies : Redeliver(c) \/ Dlq(c)

Next == Consume \/ \E m \in Msgs : Publish(m)

Spec == Init /\ [][Next]_consumerVars

\* The receive threads and the event loop keep running, the broker redelivers,
\* and a cancelled coroutine gets its cancellation.
Fairness ==
  /\ \A t \in Tasks : /\ WF_consumerVars(Step(t))
                      /\ WF_consumerVars(~task[t].attached /\ Interrupt(t))
  /\ \A c \in Copies : /\ WF_consumerVars(Redeliver(c)) /\ WF_consumerVars(Dlq(c))
                       /\ WF_consumerVars(\E t \in Tasks : Receive(t, c))

FairSpec == Spec /\ Fairness

-----------------------------------------------------------------------------
(* Properties *)

\* The handler never runs twice at once for one (subscription, event), not
\* even when a timed-out coroutine is still running while its message is
\* redelivered: the advisory lock outlives the rejection.
HandlersSerialised ==
  \A t, u \in Tasks :
    task[t].pc \in {"handler", "record"} /\ task[u].pc \in {"handler", "record"}
      /\ ScopeOf(t) = ScopeOf(u) => t = u

\* The ledger accounts for every committed run: one recorded (or about to be)
\* and one for every interruption between the handler's commit and the
\* ledger's.  Redelivery, duplicates and timeouts alone never repeat a run.
EffectsAccounted ==
  \A k \in Scopes :
    effects[k] = gaps[k] +
      (IF k \in ledger \/ \E t \in Tasks : task[t].pc = "record" /\ ScopeOf(t) = k THEN 1 ELSE 0)

\* No message disappears: an acknowledged copy was processed, any other is in
\* the backlog, in flight, in the dead-letter topic or exactly one row of
\* dlq_messages, also when a dead letter is redelivered after its commit.
NoMessageLost ==
  \A c \in Copies :
    /\ box[c] = "acked" /\ EventOf[c[2]] # NoEvent => <<c[1], EventOf[c[2]]>> \in ledger
    /\ box[c] = "dead" => dtopic[c] = "ready" \/ drows[c] = 1

\* The dispatch keeps its promises together: serialised, accounted for, and
\* nothing lost (_dispatch_with_dedup, _handle_message, the DLQ worker).
ConsumerSound == HandlersSerialised /\ EffectsAccounted /\ NoMessageLost

\* Every published copy ends acknowledged or stored for an operator.
CopiesSettled ==
  \A c \in Copies : box[c] # "none" ~> box[c] = "acked" \/ drows[c] = 1
=============================================================================
