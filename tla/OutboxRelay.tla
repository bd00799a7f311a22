----------------------------- MODULE OutboxRelay -----------------------------
(***************************************************************************)
(* The transactional outbox and its relay: enqueue_outbox writes an event  *)
(* in the business transaction, replicas of run_outbox_loop claim rows,    *)
(* publish them to the message bus and record the outcome, and operators   *)
(* replay failed events or requeue dead letters.                           *)
(*                                                                         *)
(* A row of outbox_events keeps its identity through its whole life:       *)
(*   pending -> published -> archived     (row moved to outbox_archived)   *)
(*   pending -> folded -> replayed        (row moved to event_failures,    *)
(*                                         replayed_at set)                *)
(* so a failure record is named by the row it was folded from.  Row ids    *)
(* are allocated in creation order.                                        *)
(*                                                                         *)
(* Time is abstracted to flags: a pending row is due or still backing off, *)
(* a claim is fresh or stale.  A claim token (a new uuid per claim) is     *)
(* represented by the replica that wrote it: a replica works on one claim  *)
(* at a time, and forgets it before it makes another; the same holds for   *)
(* the token of the leader lease.                                          *)
(***************************************************************************)
EXTENDS Integers, FiniteSets

CONSTANTS
  Replicas,    \* processes running run_outbox_loop
  Operators,   \* administrators using the replay and requeue endpoints
  Events,      \* event ids
  Poison,      \* events whose payload is permanently unpublishable
  Direct,      \* ids given to dead letters of messages that carry no event_id
  Letters,     \* ids of dlq_messages rows
  NumRows,     \* bound: rows of outbox_events ever created
  MAX_TRIES,   \* attempts before a row is folded (5 in the code)
  MaxFaults,   \* bound: crashes, stalls and Redis errors
  UseLease,    \* FALSE: no Redis configured, every replica polls
  NoOne        \* the null value of an owner, a lease or a target

RowIds == 1..NumRows

ASSUME NumRowsAssumption == NumRows \in Nat
ASSUME ReplicasAssumption == IsFiniteSet(Replicas)
ASSUME TriesAssumption == MAX_TRIES \in Nat \ {0}
ASSUME FaultsAssumption == MaxFaults \in Nat
ASSUME LeaseAssumption == UseLease \in BOOLEAN
ASSUME EventsAssumption ==
  Events # {} /\ Poison \subseteq Events /\ Direct \subseteq Events
ASSUME NoOneAssumption ==
  /\ NoOne \notin Replicas
  /\ NoOne \notin Letters
  /\ NoOne \notin RowIds
ASSUME LettersAssumption == Letters \cap RowIds = {}

VARIABLES
  keys,     \* outbox_event_keys, committed
  nrows,    \* rows created so far
  rows,     \* outbox_events, outbox_archived and event_failures
  copies,   \* messages of a row that the broker has accepted
  late,     \* sends of a row that still run after their caller timed out
  pc,       \* where a replica is in run_outbox_loop / relay_poll
  hand,     \* the row a replica has claimed
  answer,   \* outcome of the replica's publish attempt
  lease,    \* value of the Redis leader key
  token,    \* the replica believes it holds the lease
  lost,     \* the heartbeat of this poll failed to renew
  letters,  \* dlq_messages
  apc,      \* where an operator's transaction is
  target,   \* the failure (a row) or the dead letter it works on
  owed,     \* events whose requeue was confirmed and not yet accepted again
  faults    \* faults so far

relayVars == <<pc, hand, answer, token, lost>>
adminVars == <<apc, target>>
vars == <<keys, nrows, rows, copies, late, pc, hand, answer, lease, token,
          lost, letters, apc, target, owed, faults>>

-----------------------------------------------------------------------------
(* Data *)

RowStates == {"none", "pending", "published", "archived", "folded", "replayed"}
Row == [event: Events, st: RowStates, attempts: 0..MAX_TRIES, due: BOOLEAN,
        owner: Replicas \cup {NoOne}, stale: BOOLEAN, valid: BOOLEAN]

Polling == {"poll", "claimed", "sending", "acked", "answered", "tail"}
Working == {"claimed", "sending", "acked", "answered"}
KeyHeld == {"fresh", "dup", "confirm"}

Letter == [event: Events, st: {"none", "pending", "requeued", "discarded"}]

TypeOK ==
  /\ keys \subseteq Events
  /\ nrows \in 0..NumRows
  /\ rows \in [RowIds -> Row]
  /\ copies \in [RowIds -> Nat]
  /\ late \in [RowIds -> Nat]
  /\ pc \in [Replicas -> {"down", "idle"} \cup Polling]
  /\ hand \in [Replicas -> RowIds \cup {NoOne}]
  /\ answer \in [Replicas -> {"none", "ok", "fail", "permanent"}]
  /\ lease \in Replicas \cup {NoOne}
  /\ token \in [Replicas -> BOOLEAN]
  /\ lost \in [Replicas -> BOOLEAN]
  /\ letters \in [Letters -> Letter]
  /\ apc \in [Operators -> {"idle", "locked"} \cup KeyHeld]
  /\ target \in [Operators -> RowIds \cup Letters \cup {NoOne}]
  /\ owed \subseteq Events
  /\ faults \in 0..MaxFaults

\* OutboxMessage as enqueue_outbox adds it: pending, untried, due at once.
NewRow(e, ok) == [event |-> e, st |-> "pending", attempts |-> 0, due |-> TRUE,
                  owner |-> NoOne, stale |-> FALSE, valid |-> ok]

\* The writes to one row: locked_at and locked_by, next_retry_at, status.
Claimed(row, r) == [row EXCEPT !.owner = r, !.stale = FALSE]
Unclaimed(row) == [row EXCEPT !.owner = NoOne, !.stale = FALSE]   \* _clear_lock
Aged(row) == [row EXCEPT !.stale = TRUE]
Due(row) == [row EXCEPT !.due = TRUE]
Archived(row) == [row EXCEPT !.st = "archived"]
Replayed(row) == [row EXCEPT !.st = "replayed"]

AnyEvent == CHOOSE e \in Events : TRUE   \* fills unused rows and letters

EventExists(e) == \E m \in RowIds : rows[m].st # "none" /\ rows[m].event = e
ActiveRow(e) == \E m \in RowIds : rows[m].st = "pending" /\ rows[m].event = e

\* Faulty variants: the claim of another replica ignored; stale claims kept.
ClaimableTaken(m) == rows[m].st = "pending" /\ rows[m].due
ClaimableOnce(m) == ClaimableTaken(m) /\ rows[m].owner = NoOne

\* _claimable: pending, due, and not under a fresh claim.
Claimable(m) ==
  /\ rows[m].st = "pending"
  /\ rows[m].due
  /\ rows[m].owner = NoOne \/ rows[m].stale

\* ORDER BY attempt_count, id LIMIT 1; ids of one microsecond are unordered.
NextToClaim(m) ==
  /\ Claimable(m)
  /\ \A n \in RowIds : Claimable(n) => rows[m].attempts <= rows[n].attempts

Fault == faults < MaxFaults /\ faults' = faults + 1

Init ==
  /\ keys = {}
  /\ nrows = 0
  /\ rows = [m \in RowIds |-> [NewRow(AnyEvent, TRUE) EXCEPT !.st = "none"]]
  /\ copies = [m \in RowIds |-> 0]
  /\ late = [m \in RowIds |-> 0]
  /\ pc = [r \in Replicas |-> "idle"]
  /\ hand = [r \in Replicas |-> NoOne]
  /\ answer = [r \in Replicas |-> "none"]
  /\ lease = NoOne
  /\ token = [r \in Replicas |-> FALSE]
  /\ lost = [r \in Replicas |-> FALSE]
  /\ letters = [d \in Letters |-> [event |-> AnyEvent, st |-> "none"]]
  /\ apc = [a \in Operators |-> "idle"]
  /\ target = [a \in Operators |-> NoOne]
  /\ owed = {}
  /\ faults = 0

-----------------------------------------------------------------------------
(* The business side *)

TargetEvent(t) == IF t \in Letters THEN letters[t].event ELSE rows[t].event
KeyLocked(e) == \E a \in Operators : apc[a] \in KeyHeld /\ TargetEvent(target[a]) = e

\* A business transaction that called enqueue_outbox commits.  The unique key
\* makes it wait for a transaction holding the same key and then give up.
Enqueue(e) ==
  /\ e \notin keys \cup Direct
  /\ ~KeyLocked(e)
  /\ ~EventExists(e)
  /\ nrows < NumRows
  /\ keys' = keys \cup {e}
  /\ nrows' = nrows + 1
  /\ rows' = [rows EXCEPT ![nrows + 1] = NewRow(e, e \notin Poison)]
  /\ UNCHANGED <<copies, late, relayVars, lease, letters, adminVars, owed, faults>>

-----------------------------------------------------------------------------
(* The leader lease and the outer loop of a replica *)

Unchanged_DB == UNCHANGED <<keys, nrows, rows, copies, late, letters, adminVars, owed>>

\* _acquire_lease: SET NX EX; the reply may be lost after Redis applied it.
Acquire(r) ==
  /\ UseLease /\ pc[r] = "idle" /\ ~token[r]
  /\ lease = NoOne
  /\ lease' = r
  /\ \/ token' = [token EXCEPT ![r] = TRUE] /\ UNCHANGED faults
     \/ Fault /\ UNCHANGED token
  /\ UNCHANGED <<pc, hand, answer, lost>>
  /\ Unchanged_DB

\* The loop renews before every poll; with no Redis configured it just polls.
StartPoll(r) ==
  /\ pc[r] = "idle"
  /\ UseLease => token[r] /\ lease = r
  /\ pc' = [pc EXCEPT ![r] = "poll"]
  /\ lost' = [lost EXCEPT ![r] = FALSE]
  /\ UNCHANGED <<hand, answer, token, lease, faults>>
  /\ Unchanged_DB

\* The renewal found another token, no token, or failed: back to follower.
\* Redis unreachable (get_redis returns None) drops the token as well.
RenewFails(r) ==
  /\ pc[r] = "idle" /\ token[r]
  /\ \/ lease # r /\ UNCHANGED faults
     \/ lease = r /\ Fault
  /\ token' = [token EXCEPT ![r] = FALSE]
  /\ UNCHANGED <<pc, hand, answer, lost, lease>>
  /\ Unchanged_DB

\* _heartbeat of a running poll: a failed renewal only sets the lost flag.
HeartbeatFails(r) ==
  /\ pc[r] \in Polling /\ token[r] /\ ~lost[r]
  /\ \/ lease # r /\ UNCHANGED faults
     \/ lease = r /\ Fault
  /\ lost' = [lost EXCEPT ![r] = TRUE]
  /\ UNCHANGED <<pc, hand, answer, token, lease>>
  /\ Unchanged_DB

\* The lease TTL runs out: expected when nobody renews, a stall otherwise.
LeaseExpires ==
  /\ lease # NoOne
  /\ IF token[lease] THEN Fault ELSE UNCHANGED faults
  /\ lease' = NoOne
  /\ UNCHANGED relayVars
  /\ Unchanged_DB

-----------------------------------------------------------------------------
(* relay_poll *)

\* Claim one row: FOR UPDATE SKIP LOCKED, write locked_at and locked_by, commit.
Claim(r) ==
  /\ pc[r] = "poll" /\ ~lost[r]
  /\ \E m \in RowIds :
       /\ NextToClaim(m)
       /\ rows' = [rows EXCEPT ![m] = Claimed(@, r)]
       /\ hand' = [hand EXCEPT ![r] = m]
  /\ pc' = [pc EXCEPT ![r] = "claimed"]
  /\ UNCHANGED <<keys, nrows, copies, late, answer, lease, token, lost, letters,
                 adminVars, owed, faults>>

\* Nothing to claim, or the lease is gone: the poll ends.
EndPoll(r) ==
  /\ pc[r] = "poll"
  /\ lost[r] \/ \A m \in RowIds : ~Claimable(m)
  /\ pc' = [pc EXCEPT ![r] = "tail"]
  /\ UNCHANGED <<hand, answer, token, lost, lease, faults>>
  /\ Unchanged_DB

\* The lease was lost after the claim: give the row back if it is still ours.
Abandon(r) ==
  /\ pc[r] = "claimed" /\ lost[r]
  /\ rows' = IF rows[hand[r]].owner = r
             THEN [rows EXCEPT ![hand[r]] = Unclaimed(@)]
             ELSE rows
  /\ pc' = [pc EXCEPT ![r] = "tail"]
  /\ hand' = [hand EXCEPT ![r] = NoOne]
  /\ UNCHANGED <<keys, nrows, copies, late, answer, lease, token, lost, letters,
                 adminVars, owed, faults>>

\* permanent_failure_reason decides whether the payload is sent at all.
Dispatch(r) ==
  /\ pc[r] = "claimed" /\ ~lost[r]
  /\ IF rows[hand[r]].valid
     THEN pc' = [pc EXCEPT ![r] = "sending"] /\ UNCHANGED answer
     ELSE /\ pc' = [pc EXCEPT ![r] = "answered"]
          /\ answer' = [answer EXCEPT ![r] = "permanent"]
  /\ UNCHANGED <<hand, token, lost, lease, faults>>
  /\ Unchanged_DB

Accept(m) ==
  /\ copies' = [copies EXCEPT ![m] = @ + 1]
  /\ owed' = owed \ {rows[m].event}

\* The broker stores the message; the sender does not know yet.
BrokerAccepts(r) ==
  /\ pc[r] = "sending"
  /\ Accept(hand[r])
  /\ pc' = [pc EXCEPT ![r] = "acked"]
  /\ UNCHANGED <<keys, nrows, rows, late, hand, answer, lease, token, lost,
                 letters, adminVars, faults>>

\* Faulty variant: a send that timed out is taken for a success.
PublishReturnsOk(r) ==
  /\ pc[r] \in {"sending", "acked"}
  /\ answer' = [answer EXCEPT ![r] = "ok"]
  /\ pc' = [pc EXCEPT ![r] = "answered"]
  /\ UNCHANGED <<keys, nrows, rows, copies, late, hand, lease, token, lost,
                 letters, adminVars, owed, faults>>

\* publish returns, raises or times out.  A send that timed out keeps running
\* in its thread and may still reach the broker.
PublishReturns(r) ==
  /\ \/ /\ pc[r] = "acked"
        /\ \E a \in {"ok", "fail"} : answer' = [answer EXCEPT ![r] = a]
        /\ UNCHANGED late
     \/ /\ pc[r] = "sending"
        /\ answer' = [answer EXCEPT ![r] = "fail"]
        /\ \/ UNCHANGED late
           \/ late' = [late EXCEPT ![hand[r]] = @ + 1]
  /\ pc' = [pc EXCEPT ![r] = "answered"]
  /\ UNCHANGED <<keys, nrows, rows, copies, hand, lease, token, lost, letters,
                 adminVars, owed, faults>>

LateArrives(m) ==
  /\ late[m] > 0
  /\ late' = [late EXCEPT ![m] = @ - 1]
  /\ \/ Accept(m)
     \/ UNCHANGED <<copies, owed>>
  /\ UNCHANGED <<keys, nrows, rows, relayVars, lease, letters, adminVars, faults>>

\* Faulty variant of Settled: the limit is one too low.
SettledEarly(row, ans) ==
  LET tried == row.attempts + 1
      free == [Unclaimed(row) EXCEPT !.attempts = IF ans = "fail" THEN tried ELSE @]
  IN  [free EXCEPT !.st = CASE ans = "permanent" -> "folded"
                            [] ans = "ok" -> "published"
                            [] OTHER -> IF tried >= MAX_TRIES - 1 THEN "folded" ELSE @,
                   !.due = ans # "fail"]

\* What the fenced transaction writes for a claim that is still ours.
Settled(row, ans) ==
  LET free == Unclaimed(row)
  IN  CASE ans = "permanent" -> [free EXCEPT !.st = "folded"]
        [] ans = "ok" -> [free EXCEPT !.st = "published"]
        [] OTHER ->
             IF row.attempts + 1 >= MAX_TRIES
             THEN [free EXCEPT !.attempts = @ + 1, !.st = "folded"]
             ELSE [free EXCEPT !.attempts = @ + 1, !.due = FALSE]

\* Faulty variant: the row exists, whoever claims it now.
StillThere(r) == rows[hand[r]].st \in {"pending", "published"}

\* Only the current claimant of a row that still exists may settle it.
StillOwned(r) == rows[hand[r]].st \in {"pending", "published"} /\ rows[hand[r]].owner = r

\* The rest of one iteration; the poll goes on or its batch is used up.
Finish(r) ==
  /\ pc[r] = "answered"
  /\ rows' = IF StillOwned(r)
             THEN [rows EXCEPT ![hand[r]] = Settled(@, answer[r])]
             ELSE rows
  /\ \E next \in {"poll", "tail"} : pc' = [pc EXCEPT ![r] = next]
  /\ hand' = [hand EXCEPT ![r] = NoOne]
  /\ answer' = [answer EXCEPT ![r] = "none"]
  /\ UNCHANGED <<keys, nrows, copies, late, lease, token, lost, letters,
                 adminVars, owed, faults>>

\* _poll_tick after relay_poll: archive_published moves rows past their
\* retention; a lost lease drops the token and skips the archive.
Tail(r) ==
  /\ pc[r] = "tail"
  /\ IF lost[r]
     THEN UNCHANGED rows
     ELSE \E S \in SUBSET {m \in RowIds : rows[m].st = "published"} :
            rows' = [m \in RowIds |->
                       IF m \in S THEN Archived(rows[m]) ELSE rows[m]]
  /\ token' = [token EXCEPT ![r] = @ /\ ~lost[r]]
  /\ pc' = [pc EXCEPT ![r] = "idle"]
  /\ UNCHANGED <<keys, nrows, copies, late, hand, answer, lease, lost, letters,
                 adminVars, owed, faults>>

\* relay_poll raises (a database error): the claim stays behind.
PollRaises(r) ==
  /\ pc[r] \in Working \cup {"poll"}
  /\ Fault
  /\ pc' = [pc EXCEPT ![r] = "tail"]
  /\ hand' = [hand EXCEPT ![r] = NoOne]
  /\ answer' = [answer EXCEPT ![r] = "none"]
  /\ UNCHANGED <<lease, token, lost>>
  /\ Unchanged_DB

\* The process dies; an orderly shutdown also releases a lease it still holds.
Crash(r) ==
  /\ pc[r] # "down"
  /\ Fault
  /\ \/ UNCHANGED lease
     \/ token[r] /\ lease = r /\ lease' = NoOne
  /\ pc' = [pc EXCEPT ![r] = "down"]
  /\ hand' = [hand EXCEPT ![r] = NoOne]
  /\ answer' = [answer EXCEPT ![r] = "none"]
  /\ token' = [token EXCEPT ![r] = FALSE]
  /\ lost' = [lost EXCEPT ![r] = FALSE]
  /\ Unchanged_DB

Restart(r) ==
  /\ pc[r] = "down"
  /\ pc' = [pc EXCEPT ![r] = "idle"]
  /\ UNCHANGED <<hand, answer, token, lost, lease, faults>>
  /\ Unchanged_DB

-----------------------------------------------------------------------------
(* Time *)

BackoffElapses(m) ==
  /\ rows[m].st = "pending" /\ ~rows[m].due
  /\ rows' = [rows EXCEPT ![m] = Due(@)]
  /\ UNCHANGED <<keys, nrows, copies, late, relayVars, lease, letters, adminVars,
                 owed, faults>>

\* locked_at passes the stale threshold: expected when the claimant is gone,
\* a stall of the claimant otherwise (publish times out well before).
ClaimExpires(m) ==
  /\ rows[m].st = "pending" /\ rows[m].owner # NoOne /\ ~rows[m].stale
  /\ IF pc[rows[m].owner] \in Working /\ hand[rows[m].owner] = m
     THEN Fault ELSE UNCHANGED faults
  /\ rows' = [rows EXCEPT ![m] = Aged(@)]
  /\ UNCHANGED <<keys, nrows, copies, late, relayVars, lease, letters, adminVars, owed>>

-----------------------------------------------------------------------------
(* Operators: replay_failure and worker_dlq.requeue *)

\* A dead letter is persisted: of a message the broker accepted, or of a
\* message published without the outbox (its letter id becomes the event id).
DeadLetter(d, e) ==
  /\ letters[d].st = "none"
  /\ \/ \E m \in RowIds : rows[m].event = e /\ copies[m] > 0
     \/ e \in Direct /\ \A x \in Letters : letters[x].event = e => letters[x].st = "none"
  /\ letters' = [letters EXCEPT ![d] = [event |-> e, st |-> "pending"]]
  /\ UNCHANGED <<keys, nrows, rows, copies, late, relayVars, lease, adminVars, owed, faults>>

\* requeue_dlq and replay_event_failure refuse a row that is not there or
\* was dealt with.
Replayable(t) ==
  IF t \in Letters THEN letters[t].st = "pending" ELSE rows[t].st = "folded"

\* SELECT ... FOR UPDATE on the failure or the dead letter.
LockTarget(a, t) ==
  /\ apc[a] = "idle"
  /\ \A b \in Operators : target[b] # t
  /\ Replayable(t)
  /\ apc' = [apc EXCEPT ![a] = "locked"]
  /\ target' = [target EXCEPT ![a] = t]
  /\ UNCHANGED <<keys, nrows, rows, copies, late, relayVars, lease, letters, owed, faults>>

\* Faulty variant: the pending row is looked for without the key lock.
LookUnlocked(a) ==
  /\ apc[a] = "locked"
  /\ apc' = [apc EXCEPT ![a] = IF ActiveRow(TargetEvent(target[a])) THEN "dup" ELSE "fresh"]
  /\ UNCHANGED <<keys, nrows, rows, copies, late, relayVars, lease, letters,
                 target, owed, faults>>

\* enqueue_outbox(replay=True): lock the event key, then look for a pending row.
LockKey(a) ==
  /\ apc[a] = "locked"
  /\ ~KeyLocked(TargetEvent(target[a]))
  /\ apc' = [apc EXCEPT ![a] = IF ActiveRow(TargetEvent(target[a])) THEN "dup" ELSE "fresh"]
  /\ UNCHANGED <<keys, nrows, rows, copies, late, relayVars, lease, letters,
                 target, owed, faults>>

\* The row was already queued: the caller looks again and marks its target
\* only if the row is still pending, else the request is rolled back.
Recheck(a) ==
  /\ apc[a] = "dup"
  /\ IF ActiveRow(TargetEvent(target[a]))
     THEN apc' = [apc EXCEPT ![a] = "confirm"] /\ UNCHANGED target
     ELSE apc' = [apc EXCEPT ![a] = "idle"] /\ target' = [target EXCEPT ![a] = NoOne]
  /\ UNCHANGED <<keys, nrows, rows, copies, late, relayVars, lease, letters, owed, faults>>

\* rows with the failure of target t marked replayed
MarkReplayed(t, rs) == IF t \in Letters THEN rs ELSE [rs EXCEPT ![t] = Replayed(@)]

\* The operator's transaction commits: the new row (unless one was pending),
\* the key and the mark on the target appear together.
CommitReplay(a) ==
  LET t == target[a]
      e == TargetEvent(t)
  IN  /\ \/ /\ apc[a] = "fresh"
            /\ nrows < NumRows
            /\ nrows' = nrows + 1
            /\ rows' = [MarkReplayed(t, rows) EXCEPT ![nrows + 1] = NewRow(e, TRUE)]
         \/ /\ apc[a] = "confirm"
            /\ nrows' = nrows
            /\ rows' = MarkReplayed(t, rows)
      /\ keys' = keys \cup {e}
      /\ letters' = IF t \in Letters THEN [letters EXCEPT ![t].st = "requeued"] ELSE letters
      /\ owed' = IF t \in Letters THEN owed \cup {e} ELSE owed
      /\ apc' = [apc EXCEPT ![a] = "idle"]
      /\ target' = [target EXCEPT ![a] = NoOne]
      /\ UNCHANGED <<copies, late, relayVars, lease, faults>>

\* The request fails or the process dies: the transaction rolls back.
AbortReplay(a) ==
  /\ apc[a] # "idle"
  /\ apc' = [apc EXCEPT ![a] = "idle"]
  /\ target' = [target EXCEPT ![a] = NoOne]
  /\ UNCHANGED <<keys, nrows, rows, copies, late, relayVars, lease, letters, owed, faults>>

\* discard_dlq: a pending dead letter nobody is requeueing is dropped for good.
Discard(d) ==
  /\ letters[d].st = "pending"
  /\ \A a \in Operators : target[a] # d
  /\ letters' = [letters EXCEPT ![d].st = "discarded"]
  /\ UNCHANGED <<keys, nrows, rows, copies, late, relayVars, lease, adminVars, owed, faults>>

-----------------------------------------------------------------------------
Lead(r) == Acquire(r) \/ StartPoll(r) \/ RenewFails(r) \/ HeartbeatFails(r)
Relay(r) == \/ Claim(r) \/ EndPoll(r) \/ Abandon(r) \/ Dispatch(r)
            \/ BrokerAccepts(r) \/ PublishReturns(r) \/ Finish(r) \/ Tail(r)
Failure(r) == PollRaises(r) \/ Crash(r) \/ Restart(r)
Timer(m) == BackoffElapses(m) \/ ClaimExpires(m) \/ LateArrives(m)
Operate(a) == \/ \E t \in RowIds \cup Letters : LockTarget(a, t)
              \/ LockKey(a) \/ Recheck(a) \/ CommitReplay(a) \/ AbortReplay(a)

Next ==
  \/ \E e \in Events : Enqueue(e)
  \/ \E r \in Replicas : Lead(r) \/ Relay(r) \/ Failure(r)
  \/ LeaseExpires
  \/ \E m \in RowIds : Timer(m)
  \/ \E d \in Letters : Discard(d) \/ \E e \in Events : DeadLetter(d, e)
  \/ \E a \in Operators : Operate(a)

Spec == Init /\ [][Next]_vars

\* The loops of a live replica keep running, timers fire, a dead replica is
\* restarted by its supervisor.  Operators and the business owe nothing.
Fairness ==
  /\ \A r \in Replicas : /\ WF_vars(Lead(r)) /\ WF_vars(Relay(r))
                         /\ WF_vars(Restart(r))
  /\ \A m \in RowIds : WF_vars(BackoffElapses(m)) /\ WF_vars(ClaimExpires(m))
  /\ WF_vars(LeaseExpires)

FairSpec == Spec /\ Fairness

-----------------------------------------------------------------------------
(* Properties *)

Created(m) == rows[m].st # "none"
Newest(m) == \A n \in RowIds : Created(n) /\ rows[n].event = rows[m].event => n <= m

\* No event is dropped: whatever crashed, expired or was replayed twice, the
\* newest row of an event still waits for the relay, was accepted by the
\* broker, or waits in event_failures for an operator (relay_poll's fold and
\* replay_failure's mark never leave an event with nobody in charge of it).
NoEventDropped ==
  \A m \in RowIds :
    Created(m) /\ Newest(m) =>
      \/ rows[m].st \in {"pending", "folded"}
      \/ rows[m].st \in {"published", "archived"} /\ copies[m] > 0

\* Concurrent replays and requeues of one event queue it once: the lock on
\* outbox_event_keys covers the check for a pending row and the insert.
OnePendingRow ==
  \A m, n \in RowIds :
    rows[m].st = "pending" /\ rows[n].st = "pending" /\ rows[m].event = rows[n].event
      => m = n

\* A claimant that lost its claim never rewrites a settled row: published,
\* archived and folded rows keep their outcome (the locked_by fence of
\* relay_poll), and a failure leaves event_failures' queue only by replay.
SettledRowsStay ==
  [][\A m \in RowIds :
       /\ rows[m].st = "published" => rows'[m].st \in {"published", "archived"}
       /\ rows[m].st = "archived" => rows'[m].st = "archived"
       /\ rows[m].st = "folded" => rows'[m].st \in {"folded", "replayed"}
       /\ rows[m].st \in {"published", "archived", "folded", "replayed"}
            => rows'[m].attempts = rows[m].attempts]_vars

\* Duplicates are bounded: every copy beyond one per recorded attempt is the
\* price of a crash, a stall or an error, never of ordinary competition
\* between replicas for claims and for the lease.
CopiesBounded ==
  \A m \in RowIds :
    copies[m] + late[m] <= rows[m].attempts + 1 + faults

\* event_failures tells its two kinds apart: a folded row was either tried
\* MAX_TRIES times or is permanently unpublishable, and such a payload never
\* reached the broker.
FoldedForAReason ==
  \A m \in RowIds :
    /\ rows[m].st \in {"folded", "replayed"} /\ rows[m].valid => rows[m].attempts = MAX_TRIES
    /\ ~rows[m].valid => copies[m] = 0 /\ late[m] = 0

\* A dead letter marked requeued is sent again: until the broker has accepted
\* a new copy, some row of its event is waiting for the relay or an operator.
RequeueRedelivers ==
  \A e \in owed : \E m \in RowIds :
    rows[m].event = e /\ rows[m].st \in {"pending", "folded"}

\* The outbox tables read as the promise of EventDelivery: an event is in the
\* phase of its newest row.
PhaseOf(e) ==
  IF ActiveRow(e) THEN "queued"
  ELSE IF \E m \in RowIds : /\ rows[m].event = e /\ Newest(m)
                            /\ rows[m].st \in {"published", "archived"}
  THEN "delivered"
  ELSE IF EventExists(e) THEN "failed" ELSE "absent"

Delivery == INSTANCE EventDelivery WITH phase <- [e \in Events |-> PhaseOf(e)]

\* Every step of relay, timers and operators is a step of that promise: no
\* interleaving takes a delivered event back to failed, settles an event that
\* was not queued, or moves two events at once.
DeliveryRefined == Delivery!Spec

\* Every queued row is settled, published or folded, once faults stop.
EventuallySettled ==
  \A m \in RowIds : rows[m].st = "pending" ~> rows[m].st # "pending"

\* Rows are settled in the end, and once (relay_poll).
RowsSettle == SettledRowsStay /\ EventuallySettled
=============================================================================
