------------------------- MODULE EventPipelineProofs -------------------------
(***************************************************************************)
(* The way of an event, for any number of processes, rows, messages,       *)
(* retries and faults: the outbox and its relay, and the consuming side of *)
(* the bus.                                                                *)
(***************************************************************************)
EXTENDS OutboxRelay, MCEventConsumer, FiniteSetTheorems, TLAPS


-----------------------------------------------------------------------------
(* The inductive invariant *)

\* What a replica knows about the row in its hand.
HandOK ==
  \A r \in Replicas :
    /\ pc[r] \in Working => hand[r] \in RowIds /\ Created(hand[r])
    /\ pc[r] \in {"sending", "acked"} => rows[hand[r]].valid
    /\ pc[r] = "acked" => copies[hand[r]] > 0
    /\ pc[r] = "answered" <=> answer[r] # "none"
    /\ answer[r] = "ok" => copies[hand[r]] > 0
    /\ answer[r] = "permanent" <=> answer[r] # "none" /\ ~rows[hand[r]].valid

\* What the columns of one row say about each other.
RowsOK ==
  \A m \in RowIds :
    /\ Created(m) <=> m <= nrows
    /\ rows[m].st # "pending" => rows[m].owner = NoOne
    /\ rows[m].st = "pending" => rows[m].attempts < MAX_TRIES
    /\ rows[m].st \in {"folded", "replayed"} /\ rows[m].valid => rows[m].attempts = MAX_TRIES
    /\ rows[m].st \in {"published", "archived"} => copies[m] > 0
    /\ copies[m] > 0 \/ late[m] > 0 => Created(m) /\ rows[m].valid

\* Rows of one event: the pending one is the newest, a replayed one is older
\* than some other.
ChainOK ==
  /\ \A m, n \in RowIds :
       rows[m].st = "pending" /\ Created(n) /\ rows[n].event = rows[m].event => n <= m
  /\ \A m \in RowIds : rows[m].st = "replayed" =>
       \E n \in RowIds : n > m /\ Created(n) /\ rows[n].event = rows[m].event

\* What an operator's transaction may rely on while it holds its locks.
OperatorsOK ==
  /\ \A a \in Operators :
       /\ apc[a] = "idle" <=> target[a] = NoOne
       /\ target[a] # NoOne => Replayable(target[a])
       /\ apc[a] = "fresh" => ~ActiveRow(TargetEvent(target[a]))
       /\ apc[a] \in {"dup", "confirm"} /\ target[a] \in RowIds =>
            \E n \in RowIds : /\ n > target[a] /\ Created(n)
                              /\ rows[n].event = rows[target[a]].event
  /\ \A a, b \in Operators :
       /\ target[a] = target[b] /\ target[a] # NoOne => a = b
       /\ apc[a] \in KeyHeld /\ apc[b] \in KeyHeld
            /\ TargetEvent(target[a]) = TargetEvent(target[b]) => a = b

IInv == TypeOK /\ HandOK /\ RowsOK /\ ChainOK /\ OperatorsOK

-----------------------------------------------------------------------------
(* Types *)

\* A new row is a well-typed row.
LEMMA NewRowType ==
  ASSUME NEW e \in Events, NEW v \in BOOLEAN PROVE NewRow(e, v) \in Row
  BY TriesAssumption DEF NewRow, Row, RowStates

\* The initial tables are well typed.
LEMMA InitType == Init => TypeOK
<1> SUFFICES ASSUME Init PROVE TypeOK
  OBVIOUS
<1>1. AnyEvent \in Events
  BY EventsAssumption DEF AnyEvent
<1>2. [NewRow(AnyEvent, TRUE) EXCEPT !.st = "none"] \in Row
  <2>1. NewRow(AnyEvent, TRUE) \in Row
    BY <1>1, NewRowType
  <2> QED
    BY <2>1 DEF Row, RowStates
<1>3. rows \in [RowIds -> Row] /\ letters \in [Letters -> Letter]
  BY <1>1, <1>2 DEF Init, Letter
<1> QED
  <2>1. /\ keys \subseteq Events /\ late \in [RowIds -> Nat] /\ owed \subseteq Events
        /\ lease \in Replicas \cup {NoOne}
    BY DEF Init
  <2>2. copies \in [RowIds -> Nat] /\ nrows \in 0..NumRows /\ faults \in 0..MaxFaults
    BY NumRowsAssumption, FaultsAssumption DEF Init
  <2>3. /\ pc \in [Replicas -> {"down", "idle"} \cup Polling]
        /\ hand \in [Replicas -> RowIds \cup {NoOne}]
        /\ answer \in [Replicas -> {"none", "ok", "fail", "permanent"}]
        /\ token \in [Replicas -> BOOLEAN] /\ lost \in [Replicas -> BOOLEAN]
    BY DEF Init
  <2>4. /\ apc \in [Operators -> {"idle", "locked"} \cup KeyHeld]
        /\ target \in [Operators -> RowIds \cup Letters \cup {NoOne}]
    BY DEF Init
  <2> QED
    BY <1>3, <2>1, <2>2, <2>3, <2>4 DEF TypeOK

\* A fault keeps the fault counter within its bound.
LEMMA FaultType == ASSUME TypeOK, Fault PROVE faults' \in 0..MaxFaults
  BY FaultsAssumption DEF TypeOK, Fault

\* The writes to one row keep it typed and touch only the named columns.
LEMMA RowWrites ==
  ASSUME NEW row \in Row
  PROVE  /\ Unclaimed(row) \in Row /\ Aged(row) \in Row /\ Due(row) \in Row
         /\ Archived(row) \in Row /\ Replayed(row) \in Row
         /\ \A w \in {Unclaimed(row), Aged(row), Due(row)} :
              /\ w.st = row.st /\ w.event = row.event
              /\ w.valid = row.valid /\ w.attempts = row.attempts
         /\ \A w \in {Archived(row), Replayed(row)} :
              /\ w.owner = row.owner /\ w.event = row.event
              /\ w.valid = row.valid /\ w.attempts = row.attempts
         /\ Archived(row).st = "archived" /\ Replayed(row).st = "replayed"
         /\ Unclaimed(row).owner = NoOne
         /\ Aged(row).owner = row.owner /\ Due(row).owner = row.owner
  BY DEF Row, RowStates, Unclaimed, Aged, Due, Archived, Replayed

\* A claim writes the claim columns only.
LEMMA ClaimWrites ==
  ASSUME NEW row \in Row, NEW r \in Replicas
  PROVE  /\ Claimed(row, r) \in Row /\ Claimed(row, r).owner = r
         /\ Claimed(row, r).st = row.st /\ Claimed(row, r).event = row.event
         /\ Claimed(row, r).valid = row.valid
         /\ Claimed(row, r).attempts = row.attempts
  BY DEF Row, Claimed

\* Settling a row that was tried less than MAX_TRIES times keeps it typed.
LEMMA SettledType ==
  ASSUME NEW row \in Row, row.attempts < MAX_TRIES,
         NEW a \in {"ok", "fail", "permanent"}
  PROVE  Settled(row, a) \in Row
<1>1. row.attempts + 1 \in 0..MAX_TRIES
  BY TriesAssumption DEF Row
<1> QED
  BY <1>1 DEF Settled, Unclaimed, Row, RowStates

\* The event of an operator's target is an event.
LEMMA TargetEventType ==
  ASSUME TypeOK, NEW t \in RowIds \cup Letters PROVE TargetEvent(t) \in Events
  BY LettersAssumption DEF TypeOK, TargetEvent, Row, Letter

\* Every action keeps the types, given what a replica knows of its row.
LEMMA NextType == ASSUME TypeOK, HandOK, RowsOK, OperatorsOK, [Next]_vars PROVE TypeOK'
<1> USE DEF TypeOK
<1>1. ASSUME NEW e \in Events, Enqueue(e) PROVE TypeOK'
  <2>1. NewRow(e, e \notin Poison) \in Row
    BY NewRowType
  <2>2. nrows + 1 \in RowIds
    BY <1>1, NumRowsAssumption DEF Enqueue, RowIds
  <2> QED
    BY <1>1, <2>1, <2>2 DEF Enqueue, relayVars, adminVars, RowIds
<1>2. ASSUME NEW r \in Replicas, Lead(r) PROVE TypeOK'
  <2>1. CASE Acquire(r)
    BY <2>1, FaultType DEF Acquire, Unchanged_DB, adminVars
  <2>2. CASE StartPoll(r)
    BY <2>2 DEF StartPoll, Unchanged_DB, adminVars, Polling
  <2>3. CASE RenewFails(r)
    BY <2>3, FaultType DEF RenewFails, Unchanged_DB, adminVars
  <2>4. CASE HeartbeatFails(r)
    BY <2>4, FaultType DEF HeartbeatFails, Unchanged_DB, adminVars
  <2> QED
    BY <1>2, <2>1, <2>2, <2>3, <2>4 DEF Lead
<1>3. ASSUME NEW r \in Replicas, Relay(r) PROVE TypeOK'
  <2>1. CASE Claim(r)
    <3>1. PICK m \in RowIds :
            /\ rows' = [rows EXCEPT ![m] = Claimed(@, r)]
            /\ hand' = [hand EXCEPT ![r] = m]
      BY <2>1 DEF Claim
    <3>2. rows' \in [RowIds -> Row]
      BY <3>1, ClaimWrites
    <3> QED
      BY <2>1, <3>1, <3>2 DEF Claim, adminVars, Polling
  <2>2. CASE EndPoll(r)
    BY <2>2 DEF EndPoll, Unchanged_DB, adminVars, Polling
  <2>3. CASE Abandon(r)
    <3>0. hand[r] \in RowIds
      BY <2>3 DEF Abandon, HandOK, Working
    <3>1. rows' \in [RowIds -> Row]
      BY <2>3, <3>0, RowWrites DEF Abandon
    <3> QED
      BY <2>3, <3>1 DEF Abandon, adminVars, Polling
  <2>4. CASE Dispatch(r)
    BY <2>4 DEF Dispatch, Unchanged_DB, adminVars, Polling
  <2>5. CASE BrokerAccepts(r)
    <3>1. hand[r] \in RowIds
      BY <2>5 DEF BrokerAccepts, HandOK, Working
    <3> QED
      BY <2>5, <3>1 DEF BrokerAccepts, Accept, adminVars, Polling
  <2>6. CASE PublishReturns(r)
    <3>1. hand[r] \in RowIds
      BY <2>6 DEF PublishReturns, HandOK, Working
    <3> QED
      BY <2>6, <3>1 DEF PublishReturns, adminVars, Polling
  <2>7. CASE Finish(r)
    <3>1. hand[r] \in RowIds /\ answer[r] \in {"ok", "fail", "permanent"}
      BY <2>7 DEF Finish, HandOK, Working
    <3>2. rows' \in [RowIds -> Row]
      <4>1. CASE StillOwned(r)
        <5>1. rows[hand[r]] \in Row /\ rows[hand[r]].attempts < MAX_TRIES
          BY <4>1, <3>1, NoOneAssumption DEF RowsOK, StillOwned
        <5>2. Settled(rows[hand[r]], answer[r]) \in Row
          BY <5>1, <3>1, SettledType
        <5> QED
          BY <2>7, <3>1, <4>1, <5>2 DEF Finish
      <4>2. CASE ~StillOwned(r)
        BY <2>7, <4>2 DEF Finish
      <4> QED
        BY <4>1, <4>2
    <3> QED
      BY <2>7, <3>2 DEF Finish, adminVars, Polling
  <2>8. CASE Tail(r)
    <3>1. rows' \in [RowIds -> Row]
      BY <2>8, RowWrites DEF Tail
    <3> QED
      BY <2>8, <3>1 DEF Tail, adminVars, Polling
  <2> QED
    BY <1>3, <2>1, <2>2, <2>3, <2>4, <2>5, <2>6, <2>7, <2>8 DEF Relay
<1>4. ASSUME NEW r \in Replicas, Failure(r) PROVE TypeOK'
  <2>1. CASE PollRaises(r)
    BY <2>1, FaultType DEF PollRaises, Unchanged_DB, adminVars, Polling
  <2>2. CASE Crash(r)
    BY <2>2, FaultType DEF Crash, Unchanged_DB, adminVars
  <2>3. CASE Restart(r)
    BY <2>3 DEF Restart, Unchanged_DB, adminVars
  <2> QED
    BY <1>4, <2>1, <2>2, <2>3 DEF Failure
<1>5. CASE LeaseExpires
  BY <1>5, FaultType DEF LeaseExpires, Unchanged_DB, adminVars, relayVars
<1>6. ASSUME NEW m \in RowIds, Timer(m) PROVE TypeOK'
  <2>1. CASE BackoffElapses(m)
    <3>1. rows' \in [RowIds -> Row]
      BY <2>1, RowWrites DEF BackoffElapses
    <3> QED
      BY <2>1, <3>1 DEF BackoffElapses, adminVars, relayVars
  <2>2. CASE ClaimExpires(m)
    <3>1. rows' \in [RowIds -> Row]
      BY <2>2, RowWrites DEF ClaimExpires
    <3> QED
      BY <2>2, <3>1, FaultType DEF ClaimExpires, adminVars, relayVars
  <2>3. CASE LateArrives(m)
    BY <2>3 DEF LateArrives, Accept, adminVars, relayVars
  <2> QED
    BY <1>6, <2>1, <2>2, <2>3 DEF Timer
<1>7. ASSUME NEW d \in Letters, Discard(d) PROVE TypeOK'
  BY <1>7 DEF Discard, adminVars, relayVars, Letter
<1>8. ASSUME NEW d \in Letters, NEW e \in Events, DeadLetter(d, e) PROVE TypeOK'
  BY <1>8 DEF DeadLetter, adminVars, relayVars, Letter
<1>9. ASSUME NEW a \in Operators, Operate(a) PROVE TypeOK'
  <2>1. ASSUME NEW t \in RowIds \cup Letters, LockTarget(a, t) PROVE TypeOK'
    BY <2>1 DEF LockTarget, relayVars
  <2>2. CASE LockKey(a)
    BY <2>2 DEF LockKey, relayVars, KeyHeld
  <2>3. CASE Recheck(a)
    BY <2>3 DEF Recheck, relayVars, KeyHeld
  <2>4. CASE CommitReplay(a)
    <3> DEFINE t == target[a]
    <3>1. t \in RowIds \cup Letters
      BY <2>4 DEF CommitReplay, OperatorsOK
    <3>2. TargetEvent(t) \in Events
      BY <3>1, TargetEventType
    <3>3. NewRow(TargetEvent(t), TRUE) \in Row
      BY <3>2, NewRowType
    <3>4. MarkReplayed(t, rows) \in [RowIds -> Row]
      BY <3>1, RowWrites DEF MarkReplayed
    <3>5. rows' \in [RowIds -> Row] /\ nrows' \in 0..NumRows
      <4> HIDE DEF t
      <4>1. CASE /\ nrows < NumRows
                 /\ nrows' = nrows + 1
                 /\ rows' = [MarkReplayed(t, rows) EXCEPT ![nrows + 1] = NewRow(TargetEvent(t), TRUE)]
        <5>1. nrows + 1 \in RowIds /\ nrows + 1 \in 0..NumRows
          BY <4>1, NumRowsAssumption DEF RowIds
        <5> QED
          BY <4>1, <5>1, <3>3, <3>4
      <4>2. CASE nrows' = nrows /\ rows' = MarkReplayed(t, rows)
        BY <4>2, <3>4
      <4> QED
        BY <2>4, <4>1, <4>2 DEF CommitReplay, t
    <3>6. letters' \in [Letters -> Letter]
      BY <2>4 DEF CommitReplay, Letter
    <3> QED
      BY <2>4, <3>2, <3>5, <3>6 DEF CommitReplay, relayVars
  <2>5. CASE AbortReplay(a)
    BY <2>5 DEF AbortReplay, relayVars
  <2> QED
    BY <1>9, <2>1, <2>2, <2>3, <2>4, <2>5 DEF Operate
<1>10. CASE UNCHANGED vars
  BY <1>10 DEF vars
<1> QED
  BY <1>1, <1>2, <1>3, <1>4, <1>5, <1>6, <1>7, <1>8, <1>9, <1>10 DEF Next

-----------------------------------------------------------------------------
(* What steps do to rows *)

\* Rows are never removed, and keep their event and payload; the broker never
\* gives a copy back.
Monotone ==
  \A m \in RowIds :
    /\ Created(m) => /\ rows'[m].st # "none"
                     /\ rows'[m].event = rows[m].event
                     /\ rows'[m].valid = rows[m].valid
    /\ copies'[m] >= copies[m]

\* Steps that leave every row alone but for its claim and its backoff.
Quiet ==
  /\ nrows' = nrows
  /\ \A m \in RowIds :
       /\ rows'[m].st = rows[m].st
       /\ rows'[m].event = rows[m].event
       /\ rows'[m].valid = rows[m].valid
       /\ rows'[m].attempts = rows[m].attempts
       /\ rows[m].st # "pending" => rows'[m].owner = rows[m].owner

\* Settling frees the claim, keeps event and payload, and counts a failure.
LEMMA SettledWrites ==
  ASSUME NEW row \in Row, row.st = "pending", row.attempts < MAX_TRIES,
         NEW a \in {"ok", "fail", "permanent"}
  PROVE  LET w == Settled(row, a)
         IN  /\ w.event = row.event /\ w.valid = row.valid /\ w.owner = NoOne
             /\ a = "ok" => w.st = "published" /\ w.attempts = row.attempts
             /\ a = "permanent" => w.st = "folded" /\ w.attempts = row.attempts
             /\ a = "fail" =>
                  \/ w.st = "pending" /\ w.attempts = row.attempts + 1 /\ w.attempts < MAX_TRIES
                  \/ w.st = "folded" /\ w.attempts = MAX_TRIES
<1> DEFINE free == Unclaimed(row)
           n == row.attempts + 1
<1>1. /\ free \in Row /\ free.event = row.event /\ free.valid = row.valid
      /\ free.owner = NoOne /\ free.attempts = row.attempts /\ free.st = "pending"
  BY RowWrites
<1>2. n \in 0..MAX_TRIES /\ (n >= MAX_TRIES => n = MAX_TRIES)
  BY TriesAssumption DEF Row
<1> HIDE DEF free
<1>3. CASE a = "ok"
  <2>1. Settled(row, a) = [free EXCEPT !.st = "published"]
    BY <1>3 DEF Settled, free
  <2> QED
    BY <1>1, <1>3, <2>1 DEF Row
<1>4. CASE a = "permanent"
  <2>1. Settled(row, a) = [free EXCEPT !.st = "folded"]
    BY <1>4 DEF Settled, free
  <2> QED
    BY <1>1, <1>4, <2>1 DEF Row
<1>5. CASE a = "fail" /\ n >= MAX_TRIES
  <2>1. Settled(row, a) = [free EXCEPT !.attempts = @ + 1, !.st = "folded"]
    BY <1>5 DEF Settled, free
  <2> QED
    BY <1>1, <1>2, <1>5, <2>1 DEF Row
<1>6. CASE a = "fail" /\ ~(n >= MAX_TRIES)
  <2> DEFINE w == [free EXCEPT !.attempts = n, !.due = FALSE]
  <2>1. Settled(row, a) = w
    BY <1>1, <1>6 DEF Settled, free, Row
  <2>2. n < MAX_TRIES
    BY <1>2, <1>6, TriesAssumption
  <2>3. /\ w.attempts = n /\ w.st = "pending" /\ w.event = row.event
        /\ w.valid = row.valid /\ w.owner = NoOne
    BY <1>1 DEF Row
  <2> QED
    BY <1>6, <2>1, <2>2, <2>3
<1> QED
  BY <1>3, <1>4, <1>5, <1>6

\* A claim that passes the fence is on a pending row.
LEMMA FencePending ==
  ASSUME IInv, NEW r \in Replicas, pc[r] = "answered"
  PROVE  /\ hand[r] \in RowIds /\ answer[r] \in {"ok", "fail", "permanent"}
         /\ StillOwned(r) => /\ rows[hand[r]].st = "pending" /\ rows[hand[r]] \in Row
                             /\ rows[hand[r]].attempts < MAX_TRIES
  BY NoOneAssumption DEF IInv, TypeOK, HandOK, RowsOK, Working, StillOwned

\* The quiet actions of the relay.
LEMMA QuietRelay ==
  ASSUME IInv, NEW r \in Replicas,
         \/ Lead(r) \/ Failure(r)
         \/ Claim(r) \/ EndPoll(r) \/ Abandon(r) \/ Dispatch(r) \/ BrokerAccepts(r)
         \/ PublishReturns(r) \/ (Finish(r) /\ ~StillOwned(r)) \/ (Tail(r) /\ lost[r])
  PROVE  Quiet
<1> USE DEF IInv, TypeOK
<1>1. CASE UNCHANGED <<rows, nrows>>
  BY <1>1 DEF Quiet
<1>2. CASE Claim(r)
  <2>1. PICK m \in RowIds : NextToClaim(m) /\ rows' = [rows EXCEPT ![m] = Claimed(@, r)]
    BY <1>2 DEF Claim
  <2>2. rows[m] \in Row /\ rows[m].st = "pending"
    BY <2>1 DEF NextToClaim, Claimable
  <2>3. rows'[m] = Claimed(rows[m], r) /\ \A n \in RowIds : n # m => rows'[n] = rows[n]
    BY <2>1
  <2>4. nrows' = nrows
    BY <1>2 DEF Claim
  <2> HIDE DEF IInv, TypeOK
  <2> QED
    BY <2>2, <2>3, <2>4, ClaimWrites DEF Quiet
<1>3. CASE Abandon(r)
  <2>1. hand[r] \in RowIds /\ rows[hand[r]] \in Row
    BY <1>3 DEF Abandon, HandOK, Working
  <2>2. rows[hand[r]].owner = r => rows[hand[r]].st = "pending"
    BY <2>1, NoOneAssumption DEF RowsOK
  <2>3. CASE rows[hand[r]].owner = r
    BY <1>3, <2>1, <2>2, <2>3, RowWrites DEF Abandon, Quiet
  <2>4. CASE rows[hand[r]].owner # r
    BY <1>3, <2>4 DEF Abandon, Quiet
  <2> QED
    BY <2>3, <2>4
<1> QED
  BY <1>1, <1>2, <1>3
  DEF Lead, Acquire, StartPoll, RenewFails, HeartbeatFails, Failure, PollRaises, Crash,
      Restart, EndPoll, Dispatch, BrokerAccepts, PublishReturns, Finish, Tail, Unchanged_DB

\* The quiet actions of timers, of the broker and of operators.
LEMMA QuietOthers ==
  ASSUME IInv,
         \/ LeaseExpires
         \/ \E m \in RowIds : Timer(m)
         \/ \E d \in Letters : Discard(d) \/ \E e \in Events : DeadLetter(d, e)
         \/ \E a \in Operators :
              \/ \E t \in RowIds \cup Letters : LockTarget(a, t)
              \/ LockKey(a) \/ Recheck(a) \/ AbortReplay(a)
         \/ UNCHANGED vars
  PROVE  Quiet
<1> USE DEF IInv, TypeOK
<1>1. CASE UNCHANGED <<rows, nrows>>
  BY <1>1 DEF Quiet
<1>2. ASSUME NEW m \in RowIds, BackoffElapses(m) PROVE Quiet
  BY <1>2, RowWrites DEF BackoffElapses, Quiet
<1>3. ASSUME NEW m \in RowIds, ClaimExpires(m) PROVE Quiet
  BY <1>3, RowWrites DEF ClaimExpires, Quiet
<1> QED
  BY <1>1, <1>2, <1>3
  DEF LeaseExpires, Timer, LateArrives, Discard, DeadLetter, LockTarget, LockKey,
      Recheck, AbortReplay, Unchanged_DB, vars

\* Settling a row is the only change Finish makes.
LEMMA FinishWrites ==
  ASSUME IInv, NEW r \in Replicas, Finish(r), StillOwned(r)
  PROVE  /\ nrows' = nrows
         /\ hand[r] \in RowIds
         /\ rows'[hand[r]] = Settled(rows[hand[r]], answer[r])
         /\ \A n \in RowIds : n # hand[r] => rows'[n] = rows[n]
  BY FencePending DEF Finish, IInv, TypeOK

\* Archiving is the only change Tail makes.
LEMMA TailWrites ==
  ASSUME IInv, NEW r \in Replicas, Tail(r), ~lost[r]
  PROVE  /\ nrows' = nrows
         /\ \A m \in RowIds : \/ rows'[m] = rows[m]
                              \/ rows[m].st = "published" /\ rows'[m] = Archived(rows[m])
<1>1. PICK S \in SUBSET {m \in RowIds : rows[m].st = "published"} :
        rows' = [m \in RowIds |-> IF m \in S THEN Archived(rows[m]) ELSE rows[m]]
  BY DEF Tail
<1> QED
  BY <1>1 DEF Tail

\* A new row goes into an unused place.
LEMMA EnqueueWrites ==
  ASSUME IInv, NEW e \in Events, Enqueue(e)
  PROVE  /\ nrows + 1 \in RowIds /\ nrows' = nrows + 1
         /\ rows[nrows + 1].st = "none"
         /\ rows'[nrows + 1] = NewRow(e, e \notin Poison)
         /\ \A n \in RowIds : n # nrows + 1 => rows'[n] = rows[n]
<1>1. nrows + 1 \in RowIds
  BY NumRowsAssumption DEF Enqueue, IInv, TypeOK, RowIds
<1>2. ~(nrows + 1 <= nrows)
  BY DEF IInv, TypeOK
<1> QED
  BY <1>1, <1>2 DEF Enqueue, IInv, TypeOK, RowsOK, Created

\* Committing a replay marks its failure and may add a row.
LEMMA CommitWrites ==
  ASSUME IInv, NEW a \in Operators, CommitReplay(a)
  PROVE  LET t == target[a]
             marked(n) == rows'[n] = IF n = t THEN Replayed(rows[n]) ELSE rows[n]
         IN  /\ t \in RowIds \cup Letters
             /\ t \in RowIds => t \notin Letters /\ rows[t].st = "folded"
             /\ \/ /\ apc[a] = "fresh" /\ nrows' = nrows + 1 /\ nrows + 1 \in RowIds
                   /\ rows[nrows + 1].st = "none"
                   /\ rows'[nrows + 1] = NewRow(TargetEvent(t), TRUE)
                   /\ \A n \in RowIds : n # nrows + 1 => marked(n)
                \/ /\ apc[a] = "confirm" /\ nrows' = nrows
                   /\ \A n \in RowIds : marked(n)
<1> DEFINE t == target[a]
<1>1. t \in RowIds \cup Letters /\ Replayable(t)
  BY DEF CommitReplay, IInv, TypeOK, OperatorsOK
<1>2. t \in RowIds => t \notin Letters /\ rows[t].st = "folded"
  BY <1>1, LettersAssumption DEF Replayable
<1>3. ~(nrows + 1 <= nrows)
  BY DEF IInv, TypeOK
<1>4. rows \in [RowIds -> Row]
  BY DEF IInv, TypeOK
<1>5. /\ MarkReplayed(t, rows) \in [RowIds -> Row]
      /\ \A n \in RowIds : MarkReplayed(t, rows)[n] = IF n = t THEN Replayed(rows[n]) ELSE rows[n]
  BY <1>1, <1>2, <1>4, RowWrites, LettersAssumption DEF MarkReplayed
<1>6. CASE /\ apc[a] = "fresh" /\ nrows < NumRows /\ nrows' = nrows + 1
           /\ rows' = [MarkReplayed(t, rows) EXCEPT ![nrows + 1] = NewRow(TargetEvent(t), TRUE)]
  <2>1. nrows + 1 \in RowIds
    BY <1>6, NumRowsAssumption DEF IInv, TypeOK, RowIds
  <2>2. rows[nrows + 1].st = "none"
    BY <1>3, <2>1 DEF IInv, RowsOK, Created
  <2> HIDE DEF t
  <2>3. /\ rows'[nrows + 1] = NewRow(TargetEvent(t), TRUE)
        /\ \A n \in RowIds : n # nrows + 1 => rows'[n] = MarkReplayed(t, rows)[n]
    BY <1>5, <1>6, <2>1
  <2> QED
    BY <1>1, <1>2, <1>5, <1>6, <2>1, <2>2, <2>3 DEF t
<1>7. CASE apc[a] = "confirm" /\ nrows' = nrows /\ rows' = MarkReplayed(t, rows)
  BY <1>1, <1>2, <1>5, <1>7
<1> QED
  BY <1>6, <1>7 DEF CommitReplay

\* Every step is monotone.
LEMMA NextMonotone == ASSUME IInv, [Next]_vars PROVE Monotone
<1>0. rows \in [RowIds -> Row] /\ copies \in [RowIds -> Nat]
  BY DEF IInv, TypeOK
<1>1. CASE Quiet /\ UNCHANGED copies
  BY <1>0, <1>1 DEF Quiet, Monotone, Created
<1>2. ASSUME NEW e \in Events, Enqueue(e) PROVE Monotone
  <2>1. copies' = copies
    BY <1>2 DEF Enqueue
  <2>2. \A n \in RowIds : rows[n].st # "none" => rows'[n] = rows[n]
    BY <1>2, EnqueueWrites
  <2> QED
    BY <1>0, <2>1, <2>2 DEF Monotone, Created
<1>3. ASSUME NEW r \in Replicas, BrokerAccepts(r) PROVE Monotone
  <2>1. Quiet
    BY <1>3, QuietRelay
  <2>2. copies' = [copies EXCEPT ![hand[r]] = @ + 1]
    BY <1>3 DEF BrokerAccepts, Accept
  <2> QED
    BY <1>0, <2>1, <2>2 DEF Quiet, Monotone, Created
<1>4. ASSUME NEW m \in RowIds, LateArrives(m) PROVE Monotone
  <2>1. Quiet
    BY <1>4, QuietOthers DEF Timer
  <2>2. copies' = [copies EXCEPT ![m] = @ + 1] \/ copies' = copies
    BY <1>4 DEF LateArrives, Accept
  <2> QED
    BY <1>0, <2>1, <2>2 DEF Quiet, Monotone, Created
<1>5. ASSUME NEW r \in Replicas, Finish(r), StillOwned(r) PROVE Monotone
  <2>1. pc[r] = "answered" /\ copies' = copies
    BY <1>5 DEF Finish
  <2>2. /\ rows'[hand[r]].event = rows[hand[r]].event
        /\ rows'[hand[r]].valid = rows[hand[r]].valid
        /\ rows'[hand[r]].st # "none"
    BY <1>5, <2>1, FencePending, FinishWrites, SettledWrites
  <2> QED
    BY <1>0, <1>5, <2>1, <2>2, FinishWrites DEF Monotone, Created
<1>6. ASSUME NEW r \in Replicas, Tail(r), ~lost[r] PROVE Monotone
  BY <1>0, <1>6, TailWrites, RowWrites DEF Monotone, Created, Tail
<1>7. ASSUME NEW a \in Operators, CommitReplay(a) PROVE Monotone
  <2>1. copies' = copies
    BY <1>7 DEF CommitReplay
  <2>2. \A n \in RowIds : rows[n].st # "none" =>
          rows'[n] = rows[n] \/ rows'[n] = Replayed(rows[n])
    BY <1>7, CommitWrites
  <2> QED
    BY <1>0, <2>1, <2>2, RowWrites DEF Monotone, Created
<1>8. ASSUME NEW r \in Replicas, Lead(r) \/ Failure(r) PROVE Monotone
  BY <1>1, <1>8, QuietRelay
  DEF Lead, Acquire, StartPoll, RenewFails, HeartbeatFails, Failure, PollRaises, Crash,
      Restart, Unchanged_DB
<1>9. ASSUME NEW r \in Replicas, Relay(r) PROVE Monotone
  BY <1>1, <1>3, <1>5, <1>6, <1>9, QuietRelay
  DEF Relay, Claim, EndPoll, Abandon, Dispatch, PublishReturns, Finish, Tail, Unchanged_DB
<1>10. CASE LeaseExpires \/ UNCHANGED vars
  BY <1>1, <1>10, QuietOthers DEF LeaseExpires, Unchanged_DB, vars
<1>11. ASSUME NEW m \in RowIds, Timer(m) PROVE Monotone
  BY <1>1, <1>4, <1>11, QuietOthers DEF Timer, BackoffElapses, ClaimExpires
<1>12. ASSUME NEW d \in Letters, Discard(d) \/ \E e \in Events : DeadLetter(d, e)
       PROVE  Monotone
  BY <1>1, <1>12, QuietOthers DEF Discard, DeadLetter
<1>13. ASSUME NEW a \in Operators, Operate(a) PROVE Monotone
  <2>1. CASE CommitReplay(a)
    BY <1>7, <2>1
  <2>2. CASE ~CommitReplay(a)
    <3>1. Quiet
      BY <1>13, <2>2, QuietOthers DEF Operate
    <3>2. copies' = copies
      BY <1>13, <2>2 DEF Operate, LockTarget, LockKey, Recheck, AbortReplay
    <3> QED
      BY <1>1, <3>1, <3>2
  <2> QED
    BY <2>1, <2>2
<1> QED
  BY <1>2, <1>8, <1>9, <1>10, <1>11, <1>12, <1>13 DEF Next

-----------------------------------------------------------------------------
(* Preservation of the parts of the invariant *)

\* Replicas keep knowing what they know about their rows.
LEMMA NextHand == ASSUME IInv, [Next]_vars PROVE HandOK'
<1>0. /\ TypeOK /\ HandOK /\ Monotone /\ copies \in [RowIds -> Nat]
      /\ copies' \in [RowIds -> Nat]
  BY NextMonotone, NextType DEF IInv, TypeOK
<1> DEFINE Knows(r) ==
      /\ pc[r] \in Working => hand[r] \in RowIds /\ Created(hand[r])
      /\ pc[r] \in {"sending", "acked"} => rows[hand[r]].valid
      /\ pc[r] = "acked" => copies[hand[r]] > 0
      /\ pc[r] = "answered" <=> answer[r] # "none"
      /\ answer[r] = "ok" => copies[hand[r]] > 0
      /\ answer[r] = "permanent" <=> answer[r] # "none" /\ ~rows[hand[r]].valid
<1>1. ASSUME NEW s \in Replicas,
             pc'[s] = pc[s], hand'[s] = hand[s], answer'[s] = answer[s]
      PROVE  Knows(s)'
  <2>1. Knows(s)
    BY <1>0 DEF HandOK
  <2>2. hand[s] \in RowIds =>
          /\ copies'[hand[s]] >= copies[hand[s]]
          /\ copies[hand[s]] \in Nat /\ copies'[hand[s]] \in Nat
    BY <1>0 DEF Monotone
  <2>3. hand[s] \in RowIds /\ Created(hand[s]) =>
          Created(hand[s])' /\ rows'[hand[s]].valid = rows[hand[s]].valid
    BY <1>0, <1>1 DEF Monotone, Created
  <2>4. pc[s] \in Working \/ answer[s] # "none" =>
          /\ hand[s] \in RowIds /\ Created(hand[s])
          /\ Created(hand[s])' /\ rows'[hand[s]].valid = rows[hand[s]].valid
          /\ copies[hand[s]] > 0 => copies'[hand[s]] > 0
    BY <2>1, <2>2, <2>3 DEF Working
  <2>5. pc[s] \in {"sending", "acked"} => pc[s] \in Working
    BY DEF Working
  <2> QED
    BY <1>1, <2>1, <2>4, <2>5
<1>2. CASE UNCHANGED <<pc, hand, answer>>
  BY <1>1, <1>2 DEF HandOK
<1>3. ASSUME NEW r \in Replicas, Lead(r) \/ Relay(r) \/ Failure(r)
      PROVE  HandOK'
  <2>1. ASSUME NEW s \in Replicas, s # r PROVE Knows(s)'
    <3>1. pc'[s] = pc[s] /\ hand'[s] = hand[s] /\ answer'[s] = answer[s]
      BY <1>0, <1>3, <2>1
      DEF TypeOK, Lead, Acquire, StartPoll, RenewFails, HeartbeatFails, Relay, Claim, EndPoll,
          Abandon, Dispatch, BrokerAccepts, PublishReturns, Finish, Tail, Failure, PollRaises,
          Crash, Restart
    <3> QED
      BY <1>1, <3>1
  <2>2. Knows(r)
    BY <1>0 DEF HandOK
  <2>3. Knows(r)'
    <3>1. CASE Lead(r)
      BY <1>0, <1>1, <2>2, <3>1
      DEF TypeOK, Lead, Acquire, StartPoll, RenewFails, HeartbeatFails, Working
    <3>2. CASE Failure(r)
      BY <1>0, <2>2, <3>2 DEF TypeOK, Failure, PollRaises, Crash, Restart, Working
    <3>3. CASE EndPoll(r) \/ Abandon(r) \/ Finish(r) \/ Tail(r)
      BY <1>0, <2>2, <3>3 DEF TypeOK, EndPoll, Abandon, Finish, Tail, Working
    <3>4. CASE Claim(r)
      <4>1. PICK m \in RowIds : NextToClaim(m) /\ hand' = [hand EXCEPT ![r] = m]
        BY <3>4 DEF Claim
      <4>2. Created(m)'
        BY <1>0, <4>1 DEF Monotone, Created, NextToClaim, Claimable
      <4> QED
        BY <1>0, <2>2, <3>4, <4>1, <4>2 DEF TypeOK, Claim, Working
    <3>5. CASE Dispatch(r)
      BY <1>0, <2>2, <3>5 DEF TypeOK, Dispatch, Working, Unchanged_DB, Created
    <3>6. CASE BrokerAccepts(r)
      BY <1>0, <2>2, <3>6 DEF TypeOK, BrokerAccepts, Accept, Working, Created
    <3>7. CASE PublishReturns(r)
      BY <1>0, <2>2, <3>7 DEF TypeOK, PublishReturns, Working, Created
    <3> QED
      BY <1>3, <3>1, <3>2, <3>3, <3>4, <3>5, <3>6, <3>7 DEF Relay
  <2> QED
    BY <2>1, <2>3 DEF HandOK
<1> QED
  BY <1>2, <1>3
  DEF Next, Enqueue, LeaseExpires, Timer, BackoffElapses, ClaimExpires, LateArrives, Discard,
      DeadLetter, Operate, LockTarget, LockKey, Recheck, CommitReplay, AbortReplay, relayVars,
      vars

\* The columns of a row keep agreeing.
LEMMA NextRows == ASSUME IInv, [Next]_vars PROVE RowsOK'
<1>0. /\ rows \in [RowIds -> Row] /\ copies \in [RowIds -> Nat] /\ nrows \in 0..NumRows
      /\ HandOK /\ RowsOK /\ Monotone /\ copies' \in [RowIds -> Nat]
      /\ late \in [RowIds -> Nat]
  BY NextMonotone, NextType DEF IInv, TypeOK
<1> DEFINE Agrees(m) ==
      /\ Created(m) <=> m <= nrows
      /\ rows[m].st # "pending" => rows[m].owner = NoOne
      /\ rows[m].st = "pending" => rows[m].attempts < MAX_TRIES
      /\ rows[m].st \in {"folded", "replayed"} /\ rows[m].valid => rows[m].attempts = MAX_TRIES
      /\ rows[m].st \in {"published", "archived"} => copies[m] > 0
      /\ copies[m] > 0 \/ late[m] > 0 => Created(m) /\ rows[m].valid
<1>a. \A m \in RowIds : Agrees(m)
  BY <1>0 DEF RowsOK
<1>b. (\A m \in RowIds : Agrees(m)') => RowsOK'
  BY DEF RowsOK
<1> HIDE DEF Agrees
<1>1. ASSUME Quiet, UNCHANGED <<copies, late>> PROVE RowsOK'
  <2>1. ASSUME NEW m \in RowIds PROVE Agrees(m)'
    BY <1>a, <1>1 DEF Quiet, Agrees, Created
  <2> QED
    BY <1>b, <2>1
<1>2. ASSUME NEW e \in Events, Enqueue(e) PROVE RowsOK'
  <2>1. copies' = copies /\ late' = late
    BY <1>2 DEF Enqueue
  <2>2. ASSUME NEW m \in RowIds PROVE Agrees(m)'
    <3>1. CASE m = nrows + 1
      <4>1. /\ rows'[m].st = "pending" /\ rows'[m].owner = NoOne /\ rows'[m].attempts = 0
            /\ m <= nrows' /\ rows[m].st = "none"
        <5>1. /\ rows'[m] = NewRow(e, e \notin Poison) /\ nrows' = nrows + 1
              /\ rows[m].st = "none"
          BY <1>2, <3>1, EnqueueWrites
        <5> QED
          BY <1>0, <3>1, <5>1 DEF NewRow
      <4>2. ~(copies[m] > 0) /\ ~(late[m] > 0)
        BY <1>a, <4>1 DEF Agrees, Created
      <4> QED
        BY <2>1, <4>1, <4>2, TriesAssumption DEF Agrees, Created
    <3>2. CASE m # nrows + 1
      <4>1. rows'[m] = rows[m] /\ nrows' = nrows + 1
        BY <1>2, <3>2, EnqueueWrites
      <4>2. m <= nrows' <=> m <= nrows
        BY <1>0, <3>2, <4>1 DEF RowIds
      <4> QED
        BY <1>a, <2>1, <4>1, <4>2 DEF Agrees, Created
    <3> QED
      BY <3>1, <3>2
  <2> QED
    BY <1>b, <2>2
<1>3. ASSUME NEW r \in Replicas, BrokerAccepts(r) PROVE RowsOK'
  <2>1. Quiet /\ late' = late
    BY <1>3, QuietRelay DEF BrokerAccepts
  <2>2. /\ hand[r] \in RowIds /\ Created(hand[r]) /\ rows[hand[r]].valid
        /\ copies' = [copies EXCEPT ![hand[r]] = @ + 1]
    BY <1>0, <1>3 DEF BrokerAccepts, Accept, HandOK, Working
  <2>3. ASSUME NEW m \in RowIds PROVE Agrees(m)'
    <3>1. copies[m] > 0 => copies'[m] > 0
      BY <1>0, <2>2
    <3>2. m # hand[r] => copies'[m] = copies[m]
      BY <1>0, <2>2
    <3> QED
      BY <1>a, <2>1, <2>2, <3>1, <3>2 DEF Quiet, Agrees, Created
  <2> QED
    BY <1>b, <2>3
<1>4. ASSUME NEW n \in RowIds, LateArrives(n) PROVE RowsOK'
  <2>0. late \in [RowIds -> Nat] /\ late[n] > 0 /\ late' = [late EXCEPT ![n] = @ - 1]
    BY <1>0, <1>4 DEF LateArrives, TypeOK
  <2>1. Quiet /\ late[n] > 0 /\ \A m \in RowIds : late'[m] > 0 => late[m] > 0
    <3>1. Quiet
      BY <1>4, QuietOthers DEF LateArrives, Timer
    <3>2. ASSUME NEW m \in RowIds, late'[m] > 0 PROVE late[m] > 0
      <4>1. CASE m = n
        BY <2>0, <4>1
      <4>2. CASE m # n
        BY <2>0, <3>2, <4>2
      <4> QED
        BY <4>1, <4>2
    <3> QED
      BY <2>0, <3>1, <3>2
  <2>2. copies' = copies \/ copies' = [copies EXCEPT ![n] = @ + 1]
    BY <1>4 DEF LateArrives, Accept
  <2>3. ASSUME NEW m \in RowIds PROVE Agrees(m)'
    <3>1. copies[m] > 0 => copies'[m] > 0
      BY <1>0, <2>2
    <3>2. m # n => copies'[m] = copies[m]
      BY <1>0, <2>2
    <3> QED
      BY <1>a, <2>1, <3>1, <3>2 DEF Quiet, Agrees, Created
  <2> QED
    BY <1>b, <2>3
<1>5. ASSUME NEW r \in Replicas, PublishReturns(r) PROVE RowsOK'
  <2>1. Quiet /\ copies' = copies
    BY <1>5, QuietRelay DEF PublishReturns
  <2>2. late' = late \/ (late' = [late EXCEPT ![hand[r]] = @ + 1] /\ pc[r] = "sending")
    BY <1>5 DEF PublishReturns
  <2>3. pc[r] = "sending" => Created(hand[r]) /\ rows[hand[r]].valid
    BY <1>0 DEF HandOK, Working
  <2>4. ASSUME NEW m \in RowIds PROVE Agrees(m)'
    <3>0. late \in [RowIds -> Nat]
      BY <1>0 DEF TypeOK
    <3>1. late'[m] > 0 => late[m] > 0 \/ (m = hand[r] /\ pc[r] = "sending")
      <4>1. CASE m = hand[r]
        BY <2>2, <4>1
      <4>2. CASE m # hand[r]
        <5>1. late'[m] = late[m]
          BY <2>2, <3>0, <4>2
        <5> QED
          BY <5>1
      <4> QED
        BY <4>1, <4>2
    <3> QED
      BY <1>a, <2>1, <2>3, <3>1 DEF Quiet, Agrees, Created
  <2> QED
    BY <1>b, <2>4
<1>6. ASSUME NEW r \in Replicas, Finish(r), StillOwned(r) PROVE RowsOK'
  <2>1. pc[r] = "answered" /\ copies' = copies /\ late' = late /\ nrows' = nrows
    BY <1>6 DEF Finish
  <2>h. PICK h \in RowIds : h = hand[r]
    BY <2>1, FencePending
  <2>2. /\ h \in RowIds /\ rows[h].st = "pending" /\ rows[h] \in Row
        /\ rows[h].attempts < MAX_TRIES
    BY <1>6, <2>1, <2>h, FencePending
  <2>3. \A n \in RowIds : n # h => rows'[n] = rows[n]
    BY <1>6, <2>h, FinishWrites
  <2>4. /\ rows'[h].event = rows[h].event /\ rows'[h].valid = rows[h].valid
        /\ rows'[h].owner = NoOne
        /\ \/ rows'[h].st = "published" /\ answer[r] = "ok"
           \/ rows'[h].st = "folded" /\ answer[r] = "permanent"
           \/ rows'[h].st = "pending" /\ rows'[h].attempts < MAX_TRIES
           \/ rows'[h].st = "folded" /\ rows'[h].attempts = MAX_TRIES
    BY <1>6, <2>1, <2>h, <2>2, FencePending, FinishWrites, SettledWrites
  <2>5. /\ answer[r] = "ok" => copies[h] > 0
        /\ answer[r] = "permanent" => ~rows[h].valid
    BY <1>0, <2>h DEF HandOK
  <2>6. Agrees(h)'
    BY <1>a, <2>1, <2>2, <2>4, <2>5 DEF Agrees, Created
  <2>7. ASSUME NEW m \in RowIds, m # h PROVE Agrees(m)'
    BY <1>a, <2>1, <2>3, <2>7 DEF Agrees, Created
  <2> QED
    BY <1>b, <2>6, <2>7
<1>7. ASSUME NEW r \in Replicas, Tail(r), ~lost[r] PROVE RowsOK'
  <2>1. copies' = copies /\ late' = late /\ nrows' = nrows
    BY <1>7 DEF Tail
  <2>2. ASSUME NEW m \in RowIds PROVE Agrees(m)'
    <3>1. \/ rows'[m] = rows[m]
          \/ rows[m].st = "published" /\ rows'[m] = Archived(rows[m])
      BY <1>7, TailWrites
    <3> QED
      BY <1>0, <1>a, <2>1, <3>1, RowWrites DEF Agrees, Created
  <2> QED
    BY <1>b, <2>2
<1>8. ASSUME NEW a \in Operators, CommitReplay(a) PROVE RowsOK'
  <2>1. copies' = copies /\ late' = late
    BY <1>8 DEF CommitReplay
  <2>2. ASSUME NEW m \in RowIds,
               \/ rows'[m] = rows[m]
               \/ rows[m].st = "folded" /\ rows'[m] = Replayed(rows[m]),
               m <= nrows' <=> m <= nrows
        PROVE  Agrees(m)'
    BY <1>0, <1>a, <2>1, <2>2, RowWrites DEF Agrees, Created
  <2>3. CASE apc[a] = "confirm"
    <3>1. nrows' = nrows
      BY <1>8, <2>3 DEF CommitReplay
    <3>2. \A n \in RowIds : \/ rows'[n] = rows[n]
                            \/ rows[n].st = "folded" /\ rows'[n] = Replayed(rows[n])
      BY <1>8, <2>3, CommitWrites
    <3> QED
      BY <1>b, <2>2, <3>1, <3>2
  <2>4. CASE apc[a] = "fresh"
    <3>1. /\ nrows' = nrows + 1 /\ nrows + 1 \in RowIds /\ rows[nrows + 1].st = "none"
          /\ rows'[nrows + 1] = NewRow(TargetEvent(target[a]), TRUE)
      BY <1>8, <2>4, CommitWrites
    <3>2. ASSUME NEW m \in RowIds, m # nrows + 1 PROVE Agrees(m)'
      <4>1. m <= nrows' <=> m <= nrows
        BY <1>0, <3>1, <3>2 DEF RowIds
      <4>2. \/ rows'[m] = rows[m]
            \/ rows[m].st = "folded" /\ rows'[m] = Replayed(rows[m])
        BY <1>8, <2>4, <3>2, CommitWrites
      <4> QED
        BY <2>2, <4>1, <4>2
    <3>3. ASSUME NEW m \in RowIds, m = nrows + 1 PROVE Agrees(m)'
      <4>1. ~(copies[m] > 0) /\ ~(late[m] > 0)
        BY <1>a, <3>1, <3>3 DEF Agrees, Created
      <4>2. /\ rows'[m].st = "pending" /\ rows'[m].owner = NoOne /\ rows'[m].attempts = 0
            /\ m <= nrows'
        BY <1>0, <3>1, <3>3 DEF NewRow
      <4> QED
        BY <2>1, <4>1, <4>2, TriesAssumption DEF Agrees, Created
    <3> QED
      BY <1>b, <3>2, <3>3
  <2> QED
    BY <1>8, <2>3, <2>4 DEF CommitReplay
<1>9. ASSUME NEW r \in Replicas, Lead(r) \/ Failure(r) PROVE RowsOK'
  <2>1. Quiet
    BY <1>9, QuietRelay
  <2> QED
    BY <1>1, <1>9, <2>1
    DEF Lead, Acquire, StartPoll, RenewFails, HeartbeatFails, Failure, PollRaises, Crash,
        Restart, Unchanged_DB
<1>10. ASSUME NEW r \in Replicas, Relay(r) PROVE RowsOK'
  <2>1. CASE Claim(r) \/ EndPoll(r) \/ Abandon(r) \/ Dispatch(r)
             \/ (Finish(r) /\ ~StillOwned(r)) \/ (Tail(r) /\ lost[r])
    <3>1. Quiet
      BY <2>1, QuietRelay
    <3> QED
      BY <1>1, <2>1, <3>1 DEF Claim, EndPoll, Abandon, Dispatch, Finish, Tail, Unchanged_DB
  <2> QED
    BY <1>3, <1>5, <1>6, <1>7, <1>10, <2>1 DEF Relay
<1>11. CASE LeaseExpires \/ UNCHANGED vars
  <2>1. Quiet
    BY <1>11, QuietOthers
  <2> QED
    BY <1>1, <1>11, <2>1 DEF LeaseExpires, Unchanged_DB, vars
<1>12. ASSUME NEW m \in RowIds, Timer(m) PROVE RowsOK'
  <2>1. Quiet
    BY <1>12, QuietOthers
  <2> QED
    BY <1>1, <1>4, <1>12, <2>1 DEF Timer, BackoffElapses, ClaimExpires
<1>13. ASSUME NEW d \in Letters, Discard(d) \/ \E e \in Events : DeadLetter(d, e)
       PROVE  RowsOK'
  <2>1. Quiet
    BY <1>13, QuietOthers
  <2> QED
    BY <1>1, <1>13, <2>1 DEF Discard, DeadLetter
<1>14. ASSUME NEW a \in Operators, Operate(a), ~CommitReplay(a) PROVE RowsOK'
  <2>1. Quiet
    BY <1>14, QuietOthers DEF Operate
  <2> QED
    BY <1>1, <1>14, <2>1 DEF Operate, LockTarget, LockKey, Recheck, AbortReplay
<1> QED
  BY <1>2, <1>8, <1>9, <1>10, <1>11, <1>12, <1>13, <1>14 DEF Next

\* Steps that create no row and queue or replay none.
Settling ==
  \A m \in RowIds :
    /\ rows'[m].event = rows[m].event
    /\ rows'[m].st = "none" <=> rows[m].st = "none"
    /\ rows'[m].st = "pending" => rows[m].st = "pending"
    /\ rows'[m].st = "replayed" => rows[m].st = "replayed"
    /\ rows[m].st = "folded" => rows'[m].st = "folded"

\* All steps but Enqueue and CommitReplay are of that kind.
LEMMA NextSettling ==
  ASSUME IInv, [Next]_vars
  PROVE  \/ Settling
         \/ \E e \in Events : Enqueue(e)
         \/ \E a \in Operators : CommitReplay(a)
<1>0. rows \in [RowIds -> Row]
  BY DEF IInv, TypeOK
<1>1. Quiet => Settling
  BY DEF Quiet, Settling
<1>2. ASSUME NEW r \in Replicas, Finish(r), StillOwned(r) PROVE Settling
  <2>1. pc[r] = "answered"
    BY <1>2 DEF Finish
  <2>2. /\ rows[hand[r]].st = "pending"
        /\ rows'[hand[r]].event = rows[hand[r]].event
        /\ rows'[hand[r]].st \in {"published", "folded", "pending"}
    BY <1>2, <2>1, FencePending, FinishWrites, SettledWrites
  <2> QED
    BY <1>2, <2>2, FinishWrites DEF Settling
<1>3. ASSUME NEW r \in Replicas, Tail(r), ~lost[r] PROVE Settling
  BY <1>0, <1>3, TailWrites, RowWrites DEF Settling
<1>4. ASSUME NEW r \in Replicas, Lead(r) \/ Relay(r) \/ Failure(r) PROVE Settling
  BY <1>1, <1>2, <1>3, <1>4, QuietRelay DEF Relay
<1>5. ASSUME \/ LeaseExpires \/ UNCHANGED vars
             \/ \E m \in RowIds : Timer(m)
             \/ \E d \in Letters : Discard(d) \/ \E e \in Events : DeadLetter(d, e)
      PROVE  Settling
  BY <1>1, <1>5, QuietOthers
<1>6. ASSUME NEW a \in Operators, Operate(a), ~CommitReplay(a) PROVE Settling
  BY <1>1, <1>6, QuietOthers DEF Operate
<1> QED
  BY <1>4, <1>5, <1>6 DEF Next

\* The rows of an event keep their order of service.
LEMMA NextChain == ASSUME IInv, [Next]_vars PROVE ChainOK'
<1>0. /\ rows \in [RowIds -> Row] /\ nrows \in 0..NumRows /\ ChainOK /\ Monotone
      /\ \A m \in RowIds : rows[m].st # "none" <=> m <= nrows
  BY NextMonotone DEF IInv, TypeOK, RowsOK, Created
<1>1. CASE Settling
  BY <1>0, <1>1 DEF Settling, ChainOK, Created
<1>2. ASSUME NEW e \in Events, Enqueue(e) PROVE ChainOK'
  <2> DEFINE k == nrows + 1
  <2>1. /\ k \in RowIds /\ rows'[k].event = e /\ rows'[k].st = "pending"
        /\ \A n \in RowIds : n # k => rows'[n] = rows[n]
    <3>1. /\ k \in RowIds /\ rows'[k] = NewRow(e, e \notin Poison)
          /\ \A n \in RowIds : n # k => rows'[n] = rows[n]
      BY <1>2, EnqueueWrites
    <3> QED
      BY <3>1 DEF NewRow
  <2>2. \A n \in RowIds : rows[n].st # "none" => rows[n].event # e /\ n < k
    <3>1. ASSUME NEW n \in RowIds, rows[n].st # "none" PROVE rows[n].event # e /\ n <= nrows
      BY <1>0, <1>2, <3>1 DEF Enqueue, EventExists
    <3> QED
      BY <1>0, <3>1 DEF RowIds
  <2>3. \A n \in RowIds : n # k /\ rows'[n].st # "none" => n <= k
    BY <1>0, <2>1, <2>2 DEF RowIds
  <2>4. \A m, n \in RowIds :
          rows'[m].st = "pending" /\ rows'[n].st # "none" /\ rows'[n].event = rows'[m].event
            => n <= m
    BY <1>0, <2>1, <2>2, <2>3 DEF ChainOK, Created, RowIds
  <2>5. ASSUME NEW m \in RowIds, rows'[m].st = "replayed"
        PROVE  \E n \in RowIds : n > m /\ rows'[n].st # "none" /\ rows'[n].event = rows'[m].event
    <3>1. m # k /\ rows[m].st = "replayed"
      BY <2>1, <2>5
    <3>2. PICK n \in RowIds : n > m /\ rows[n].st # "none" /\ rows[n].event = rows[m].event
      BY <1>0, <3>1 DEF ChainOK, Created
    <3> QED
      BY <1>0, <3>1, <3>2 DEF Monotone, Created
  <2> QED
    BY <2>4, <2>5 DEF ChainOK, Created
<1>3. ASSUME NEW a \in Operators, CommitReplay(a) PROVE ChainOK'
  <2>t. PICK t : t = target[a]
    OBVIOUS
  <2>1. /\ t \in RowIds \cup Letters
        /\ t \in RowIds => t \notin Letters /\ rows[t].st = "folded"
    BY <1>3, <2>t, CommitWrites
  <2>2. \A n \in RowIds : rows[n].st # "none" =>
          /\ rows'[n].event = rows[n].event
          /\ IF n = t THEN rows'[n].st = "replayed" ELSE rows'[n].st = rows[n].st
    <3>1. \A n \in RowIds : rows[n].st # "none" =>
            rows'[n] = IF n = t THEN Replayed(rows[n]) ELSE rows[n]
      BY <1>3, <2>t, CommitWrites
    <3> QED
      BY <1>0, <3>1, RowWrites
  <2>3. ASSUME NEW m \in RowIds, rows[m].st = "replayed"
        PROVE  \E n \in RowIds : n > m /\ rows'[n].st # "none" /\ rows'[n].event = rows'[m].event
    <3>1. PICK n \in RowIds : n > m /\ rows[n].st # "none" /\ rows[n].event = rows[m].event
      BY <1>0, <2>3 DEF ChainOK, Created
    <3> QED
      BY <1>0, <2>3, <3>1 DEF Monotone, Created
  <2>4. CASE apc[a] = "confirm"
    <3>1. \A n \in RowIds : rows[n].st = "none" => rows'[n].st = "none"
      BY <1>3, <2>t, <2>1, <2>4, CommitWrites
    <3>2. \A m, n \in RowIds :
            rows'[m].st = "pending" /\ rows'[n].st # "none" /\ rows'[n].event = rows'[m].event
              => n <= m
      BY <1>0, <2>2, <3>1 DEF ChainOK, Created
    <3>3. t \in RowIds => \E n \in RowIds : /\ n > t /\ rows[n].st # "none"
                                            /\ rows[n].event = rows[t].event
      BY <2>t, <2>4 DEF IInv, OperatorsOK, Created
    <3>4. t \in RowIds => \E n \in RowIds : /\ n > t /\ rows'[n].st # "none"
                                            /\ rows'[n].event = rows'[t].event
      BY <1>0, <2>1, <3>3 DEF Monotone, Created
    <3>5. \A m \in RowIds : rows'[m].st = "replayed" => m = t \/ rows[m].st = "replayed"
      BY <2>2, <3>1
    <3> QED
      BY <2>3, <3>2, <3>4, <3>5 DEF ChainOK, Created
  <2>5. CASE apc[a] = "fresh"
    <3>k. PICK k : k = nrows + 1
      OBVIOUS
    <3>e. PICK e : e = TargetEvent(t)
      OBVIOUS
    <3>1. /\ k \in RowIds /\ rows[k].st = "none" /\ rows'[k].st = "pending"
          /\ rows'[k].event = e
          /\ \A n \in RowIds : n # k /\ rows[n].st = "none" => rows'[n] = rows[n]
      <4>1. /\ k \in RowIds /\ rows[k].st = "none" /\ rows'[k] = NewRow(e, TRUE)
            /\ \A n \in RowIds : n # k => rows'[n] = IF n = t THEN Replayed(rows[n]) ELSE rows[n]
        BY <1>3, <2>t, <2>5, <3>k, <3>e, CommitWrites
      <4> QED
        BY <2>1, <4>1 DEF NewRow
    <3>2. \A n \in RowIds : rows[n].st # "none" => n < k
      BY <1>0, <3>k DEF RowIds
    <3>3. \A n \in RowIds : rows[n].st = "pending" => rows[n].event # e
      BY <2>t, <2>5, <3>e DEF IInv, OperatorsOK, ActiveRow
    <3>4. \A m, n \in RowIds :
            rows'[m].st = "pending" /\ rows'[n].st # "none" /\ rows'[n].event = rows'[m].event
              => n <= m
      <4>1. ASSUME NEW m \in RowIds, NEW n \in RowIds, rows'[m].st = "pending",
                   rows'[n].st # "none", rows'[n].event = rows'[m].event
            PROVE  n <= m
        <5>1. CASE m = k
          BY <3>1, <3>2, <4>1, <5>1 DEF RowIds
        <5>2. CASE m # k /\ n = k
          BY <2>2, <3>1, <3>3, <4>1, <5>2
        <5>3. CASE m # k /\ n # k
          BY <1>0, <2>2, <3>1, <4>1, <5>3 DEF ChainOK, Created
        <5> QED
          BY <5>1, <5>2, <5>3
      <4> QED
        BY <4>1
    <3>5. t \in RowIds => k > t /\ rows'[t].event = e
      BY <2>1, <2>2, <3>1, <3>2, <3>e DEF TargetEvent, RowIds
    <3>6. \A m \in RowIds : rows'[m].st = "replayed" => m = t \/ rows[m].st = "replayed"
      BY <2>2, <3>1
    <3>7. \A m \in RowIds : rows'[m].st = "replayed" =>
            \E n \in RowIds : n > m /\ rows'[n].st # "none" /\ rows'[n].event = rows'[m].event
      BY <2>3, <3>1, <3>5, <3>6
    <3> QED
      BY <3>4, <3>7 DEF ChainOK, Created
  <2> QED
    BY <1>3, <2>4, <2>5 DEF CommitReplay
<1> QED
  BY <1>1, <1>2, <1>3, NextSettling

\* The locks an operator holds keep their worth.
LEMMA NextOperators == ASSUME IInv, [Next]_vars PROVE OperatorsOK'
<1> DEFINE Holds(a) ==
      /\ apc[a] = "idle" <=> target[a] = NoOne
      /\ target[a] # NoOne => Replayable(target[a])
      /\ apc[a] = "fresh" => ~ActiveRow(TargetEvent(target[a]))
      /\ apc[a] \in {"dup", "confirm"} /\ target[a] \in RowIds =>
           \E n \in RowIds : /\ n > target[a] /\ Created(n)
                             /\ rows[n].event = rows[target[a]].event
    Apart(a, b) ==
      /\ target[a] = target[b] /\ target[a] # NoOne => a = b
      /\ apc[a] \in KeyHeld /\ apc[b] \in KeyHeld
           /\ TargetEvent(target[a]) = TargetEvent(target[b]) => a = b
<1>a. \A a, b \in Operators : Holds(a) /\ Apart(a, b)
  BY DEF IInv, OperatorsOK
<1>b. (\A a, b \in Operators : Holds(a)' /\ Apart(a, b)') => OperatorsOK'
  BY DEF OperatorsOK
<1>0. /\ TypeOK /\ Monotone
      /\ \A t \in RowIds : t \notin Letters /\ t # NoOne
      /\ \A t \in Letters : t # NoOne
  BY NextMonotone, LettersAssumption, NoOneAssumption DEF IInv
<1>c. \A a \in Operators : apc[a] # "idle" => target[a] \in RowIds \cup Letters
  BY <1>0, <1>a DEF TypeOK
\* targets whose row and letter are untouched keep everything
<1>1. ASSUME NEW a \in Operators, apc'[a] = apc[a], target'[a] = target[a],
             target[a] \in Letters => letters'[target[a]] = letters[target[a]],
             target[a] \in RowIds => rows'[target[a]].st = "folded",
             apc[a] = "fresh" => ~ActiveRow(TargetEvent(target[a]))'
      PROVE  /\ Holds(a)'
             /\ apc[a] # "idle" => TargetEvent(target[a])' = TargetEvent(target[a])
  <2>1. Holds(a) /\ target[a] \in RowIds \cup Letters \cup {NoOne}
    BY <1>0, <1>a DEF TypeOK
  <2>2. target[a] \in RowIds => Created(target[a]) /\ rows'[target[a]].event = rows[target[a]].event
    BY <1>0, <2>1 DEF Replayable, Created, Monotone
  <2>3. apc[a] # "idle" => TargetEvent(target[a])' = TargetEvent(target[a])
    BY <1>0, <1>1, <1>c, <2>2 DEF TargetEvent
  <2>4. target'[a] # NoOne => Replayable(target[a])'
    BY <1>0, <1>1, <2>1 DEF Replayable
  <2>5. apc[a] \in {"dup", "confirm"} /\ target[a] \in RowIds =>
           \E n \in RowIds : /\ n > target[a] /\ rows'[n].st # "none"
                             /\ rows'[n].event = rows'[target[a]].event
    BY <1>0, <2>1, <2>2 DEF Monotone, Created
  <2> QED
    BY <1>1, <2>1, <2>3, <2>4, <2>5 DEF Created
\* rows and letters held by operators, when no operator commits
<1>2. ASSUME UNCHANGED adminVars,
             \A d \in Letters : (\E a \in Operators : target[a] = d) => letters'[d] = letters[d],
             Settling
      PROVE  OperatorsOK'
  <2>1. ASSUME NEW a \in Operators
        PROVE  Holds(a)' /\ (apc[a] # "idle" => TargetEvent(target[a])' = TargetEvent(target[a]))
    <3>1. apc'[a] = apc[a] /\ target'[a] = target[a]
      BY <1>2 DEF adminVars
    <3>2. target[a] \in RowIds => rows'[target[a]].st = "folded"
      BY <1>0, <1>2, <1>a DEF Settling, Replayable
    <3>3. apc[a] # "idle" => TargetEvent(target[a])' = TargetEvent(target[a])
      BY <1>0, <1>2, <1>c, <3>1 DEF TargetEvent, Settling
    <3>4. apc[a] = "fresh" => ~ActiveRow(TargetEvent(target[a]))'
      BY <1>2, <1>a, <3>3 DEF ActiveRow, Settling
    <3> QED
      BY <1>1, <1>2, <3>1, <3>2, <3>4
  <2>2. ASSUME NEW a \in Operators, NEW b \in Operators PROVE Apart(a, b)'
    BY <1>2, <1>a, <2>1 DEF adminVars, KeyHeld
  <2> QED
    BY <1>b, <2>1, <2>2
<1>3. ASSUME NEW e \in Events, Enqueue(e) PROVE OperatorsOK'
  <2>0. apc' = apc /\ target' = target /\ letters' = letters /\ ~KeyLocked(e)
    BY <1>3 DEF Enqueue, adminVars
  <2>1. \A n \in RowIds : rows[n].st # "none" => rows'[n] = rows[n]
    BY <1>3, EnqueueWrites
  <2>2. \A n \in RowIds : rows'[n].st = "pending" =>
          \/ rows[n].st = "pending" /\ rows'[n].event = rows[n].event
          \/ rows'[n].event = e
    <3>1. /\ nrows + 1 \in RowIds /\ rows'[nrows + 1] = NewRow(e, e \notin Poison)
          /\ \A n \in RowIds : n # nrows + 1 => rows'[n] = rows[n]
      BY <1>3, EnqueueWrites
    <3> QED
      BY <3>1 DEF NewRow
  <2>3. ASSUME NEW a \in Operators
        PROVE  Holds(a)' /\ (apc[a] # "idle" => TargetEvent(target[a])' = TargetEvent(target[a]))
    <3>1. target[a] \in RowIds => rows[target[a]].st = "folded" /\ rows'[target[a]] = rows[target[a]]
      BY <1>0, <1>a, <2>1 DEF Replayable
    <3>2. apc[a] # "idle" => TargetEvent(target[a])' = TargetEvent(target[a])
      BY <1>0, <1>c, <2>0, <3>1 DEF TargetEvent
    <3>3. apc[a] = "fresh" => TargetEvent(target[a]) # e
      BY <2>0 DEF KeyLocked, KeyHeld
    <3>4. apc[a] = "fresh" => ~ActiveRow(TargetEvent(target[a]))'
      BY <1>a, <2>2, <3>2, <3>3 DEF ActiveRow
    <3> QED
      BY <1>1, <2>0, <3>1, <3>4
  <2>4. ASSUME NEW a \in Operators, NEW b \in Operators PROVE Apart(a, b)'
    BY <1>a, <2>0, <2>3 DEF KeyHeld
  <2> QED
    BY <1>b, <2>3, <2>4
\* steps of one operator that leave rows and letters alone
<1>4. ASSUME NEW a \in Operators, UNCHANGED <<rows, letters>>,
             \A b \in Operators : b # a => apc'[b] = apc[b] /\ target'[b] = target[b],
             Holds(a)',
             \A b \in Operators : b # a => Apart(a, b)' /\ Apart(b, a)'
      PROVE  OperatorsOK'
  <2>1. ASSUME NEW b \in Operators, b # a PROVE Holds(b)'
    BY <1>4, <1>a, <2>1 DEF Replayable, ActiveRow, TargetEvent, Created
  <2>2. ASSUME NEW b \in Operators, NEW c \in Operators, b # a, c # a PROVE Apart(b, c)'
    BY <1>4, <1>a, <2>2 DEF TargetEvent
  <2>3. Apart(a, a)'
    OBVIOUS
  <2> QED
    BY <1>b, <1>4, <2>1, <2>2, <2>3
<1>5. ASSUME NEW a \in Operators, NEW t \in RowIds \cup Letters, LockTarget(a, t)
      PROVE  OperatorsOK'
  <2>1. /\ rows' = rows /\ letters' = letters
        /\ apc'[a] = "locked" /\ target'[a] = t
        /\ \A b \in Operators : b # a => apc'[b] = apc[b] /\ target'[b] = target[b]
        /\ \A b \in Operators : target[b] # t
        /\ Replayable(t)
    BY <1>0, <1>5 DEF LockTarget, TypeOK
  <2>2. Holds(a)'
    BY <1>0, <2>1 DEF Replayable
  <2>3. ASSUME NEW b \in Operators, b # a PROVE Apart(a, b)' /\ Apart(b, a)'
    BY <2>1, <2>3 DEF KeyHeld
  <2> QED
    BY <1>4, <2>1, <2>2, <2>3
<1>6. ASSUME NEW a \in Operators, AbortReplay(a) \/ (Recheck(a) /\ ~ActiveRow(TargetEvent(target[a])))
      PROVE  OperatorsOK'
  <2>1. /\ rows' = rows /\ letters' = letters
        /\ apc'[a] = "idle" /\ target'[a] = NoOne
        /\ \A b \in Operators : b # a => apc'[b] = apc[b] /\ target'[b] = target[b]
    BY <1>0, <1>6 DEF AbortReplay, Recheck, TypeOK
  <2>2. Holds(a)'
    BY <1>0, <2>1
  <2>3. ASSUME NEW b \in Operators, b # a PROVE Apart(a, b)' /\ Apart(b, a)'
    BY <2>1, <2>3 DEF KeyHeld
  <2> QED
    BY <1>4, <2>1, <2>2, <2>3
<1>7. ASSUME NEW a \in Operators, Recheck(a), ActiveRow(TargetEvent(target[a]))
      PROVE  OperatorsOK'
  <2>1. /\ rows' = rows /\ letters' = letters /\ target' = target
        /\ apc[a] = "dup" /\ apc'[a] = "confirm"
        /\ \A b \in Operators : b # a => apc'[b] = apc[b]
    BY <1>0, <1>7 DEF Recheck, TypeOK
  <2>2. Holds(a)'
    BY <1>a, <2>1 DEF Replayable, Created
  <2>3. ASSUME NEW b \in Operators, b # a PROVE Apart(a, b)' /\ Apart(b, a)'
    BY <1>a, <2>1, <2>3 DEF KeyHeld, TargetEvent
  <2> QED
    BY <1>4, <2>1, <2>2, <2>3
<1>8. ASSUME NEW a \in Operators, LockKey(a) PROVE OperatorsOK'
  <2> DEFINE e == TargetEvent(target[a])
  <2>1. /\ rows' = rows /\ letters' = letters /\ target' = target
        /\ apc[a] = "locked" /\ ~KeyLocked(e)
        /\ apc'[a] = IF ActiveRow(e) THEN "dup" ELSE "fresh"
        /\ \A b \in Operators : b # a => apc'[b] = apc[b]
    BY <1>0, <1>8 DEF LockKey, TypeOK
  <2>2. target[a] \in RowIds /\ ActiveRow(e) =>
          \E n \in RowIds : n > target[a] /\ Created(n) /\ rows[n].event = rows[target[a]].event
    <3>1. ASSUME target[a] \in RowIds, ActiveRow(e)
          PROVE  \E n \in RowIds : n > target[a] /\ Created(n) /\ rows[n].event = rows[target[a]].event
      <4>1. PICK n \in RowIds : rows[n].st = "pending" /\ rows[n].event = e
        BY <3>1 DEF ActiveRow
      <4>2. rows[target[a]].st = "folded" /\ e = rows[target[a]].event
        BY <1>0, <1>a, <3>1 DEF Replayable, TargetEvent
      <4>3. target[a] <= n /\ target[a] # n
        BY <3>1, <4>1, <4>2 DEF IInv, ChainOK, Created
      <4> QED
        BY <3>1, <4>1, <4>2, <4>3 DEF Created, RowIds
    <3> QED
      BY <3>1
  <2>3. Holds(a)'
    <3>1. e' = e /\ (ActiveRow(e)' <=> ActiveRow(e))
      BY <2>1 DEF TargetEvent, ActiveRow
    <3>2. target[a] # NoOne /\ Replayable(target[a])
      BY <1>a, <2>1
    <3> QED
      BY <2>1, <2>2, <3>1, <3>2 DEF Replayable, Created
  <2>4. ASSUME NEW b \in Operators, b # a PROVE Apart(a, b)' /\ Apart(b, a)'
    BY <1>a, <2>1, <2>4 DEF KeyHeld, TargetEvent, KeyLocked
  <2> QED
    BY <1>4, <2>1, <2>3, <2>4
<1>9. ASSUME NEW a \in Operators, CommitReplay(a) PROVE OperatorsOK'
  <2>t. PICK t : t = target[a]
    OBVIOUS
  <2>e. PICK e : e = TargetEvent(t)
    OBVIOUS
  <2>1. /\ t \in RowIds \cup Letters /\ t # NoOne
        /\ apc[a] \in KeyHeld
        /\ apc'[a] = "idle" /\ target'[a] = NoOne
        /\ \A b \in Operators : b # a => apc'[b] = apc[b] /\ target'[b] = target[b]
        /\ \A d \in Letters : d # t => letters'[d] = letters[d]
    BY <1>0, <1>9, <1>c, <2>t DEF CommitReplay, TypeOK, KeyHeld
  <2>2. \A n \in RowIds : rows[n].st # "none" /\ n # t => rows'[n] = rows[n]
    BY <1>9, <2>t, CommitWrites
  <2>3. \A n \in RowIds : rows'[n].st = "pending" =>
          \/ rows[n].st = "pending" /\ rows'[n] = rows[n]
          \/ rows'[n].event = e
    <3>1. \/ \A n \in RowIds : rows'[n] = IF n = t THEN Replayed(rows[n]) ELSE rows[n]
          \/ /\ nrows + 1 \in RowIds /\ rows'[nrows + 1] = NewRow(e, TRUE)
             /\ \A n \in RowIds : n # nrows + 1 =>
                  rows'[n] = IF n = t THEN Replayed(rows[n]) ELSE rows[n]
      BY <1>9, <2>t, <2>e, CommitWrites
    <3>2. NewRow(e, TRUE).event = e
      BY DEF NewRow
    <3>3. t \in RowIds => Replayed(rows[t]).st = "replayed"
      BY <1>0, RowWrites DEF TypeOK
    <3> QED
      BY <3>1, <3>2, <3>3
  <2>4. ASSUME NEW b \in Operators, b # a
        PROVE  Holds(b)' /\ (apc[b] # "idle" => TargetEvent(target[b])' = TargetEvent(target[b]))
    <3>1. target[b] # t
      BY <1>a, <2>t, <2>1, <2>4
    <3>2. target[b] \in RowIds => rows[target[b]].st = "folded" /\ rows'[target[b]] = rows[target[b]]
      BY <1>0, <1>a, <2>2, <3>1 DEF Replayable
    <3>3. apc[b] # "idle" => TargetEvent(target[b])' = TargetEvent(target[b])
      BY <1>0, <1>c, <2>1, <2>4, <3>1, <3>2 DEF TargetEvent
    <3>4. apc[b] = "fresh" => TargetEvent(target[b]) # e
      BY <1>a, <2>t, <2>e, <2>1, <2>4 DEF KeyHeld
    <3>5. apc[b] = "fresh" => ~ActiveRow(TargetEvent(target[b]))'
      BY <1>a, <2>3, <3>3, <3>4 DEF ActiveRow
    <3> QED
      BY <1>1, <2>1, <2>4, <3>1, <3>2, <3>5
  <2>5. Holds(a)'
    BY <1>0, <2>1
  <2>6. ASSUME NEW b \in Operators, NEW c \in Operators PROVE Apart(b, c)'
    <3>1. CASE b = a \/ c = a
      BY <2>1, <3>1 DEF KeyHeld
    <3>2. CASE b # a /\ c # a
      BY <1>a, <2>1, <2>4, <3>2 DEF KeyHeld
    <3> QED
      BY <3>1, <3>2
  <2> QED
    BY <1>b, <2>4, <2>5, <2>6
<1>10. ASSUME NEW a \in Operators, Operate(a) PROVE OperatorsOK'
  BY <1>5, <1>6, <1>7, <1>8, <1>9, <1>10 DEF Operate
<1>11. ASSUME ~ \E e \in Events : Enqueue(e), ~ \E a \in Operators : Operate(a)
       PROVE  OperatorsOK'
  <2>1. Settling
    BY <1>11, NextSettling DEF Operate
  <2>2. UNCHANGED adminVars
    BY <1>11
    DEF Next, vars, Lead, Acquire, StartPoll, RenewFails, HeartbeatFails, Relay, Claim, EndPoll,
        Abandon, Dispatch, BrokerAccepts, PublishReturns, Finish, Tail, Failure, PollRaises,
        Crash, Restart, LeaseExpires, Timer, BackoffElapses, ClaimExpires, LateArrives, Discard,
        DeadLetter, Unchanged_DB, adminVars
  <2>3. ASSUME NEW d \in Letters, \E a \in Operators : target[a] = d
        PROVE  letters'[d] = letters[d]
    <3>1. CASE UNCHANGED letters
      BY <3>1
    <3>2. ASSUME NEW x \in Letters, Discard(x) PROVE letters'[d] = letters[d]
      BY <1>0, <2>3, <3>2 DEF Discard, TypeOK
    <3>3. ASSUME NEW x \in Letters, NEW e \in Events, DeadLetter(x, e)
          PROVE  letters'[d] = letters[d]
      <4>1. letters[d].st = "pending"
        BY <1>0, <1>a, <2>3 DEF Replayable
      <4> QED
        BY <1>0, <3>3, <4>1 DEF DeadLetter, TypeOK
    <3> QED
      BY <1>11, <3>1, <3>2, <3>3
      DEF Next, vars, Lead, Acquire, StartPoll, RenewFails, HeartbeatFails, Relay, Claim, EndPoll,
          Abandon, Dispatch, BrokerAccepts, PublishReturns, Finish, Tail, Failure, PollRaises,
          Crash, Restart, LeaseExpires, Timer, BackoffElapses, ClaimExpires, LateArrives,
          Unchanged_DB
  <2> QED
    BY <1>2, <2>1, <2>2, <2>3
<1> QED
  BY <1>3, <1>10, <1>11

-----------------------------------------------------------------------------
(* Theorems *)

\* The tables start in order.
LEMMA InitIInv == Init => IInv
<1> SUFFICES ASSUME Init PROVE IInv
  OBVIOUS
<1>1. TypeOK
  BY InitType
<1>2. \A m \in RowIds : rows[m].st = "none" /\ rows[m].owner = NoOne
  BY DEF Init, NewRow
<1>3. HandOK
  BY DEF Init, HandOK, Working
<1>4. RowsOK
  <2>1. ASSUME NEW m \in RowIds PROVE ~(m <= nrows) /\ ~(copies[m] > 0) /\ ~(late[m] > 0)
    BY DEF Init, RowIds
  <2> QED
    BY <1>2, <2>1 DEF RowsOK, Created
<1>5. ChainOK
  BY <1>2 DEF ChainOK
<1>6. OperatorsOK
  BY DEF Init, OperatorsOK, KeyHeld
<1> QED
  BY <1>1, <1>3, <1>4, <1>5, <1>6 DEF IInv

\* The invariant is inductive, for any number of replicas, operators, events,
\* rows and faults.
THEOREM Inductive == Spec => []IInv
<1>1. Init => IInv
  BY InitIInv
<1>2. IInv /\ [Next]_vars => IInv'
  <2> SUFFICES ASSUME IInv, [Next]_vars PROVE IInv'
    OBVIOUS
  <2>1. TypeOK'
    BY NextType DEF IInv
  <2> QED
    BY <2>1, NextHand, NextRows, NextChain, NextOperators DEF IInv
<1> QED
  BY <1>1, <1>2, PTL DEF Spec

\* The variables keep their types.
THEOREM TypeCorrect == Spec => []TypeOK
<1>1. IInv => TypeOK
  BY DEF IInv
<1> QED
  BY <1>1, Inductive, PTL

\* enqueue_outbox, relay_poll, replay_failure and requeue never drop an event:
\* its newest row is waiting, accepted by the broker, or with an operator.
THEOREM EventsKept == Spec => []NoEventDropped
<1>1. IInv => NoEventDropped
  <2> SUFFICES ASSUME IInv, NEW m \in RowIds, Created(m), Newest(m)
               PROVE  \/ rows[m].st \in {"pending", "folded"}
                      \/ rows[m].st \in {"published", "archived"} /\ copies[m] > 0
    BY DEF NoEventDropped
  <2>1. rows[m].st # "replayed"
    <3>1. SUFFICES ASSUME rows[m].st = "replayed" PROVE FALSE
      OBVIOUS
    <3>2. PICK n \in RowIds : n > m /\ Created(n) /\ rows[n].event = rows[m].event
      BY <3>1 DEF IInv, ChainOK
    <3> QED
      BY <3>2 DEF Newest, RowIds
  <2>2. rows[m].st \in RowStates /\ rows[m].st # "none"
    BY DEF IInv, TypeOK, Row, Created
  <2> QED
    BY <2>1, <2>2 DEF IInv, RowsOK, RowStates
<1> QED
  BY <1>1, Inductive, PTL

\* Concurrent replays and requeues never queue one event twice.
THEOREM QueuedOnce == Spec => []OnePendingRow
<1>1. IInv => OnePendingRow
  <2> SUFFICES ASSUME IInv, NEW m \in RowIds, NEW n \in RowIds,
                      rows[m].st = "pending", rows[n].st = "pending",
                      rows[m].event = rows[n].event
               PROVE  m = n
    BY DEF OnePendingRow
  <2>1. m <= n /\ n <= m
    BY DEF IInv, ChainOK, Created
  <2> QED
    BY <2>1 DEF RowIds
<1> QED
  BY <1>1, Inductive, PTL

\* event_failures holds what it says it holds.
THEOREM FoldsJustified == Spec => []FoldedForAReason
<1>1. IInv => FoldedForAReason
  <2> SUFFICES ASSUME IInv, NEW m \in RowIds
               PROVE  /\ rows[m].st \in {"folded", "replayed"} /\ rows[m].valid
                           => rows[m].attempts = MAX_TRIES
                      /\ ~rows[m].valid => copies[m] = 0 /\ late[m] = 0
    BY DEF FoldedForAReason
  <2>1. copies[m] \in Nat /\ late[m] \in Nat
    BY DEF IInv, TypeOK
  <2> QED
    BY <2>1 DEF IInv, RowsOK
<1> QED
  BY <1>1, Inductive, PTL

\* No stale claimant rewrites a settled row.
THEOREM SettledStay == Spec => SettledRowsStay
<1> DEFINE Stays(m) ==
      /\ rows[m].st = "published" => rows'[m].st \in {"published", "archived"}
      /\ rows[m].st = "archived" => rows'[m].st = "archived"
      /\ rows[m].st = "folded" => rows'[m].st \in {"folded", "replayed"}
      /\ rows[m].st \in {"published", "archived", "folded", "replayed"}
           => rows'[m].attempts = rows[m].attempts
<1>1. IInv /\ [Next]_vars => [\A m \in RowIds : Stays(m)]_vars
  <2> SUFFICES ASSUME IInv, [Next]_vars PROVE \A m \in RowIds : Stays(m)
    OBVIOUS
  <2>0. rows \in [RowIds -> Row]
    BY DEF IInv, TypeOK
  <2>1. CASE Quiet
    BY <2>1 DEF Quiet
  <2>2. ASSUME NEW r \in Replicas, Finish(r), StillOwned(r) PROVE \A m \in RowIds : Stays(m)
    <3>1. rows[hand[r]].st = "pending"
      BY <2>2, FencePending DEF Finish
    <3> QED
      BY <2>2, <3>1, FinishWrites
  <2>3. ASSUME NEW r \in Replicas, Tail(r), ~lost[r] PROVE \A m \in RowIds : Stays(m)
    BY <2>0, <2>3, TailWrites, RowWrites
  <2>4. ASSUME NEW e \in Events, Enqueue(e) PROVE \A m \in RowIds : Stays(m)
    BY <2>4, EnqueueWrites
  <2>5. ASSUME NEW a \in Operators, CommitReplay(a) PROVE \A m \in RowIds : Stays(m)
    <3>1. \A n \in RowIds : rows[n].st # "none" =>
            \/ rows'[n] = rows[n]
            \/ rows[n].st = "folded" /\ rows'[n] = Replayed(rows[n])
      BY <2>5, CommitWrites
    <3> QED
      BY <2>0, <3>1, RowWrites
  <2>6. ASSUME NEW r \in Replicas, Lead(r) \/ Relay(r) \/ Failure(r)
        PROVE  \A m \in RowIds : Stays(m)
    BY <2>1, <2>2, <2>3, <2>6, QuietRelay DEF Relay
  <2>7. ASSUME \/ LeaseExpires \/ UNCHANGED vars
               \/ \E m \in RowIds : Timer(m)
               \/ \E d \in Letters : Discard(d) \/ \E e \in Events : DeadLetter(d, e)
        PROVE  \A m \in RowIds : Stays(m)
    BY <2>1, <2>7, QuietOthers
  <2>8. ASSUME NEW a \in Operators, Operate(a), ~CommitReplay(a)
        PROVE  \A m \in RowIds : Stays(m)
    BY <2>1, <2>8, QuietOthers DEF Operate
  <2> QED
    BY <2>4, <2>5, <2>6, <2>7, <2>8 DEF Next
<1> QED
  BY <1>1, Inductive, PTL DEF Spec, SettledRowsStay

-----------------------------------------------------------------------------
(* The price of a copy                                                     *)

\* The claimants that have not sent anything for row m yet.
Works(r, m) == pc[r] \in Working /\ hand[r] = m
Unsent(m) == {r \in Replicas : Works(r, m) /\ pc[r] \in {"claimed", "sending"}}

\* Row m is under a fresh claim of a replica that works on it.
InCharge(m) ==
  rows[m].owner \in Replicas /\ ~rows[m].stale /\ Works(rows[m].owner, m)

Bonus(m) == IF InCharge(m) \/ rows[m].st \in {"published", "archived"} THEN 1 ELSE 0

\* Every copy of row m, sent, still on its way or still to be sent, is paid
\* for by a recorded attempt, by a fault, or by the claim in force (or the
\* success it ended in).
Charge(m) ==
  copies[m] + late[m] + Cardinality(Unsent(m)) <= rows[m].attempts + faults + Bonus(m)

ChargeOK == \A m \in RowIds : Created(m) /\ rows[m].valid => Charge(m)

\* The numbers of the account are natural numbers.
LEMMA ChargeTypes ==
  ASSUME TypeOK, TypeOK', NEW m \in RowIds
  PROVE  /\ copies[m] \in Nat /\ late[m] \in Nat /\ rows[m].attempts \in Nat /\ faults \in Nat
         /\ Bonus(m) \in {0, 1}
         /\ IsFiniteSet(Unsent(m)) /\ Cardinality(Unsent(m)) \in Nat
         /\ copies'[m] \in Nat /\ late'[m] \in Nat /\ rows'[m].attempts \in Nat /\ faults' \in Nat
         /\ Bonus(m)' \in {0, 1}
         /\ IsFiniteSet(Unsent(m)') /\ Cardinality(Unsent(m)') \in Nat
<1>1. Unsent(m) \subseteq Replicas /\ Unsent(m)' \subseteq Replicas
  BY DEF Unsent
<1>2. /\ IsFiniteSet(Unsent(m)) /\ Cardinality(Unsent(m)) \in Nat
      /\ IsFiniteSet(Unsent(m)') /\ Cardinality(Unsent(m)') \in Nat
  BY <1>1, ReplicasAssumption, FS_Subset, FS_CardinalityType
<1>3. /\ rows[m] \in Row /\ rows'[m] \in Row /\ copies[m] \in Nat /\ copies'[m] \in Nat
      /\ faults \in Nat /\ faults' \in Nat /\ late[m] \in Nat /\ late'[m] \in Nat
  BY FaultsAssumption DEF TypeOK
<1>4. rows[m].attempts \in Nat /\ rows'[m].attempts \in Nat
  BY <1>3, TriesAssumption DEF Row
<1> QED
  BY <1>2, <1>3, <1>4 DEF Bonus

\* A step of replica r changes no other's share of the account.
LEMMA OneWorks ==
  ASSUME TypeOK, TypeOK', NEW m \in RowIds, NEW r \in Replicas,
         \A q \in Replicas \ {r} : pc'[q] = pc[q] /\ hand'[q] = hand[q]
  PROVE  /\ r \notin Unsent(m)' =>
              /\ Cardinality(Unsent(m)') <= Cardinality(Unsent(m))
              /\ r \in Unsent(m) => Cardinality(Unsent(m)') = Cardinality(Unsent(m)) - 1
         /\ r \in Unsent(m)' =>
              /\ Cardinality(Unsent(m)') <= Cardinality(Unsent(m)) + 1
              /\ r \in Unsent(m) => Cardinality(Unsent(m)') = Cardinality(Unsent(m))
<1>0. IsFiniteSet(Unsent(m)) /\ Cardinality(Unsent(m)) \in Nat
  BY ChargeTypes
<1>1. \A q \in Replicas \ {r} : q \in Unsent(m)' <=> q \in Unsent(m)
  BY DEF Unsent, Works
<1>2. Unsent(m) \subseteq Replicas /\ Unsent(m)' \subseteq Replicas
  BY DEF Unsent
<1>3. CASE r \notin Unsent(m)'
  <2>1. Unsent(m)' = Unsent(m) \ {r}
    BY <1>1, <1>2, <1>3
  <2> QED
    BY <1>0, <1>3, <2>1, FS_RemoveElement
<1>4. CASE r \in Unsent(m)'
  <2>1. Unsent(m)' = Unsent(m) \cup {r}
    BY <1>1, <1>2, <1>4
  <2>2. CASE r \in Unsent(m)
    <3>1. Unsent(m)' = Unsent(m)
      BY <2>1, <2>2
    <3> QED
      BY <1>0, <1>4, <2>2, <3>1
  <2>3. CASE r \notin Unsent(m)
    <3>1. Cardinality(Unsent(m) \cup {r}) = Cardinality(Unsent(m)) + 1
      BY <1>0, <2>3, FS_AddElement
    <3>2. Cardinality(Unsent(m)') <= Cardinality(Unsent(m)) + 1
      BY <1>0, <2>1, <3>1
    <3> QED
      BY <1>4, <2>3, <3>2
  <2> QED
    BY <2>2, <2>3
<1> QED
  BY <1>3, <1>4

\* Nothing happens to row m, nor on its behalf.
LEMMA Bystander ==
  ASSUME TypeOK, TypeOK', NEW m \in RowIds, Charge(m), faults' >= faults,
         \A q \in Replicas :
           \/ pc'[q] = pc[q] /\ hand'[q] = hand[q]
           \/ ~Works(q, m) /\ ~Works(q, m)',
         rows'[m].attempts = rows[m].attempts, copies'[m] <= copies[m], late'[m] = late[m],
         rows[m].st \in {"published", "archived"} => rows'[m].st \in {"published", "archived"},
         InCharge(m) => rows'[m].owner = rows[m].owner /\ rows'[m].stale = rows[m].stale
  PROVE  Charge(m)'
<1>1. Unsent(m)' = Unsent(m)
  BY DEF Unsent, Works
<1>2. InCharge(m) => InCharge(m)'
  BY DEF InCharge, Works
<1>3. Bonus(m)' >= Bonus(m) /\ late'[m] = late[m]
  BY <1>2 DEF Bonus
<1> HIDE DEF Bonus, Unsent
<1> QED
  BY <1>1, <1>3, ChargeTypes DEF Charge

\* The claimant of row m is r: the account moves as r's share and the claim do.
LEMMA Claimant ==
  ASSUME TypeOK, TypeOK', NEW m \in RowIds, Charge(m), NEW r \in Replicas,
         \A q \in Replicas \ {r} : pc'[q] = pc[q] /\ hand'[q] = hand[q],
         faults' >= faults, rows'[m].attempts >= rows[m].attempts,
         r \notin Unsent(m)',
         \/ copies'[m] = copies[m] /\ late'[m] = late[m]
         \/ r \in Unsent(m) /\ copies'[m] <= copies[m] + 1 /\ late'[m] = late[m]
         \/ r \in Unsent(m) /\ copies'[m] = copies[m] /\ late'[m] = late[m] + 1,
         \/ Bonus(m)' >= Bonus(m)
         \/ faults' = faults + 1 /\ copies'[m] = copies[m] /\ late'[m] = late[m]
         \/ rows'[m].attempts = rows[m].attempts + 1
         \/ r \in Unsent(m) /\ copies'[m] = copies[m] /\ late'[m] = late[m]
  PROVE  Charge(m)'
<1> HIDE DEF Bonus, Unsent
<1>1. /\ Cardinality(Unsent(m)') <= Cardinality(Unsent(m))
      /\ r \in Unsent(m) => Cardinality(Unsent(m)') = Cardinality(Unsent(m)) - 1
  BY OneWorks
<1>2. CASE r \notin Unsent(m)
  BY <1>1, <1>2, ChargeTypes DEF Charge
<1>3. CASE r \in Unsent(m)
  BY <1>1, <1>3, ChargeTypes DEF Charge
<1> QED
  BY <1>2, <1>3

\* Polling, claiming, sending and settling.
LEMMA RelayCharge ==
  ASSUME IInv, ChargeOK, TypeOK', NEW r \in Replicas, Relay(r),
         NEW m \in RowIds, Created(m), rows[m].valid
  PROVE  Charge(m)'
<1>0. /\ TypeOK /\ Charge(m) /\ faults \in Nat /\ rows \in [RowIds -> Row] /\ rows[m] \in Row
      /\ pc \in [Replicas -> {"down", "idle"} \cup Polling]
      /\ hand \in [Replicas -> RowIds \cup {NoOne}] /\ copies \in [RowIds -> Nat]
      /\ late \in [RowIds -> Nat]
  BY FaultsAssumption DEF IInv, TypeOK, ChargeOK
<1>1. faults' = faults /\ \A q \in Replicas \ {r} : pc'[q] = pc[q] /\ hand'[q] = hand[q]
  BY <1>0 DEF Relay, Claim, EndPoll, Abandon, Dispatch, BrokerAccepts, PublishReturns, Finish, Tail
<1>2. CASE Claim(r)
  <2>1. PICK n \in RowIds : /\ NextToClaim(n) /\ rows' = [rows EXCEPT ![n] = Claimed(@, r)]
                            /\ hand' = [hand EXCEPT ![r] = n]
    BY <1>2 DEF Claim
  <2>2. /\ pc[r] = "poll" /\ pc'[r] = "claimed" /\ hand'[r] = n /\ UNCHANGED <<copies, late>>
        /\ rows'[n] = Claimed(rows[n], r) /\ \A k \in RowIds : k # n => rows'[k] = rows[k]
    BY <1>0, <1>2, <2>1 DEF Claim
  <2>3. CASE m # n
    <3>1. ~Works(r, m) /\ ~Works(r, m)'
      BY <2>2, <2>3 DEF Works, Working
    <3> QED
      BY <1>0, <1>1, <2>2, <2>3, <3>1, Bystander
  <2>4. CASE m = n
    <3>1. /\ rows'[m].owner = r /\ ~rows'[m].stale /\ rows'[m].attempts = rows[m].attempts
      <4>1. ~Claimed(rows[m], r).stale
        BY <1>0 DEF Claimed, Row
      <4> QED
        BY <1>0, <2>2, <2>4, <4>1, ClaimWrites
    <3>2. Bonus(m)' = 1
      BY <2>2, <2>4, <3>1 DEF Bonus, InCharge, Works, Working
    <3>3. Bonus(m) = 0
      BY <2>1, <2>4, NoOneAssumption DEF NextToClaim, Claimable, Bonus, InCharge
    <3>4. late'[m] = late[m]
      BY <2>2
    <3>5. r \in Unsent(m)'
      BY <2>2, <2>4 DEF Unsent, Works, Working
    <3>6. Cardinality(Unsent(m)') <= Cardinality(Unsent(m)) + 1
      BY <1>0, <1>1, <3>5, OneWorks
    <3> QED
      BY <1>0, <1>1, <2>2, <3>1, <3>2, <3>3, <3>4, <3>6, ChargeTypes DEF Charge
  <2> QED
    BY <2>3, <2>4
<1>3. CASE EndPoll(r)
  <2>1. ~Works(r, m) /\ ~Works(r, m)' /\ UNCHANGED <<rows, copies, late>>
    BY <1>0, <1>3 DEF EndPoll, Works, Working, Unchanged_DB
  <2> QED
    BY <1>0, <1>1, <2>1, Bystander
<1>4. CASE Tail(r)
  <2>1. ~Works(r, m) /\ ~Works(r, m)' /\ UNCHANGED <<copies, late>>
    BY <1>0, <1>4 DEF Tail, Works, Working
  <2>2. rows'[m] = rows[m] \/ (rows[m].st = "published" /\ rows'[m] = Archived(rows[m]))
    BY <1>4, TailWrites DEF Tail
  <2>3. /\ rows'[m].attempts = rows[m].attempts
        /\ rows'[m].st = rows[m].st \/ rows'[m].st = "archived"
    BY <1>0, <2>2, RowWrites
  <2>4. InCharge(m) => rows'[m] = rows[m]
    BY <2>2, NoOneAssumption DEF InCharge, IInv, RowsOK
  <2> QED
    BY <1>0, <1>1, <2>1, <2>3, <2>4, Bystander
<1>5. CASE hand[r] # m /\ (Abandon(r) \/ Dispatch(r) \/ BrokerAccepts(r) \/ PublishReturns(r) \/ Finish(r))
  <2>1. hand[r] \in RowIds
    BY <1>5 DEF IInv, HandOK, Abandon, Dispatch, BrokerAccepts, PublishReturns, Finish, Working
  <2>2. hand'[r] \in {hand[r], NoOne}
    BY <1>0, <1>5 DEF Abandon, Dispatch, BrokerAccepts, PublishReturns, Finish
  <2>3. ~Works(r, m) /\ ~Works(r, m)'
    BY <1>5, <2>2, NoOneAssumption DEF Works
  <2>4. rows'[m] = rows[m] /\ copies'[m] = copies[m] /\ late'[m] = late[m]
    BY <1>0, <1>5, <2>1 DEF Abandon, Dispatch, BrokerAccepts, PublishReturns, Finish, Unchanged_DB, Accept
  <2> QED
    BY <1>0, <1>1, <2>3, <2>4, Bystander
<1>6. CASE hand[r] = m /\ Abandon(r)
  <2>1. r \in Unsent(m) /\ r \notin Unsent(m)' /\ UNCHANGED <<copies, late>>
    BY <1>0, <1>6 DEF Abandon, Unsent, Works, Working
  <2>2. rows'[m].attempts = rows[m].attempts
    BY <1>0, <1>6, RowWrites DEF Abandon
  <2>3. rows[m].attempts \in Nat /\ late'[m] = late[m] /\ late[m] \in Nat
    BY <1>0, <2>1, ChargeTypes
  <2> QED
    BY <1>0, <1>1, <2>1, <2>2, <2>3, Claimant
<1>7. CASE hand[r] = m /\ Dispatch(r)
  <2>1. /\ pc[r] = "claimed" /\ pc'[r] = "sending" /\ hand'[r] = m
        /\ UNCHANGED <<rows, copies, late>>
    BY <1>0, <1>7 DEF Dispatch, Unchanged_DB
  <2>2. Unsent(m)' = Unsent(m)
    BY <1>1, <1>7, <2>1 DEF Unsent, Works, Working
  <2>3. Bonus(m)' = Bonus(m) /\ late'[m] = late[m]
    <3>1. \A q \in Replicas : Works(q, m)' <=> Works(q, m)
      BY <1>1, <1>7, <2>1 DEF Works, Working
    <3>2. InCharge(m)' <=> InCharge(m)
      BY <2>1, <3>1 DEF InCharge
    <3> QED
      BY <2>1, <3>2 DEF Bonus
  <2> QED
    BY <1>0, <1>1, <2>1, <2>2, <2>3 DEF Charge
<1>8. CASE hand[r] = m /\ (BrokerAccepts(r) \/ PublishReturns(r))
  <2>1. /\ hand'[r] = m /\ pc[r] \in {"sending", "acked"} /\ pc'[r] \in {"acked", "answered"}
        /\ rows' = rows
    BY <1>0, <1>8 DEF BrokerAccepts, PublishReturns
  <2>2. r \notin Unsent(m)' /\ (pc[r] = "sending" => r \in Unsent(m))
    BY <1>8, <2>1 DEF Unsent, Works, Working
  <2>3. Bonus(m)' = Bonus(m)
    <3>1. \A q \in Replicas : Works(q, m)' <=> Works(q, m)
      BY <1>1, <1>8, <2>1 DEF Works, Working
    <3>2. InCharge(m)' <=> InCharge(m)
      BY <2>1, <3>1 DEF InCharge
    <3> QED
      BY <2>1, <3>2 DEF Bonus
  <2>4. /\ rows[m].attempts \in Nat /\ late[m] \in Nat /\ Bonus(m) \in Nat /\ copies[m] \in Nat
        /\ late'[m] \in Nat
    BY <1>0, ChargeTypes
  <2>5. \/ copies'[m] = copies[m] /\ late'[m] = late[m]
        \/ r \in Unsent(m) /\ copies'[m] <= copies[m] + 1 /\ late'[m] = late[m]
        \/ r \in Unsent(m) /\ copies'[m] = copies[m] /\ late'[m] = late[m] + 1
    <3>1. CASE BrokerAccepts(r)
      <4>1. pc[r] = "sending" /\ copies'[m] = copies[m] + 1 /\ late' = late
        BY <1>0, <1>8, <3>1 DEF BrokerAccepts, Accept
      <4>2. late'[m] = late[m]
        BY <4>1
      <4> QED
        BY <2>2, <2>4, <4>1, <4>2
    <3>2. CASE PublishReturns(r) /\ late' = late
      <4>1. copies' = copies /\ late'[m] = late[m]
        BY <3>2 DEF PublishReturns
      <4> QED
        BY <2>4, <4>1
    <3>3. CASE PublishReturns(r) /\ late' # late
      <4>1. copies' = copies /\ pc[r] = "sending" /\ late' = [late EXCEPT ![hand[r]] = @ + 1]
        BY <3>3 DEF PublishReturns
      <4>2. late'[m] = late[m] + 1
        BY <1>0, <1>8, <4>1 DEF TypeOK
      <4> QED
        BY <2>2, <2>4, <4>1, <4>2
    <3> QED
      BY <1>8, <3>1, <3>2, <3>3
  <2>6. rows'[m].attempts >= rows[m].attempts /\ Bonus(m)' >= Bonus(m) /\ faults' >= faults
    BY <1>0, <1>1, <2>1, <2>3, <2>4
  <2> HIDE DEF Bonus
  <2> QED
    BY <1>0, <1>1, <2>2, <2>5, <2>6, Claimant
<1>9. CASE hand[r] = m /\ Finish(r)
  <2>1. /\ pc[r] = "answered" /\ pc'[r] \in {"poll", "tail"} /\ UNCHANGED <<copies, late>>
        /\ answer[r] \in {"ok", "fail"}
    BY <1>0, <1>9 DEF Finish, IInv, TypeOK, HandOK
  <2>2. r \notin Unsent(m)' /\ late'[m] = late[m]
    BY <2>1 DEF Unsent, Works, Working
  <2>3. /\ rows[m].attempts \in Nat /\ late[m] \in Nat /\ Bonus(m) \in {0, 1} /\ copies[m] \in Nat
        /\ Bonus(m)' \in {0, 1}
    BY <1>0, ChargeTypes
  <2>4. CASE StillOwned(r)
    <3>1. /\ rows'[m] = Settled(rows[m], answer[r]) /\ rows[m].st = "pending"
          /\ rows[m].attempts < MAX_TRIES
      BY <1>9, <2>1, <2>4, FinishWrites, FencePending
    <3>2. CASE answer[r] = "ok"
      <4>1. rows'[m].st = "published" /\ rows'[m].attempts = rows[m].attempts
        BY <1>0, <3>1, <3>2, SettledWrites
      <4>2. Bonus(m)' = 1
        BY <4>1 DEF Bonus
      <4> QED
        BY <1>0, <1>1, <2>1, <2>2, <2>3, <4>1, <4>2, Claimant
    <3>3. CASE answer[r] = "fail"
      <4>1. rows'[m].attempts = rows[m].attempts + 1
        <5>1. \/ rows'[m].attempts = rows[m].attempts + 1
              \/ rows'[m].attempts = MAX_TRIES /\ rows[m].attempts + 1 >= MAX_TRIES
          BY <1>0, <3>1, <3>3 DEF Settled, Unclaimed, Row
        <5> QED
          BY <2>3, <3>1, <5>1, TriesAssumption
      <4> QED
        BY <1>0, <1>1, <2>1, <2>2, <2>3, <4>1, Claimant
    <3> QED
      BY <2>1, <3>2, <3>3
  <2>5. CASE ~StillOwned(r)
    <3>1. rows' = rows /\ rows[m].owner # r
      BY <1>9, <2>5, NoOneAssumption DEF Finish, StillOwned, IInv, RowsOK
    <3>2. InCharge(m) => InCharge(m)'
      BY <1>1, <3>1 DEF InCharge, Works
    <3>3. Bonus(m)' >= Bonus(m)
      BY <3>1, <3>2 DEF Bonus
    <3> QED
      BY <1>0, <1>1, <2>1, <2>2, <2>3, <3>1, <3>3, Claimant
  <2> QED
    BY <2>4, <2>5
<1> QED
  BY <1>2, <1>3, <1>4, <1>5, <1>6, <1>7, <1>8, <1>9 DEF Relay

\* The loop around a poll, and what a fault takes away it also pays for.
LEMMA LoopCharge ==
  ASSUME IInv, ChargeOK, TypeOK', NEW r \in Replicas, Lead(r) \/ Failure(r),
         NEW m \in RowIds, Created(m), rows[m].valid
  PROVE  Charge(m)'
<1>0. /\ TypeOK /\ Charge(m) /\ faults \in Nat /\ UNCHANGED <<rows, copies, late>>
      /\ pc \in [Replicas -> {"down", "idle"} \cup Polling]
      /\ hand \in [Replicas -> RowIds \cup {NoOne}]
  BY FaultsAssumption DEF IInv, TypeOK, ChargeOK, Lead, Failure, Acquire, StartPoll, RenewFails,
     HeartbeatFails, PollRaises, Crash, Restart, Unchanged_DB
<1>1. \A q \in Replicas \ {r} : pc'[q] = pc[q] /\ hand'[q] = hand[q]
  BY <1>0 DEF Lead, Failure, Acquire, StartPoll, RenewFails, HeartbeatFails, PollRaises, Crash, Restart
<1>2. CASE Lead(r) \/ Restart(r)
  <2>1. \/ pc'[r] = pc[r] /\ hand'[r] = hand[r]
        \/ ~Works(r, m) /\ ~Works(r, m)'
    BY <1>0, <1>2 DEF Lead, Acquire, StartPoll, RenewFails, HeartbeatFails, Restart, Works, Working
  <2>2. faults' >= faults
    BY <1>0, <1>2 DEF Lead, Acquire, StartPoll, RenewFails, HeartbeatFails, Restart, Fault
  <2>3. copies'[m] <= copies[m]
    BY <1>0, ChargeTypes
  <2> QED
    BY <1>0, <1>1, <2>1, <2>2, <2>3, Bystander
<1>3. CASE PollRaises(r) \/ Crash(r)
  <2>1. pc'[r] \in {"tail", "down"} /\ faults' = faults + 1
    BY <1>0, <1>3 DEF PollRaises, Crash, Fault
  <2>2. r \notin Unsent(m)' /\ late'[m] = late[m]
    BY <1>0, <2>1 DEF Unsent, Works, Working
  <2>3. rows[m].attempts \in Nat /\ late[m] \in Nat
    BY <1>0, ChargeTypes
  <2> QED
    BY <1>0, <1>1, <2>1, <2>2, <2>3, Claimant
<1> QED
  BY <1>2, <1>3 DEF Failure

\* Timers: a claim expires under a working claimant only by a stall.
LEMMA TimerCharge ==
  ASSUME IInv, ChargeOK, TypeOK', NEW n \in RowIds, Timer(n),
         NEW m \in RowIds, Created(m), rows[m].valid
  PROVE  Charge(m)'
<1>0. /\ TypeOK /\ Charge(m) /\ faults \in Nat /\ rows \in [RowIds -> Row] /\ rows[m] \in Row
      /\ copies \in [RowIds -> Nat] /\ late \in [RowIds -> Nat] /\ UNCHANGED <<pc, hand>>
  BY FaultsAssumption DEF IInv, TypeOK, ChargeOK, Timer, BackoffElapses, ClaimExpires, LateArrives,
     relayVars
<1>1. CASE BackoffElapses(n)
  <2>1. UNCHANGED <<faults, copies, late>> /\ rows' = [rows EXCEPT ![n] = Due(@)]
    BY <1>1 DEF BackoffElapses
  <2>d. /\ Due(rows[m]).attempts = rows[m].attempts /\ Due(rows[m]).st = rows[m].st
        /\ Due(rows[m]).owner = rows[m].owner /\ Due(rows[m]).stale = rows[m].stale
    BY <1>0 DEF Due, Row
  <2>2. /\ rows'[m].attempts = rows[m].attempts /\ rows'[m].st = rows[m].st
        /\ rows'[m].owner = rows[m].owner /\ rows'[m].stale = rows[m].stale
    BY <1>0, <2>1, <2>d
  <2> QED
    BY <1>0, <2>1, <2>2, Bystander
<1>2. CASE LateArrives(n)
  <2>1. UNCHANGED <<faults, rows>> /\ late[n] > 0 /\ late' = [late EXCEPT ![n] = @ - 1]
    BY <1>2 DEF LateArrives
  <2>2. CASE m # n
    <3>1. copies'[m] = copies[m]
      BY <1>0, <1>2, <2>2 DEF LateArrives, Accept
    <3> QED
      BY <1>0, <2>1, <2>2, <3>1, Bystander
  <2>3. CASE m = n
    <3>1. late[m] \in Nat /\ late[m] > 0 /\ late'[m] = late[m] - 1 /\ copies[m] \in Nat /\ copies'[m] <= copies[m] + 1
      BY <1>0, <1>2, <2>1, <2>3 DEF LateArrives, Accept
    <3>2. Unsent(m)' = Unsent(m)
      BY <1>0 DEF Unsent, Works
    <3>3. Bonus(m)' = Bonus(m)
      BY <1>0, <2>1 DEF Bonus, InCharge, Works
    <3> QED
      BY <1>0, <2>1, <3>1, <3>2, <3>3, ChargeTypes DEF Charge
  <2> QED
    BY <2>2, <2>3
<1>3. CASE ClaimExpires(n)
  <2>1. /\ UNCHANGED <<copies, late>> /\ faults' >= faults
        /\ rows' = [rows EXCEPT ![n] = Aged(@)]
    BY <1>0, <1>3 DEF ClaimExpires, Fault
  <2>2. CASE m # n
    BY <1>0, <2>1, <2>2, Bystander
  <2>3. CASE m = n
    <3>1. rows'[m] = Aged(rows[m]) /\ rows'[m].attempts = rows[m].attempts /\ rows[m].st = "pending"
      BY <1>0, <1>3, <2>1, <2>3, RowWrites DEF ClaimExpires
    <3>2. Unsent(m)' = Unsent(m) /\ late'[m] = late[m]
      BY <1>0, <2>1 DEF Unsent, Works
    <3>3. InCharge(m) => faults' = faults + 1
      BY <1>3, <2>3 DEF ClaimExpires, InCharge, Works, Fault
    <3>4. ~InCharge(m) => Bonus(m) = 0
      BY <3>1 DEF Bonus
    <3> QED
      BY <1>0, <2>1, <3>1, <3>2, <3>3, <3>4, ChargeTypes DEF Charge
  <2> QED
    BY <2>2, <2>3
<1> QED
  BY <1>1, <1>2, <1>3 DEF Timer

\* A row nobody has worked on yet has an empty account.
LEMMA NewCharge ==
  ASSUME IInv, TypeOK', NEW k \in RowIds, rows[k].st = "none",
         UNCHANGED <<copies, late, pc, hand>>
  PROVE  Charge(k)'
<1>1. copies[k] = 0 /\ late[k] = 0
  <2>1. copies[k] \in Nat /\ late[k] \in Nat
    BY DEF IInv, TypeOK
  <2> QED
    BY <2>1 DEF IInv, RowsOK, Created
<1>2. Unsent(k)' = {}
  BY DEF IInv, HandOK, Created, Unsent, Works
<1>3. copies'[k] = 0 /\ late'[k] = 0 /\ Cardinality(Unsent(k)') = 0
  BY <1>1, <1>2, FS_EmptySet
<1>4. rows'[k].attempts \in Nat /\ faults' \in Nat /\ Bonus(k)' \in {0, 1}
  BY ChargeTypes DEF IInv
<1> QED
  BY <1>3, <1>4 DEF Charge

\* A new event, a replay and a requeue.
LEMMA QueueCharge ==
  ASSUME IInv, ChargeOK, TypeOK',
         (\E e \in Events : Enqueue(e)) \/ (\E a \in Operators : CommitReplay(a)),
         NEW m \in RowIds, rows'[m].valid
  PROVE  Charge(m)'
<1>u. UNCHANGED <<copies, late, pc, hand, faults>>
  BY DEF Enqueue, CommitReplay, relayVars
<1>0. /\ TypeOK /\ faults \in Nat /\ rows \in [RowIds -> Row]
      /\ UNCHANGED <<copies, late, pc, hand, faults>>
  BY <1>u, FaultsAssumption DEF IInv, TypeOK
<1>1. CASE rows[m].st = "none"
  BY <1>0, <1>1, NewCharge
<1>2. CASE rows[m].st # "none"
  <2>0. Created(m) /\ rows[m] \in Row
    BY <1>0, <1>2 DEF Created
  <2>1. rows'[m] = rows[m] \/ (rows[m].st = "folded" /\ rows'[m] = Replayed(rows[m]))
    BY <1>2, EnqueueWrites, CommitWrites
  <2>2. CASE rows'[m] = rows[m]
    <3>1. Charge(m)
      BY <2>0, <2>2 DEF ChargeOK
    <3>2. faults' >= faults /\ copies'[m] <= copies[m]
      BY <1>0, ChargeTypes
    <3> QED
      BY <1>0, <2>2, <3>1, <3>2, Bystander
  <2>3. CASE rows[m].st = "folded" /\ rows'[m] = Replayed(rows[m])
    <3>1. rows'[m].attempts = rows[m].attempts /\ rows'[m].valid = rows[m].valid
      <4>1. /\ Replayed(rows[m]).attempts = rows[m].attempts
            /\ Replayed(rows[m]).valid = rows[m].valid
        BY <2>0, RowWrites
      <4> QED
        BY <2>3, <4>1
    <3>2. Charge(m)
      BY <2>0, <3>1 DEF ChargeOK
    <3>3. ~InCharge(m)
      BY <2>3, NoOneAssumption DEF InCharge, IInv, RowsOK
    <3>4. faults' >= faults /\ copies'[m] <= copies[m]
      BY <1>0, ChargeTypes
    <3> QED
      BY <1>0, <2>3, <3>1, <3>2, <3>3, <3>4, Bystander
  <2> QED
    BY <2>1, <2>2, <2>3
<1> QED
  BY <1>1, <1>2

\* No step spends more than it pays for.
LEMMA NextCharge == ASSUME IInv, ChargeOK, [Next]_vars PROVE ChargeOK'
<1> SUFFICES ASSUME NEW m \in RowIds, rows'[m].st # "none", rows'[m].valid PROVE Charge(m)'
  BY DEF ChargeOK, Created
<1>0. TypeOK'
  BY NextType DEF IInv
<1>1. CASE (\E e \in Events : Enqueue(e)) \/ (\E a \in Operators : CommitReplay(a))
  BY <1>0, <1>1, QueueCharge
<1>2. CASE ~((\E e \in Events : Enqueue(e)) \/ (\E a \in Operators : CommitReplay(a)))
  <2>1. Created(m) /\ rows[m].valid
    BY <1>2, NextSettling, NextMonotone DEF Settling, Monotone, Created
  <2>2. ASSUME NEW r \in Replicas, Lead(r) \/ Relay(r) \/ Failure(r) PROVE Charge(m)'
    BY <1>0, <2>1, <2>2, RelayCharge, LoopCharge
  <2>3. ASSUME NEW n \in RowIds, Timer(n) PROVE Charge(m)'
    BY <1>0, <2>1, <2>3, TimerCharge
  <2>4. ASSUME \/ LeaseExpires \/ UNCHANGED vars
               \/ \E d \in Letters : Discard(d) \/ \E e \in Events : DeadLetter(d, e)
               \/ \E a \in Operators : Operate(a) /\ ~CommitReplay(a)
        PROVE  Charge(m)'
    <3>1. UNCHANGED <<rows, copies, late, pc, hand>>
      BY <2>4 DEF LeaseExpires, vars, Discard, DeadLetter, Operate, LockTarget, LockKey, Recheck,
         AbortReplay, relayVars, Unchanged_DB
    <3>2. faults' >= faults
      <4>1. faults \in Nat
        BY FaultsAssumption DEF IInv, TypeOK
      <4> QED
        BY <4>1, <2>4 DEF LeaseExpires, Fault, vars, Discard, DeadLetter, Operate, LockTarget, LockKey,
           Recheck, AbortReplay
    <3>3. Charge(m) /\ TypeOK
      BY <2>1 DEF ChargeOK, IInv
    <3>4. rows[m].attempts \in Nat /\ copies[m] \in Nat
      BY <1>0, <3>3, ChargeTypes
    <3> QED
      BY <1>0, <3>1, <3>2, <3>3, <3>4, Bystander
  <2> QED
    BY <1>2, <2>2, <2>3, <2>4 DEF Next
<1> QED
  BY <1>1, <1>2

\* Every copy of a row is paid for.
THEOREM CopiesPaid == Spec => []CopiesBounded
<1>1. Init => ChargeOK
  BY DEF Init, NewRow, ChargeOK, Created
<1>2. IInv /\ ChargeOK /\ [Next]_vars => ChargeOK'
  BY NextCharge
<1>3. IInv /\ ChargeOK => CopiesBounded
  <2> SUFFICES ASSUME IInv, ChargeOK, NEW m \in RowIds
               PROVE  copies[m] + late[m] <= rows[m].attempts + 1 + faults
    BY DEF CopiesBounded
  <2>1. /\ copies[m] \in Nat /\ rows[m].attempts \in Nat /\ faults \in Nat
        /\ late[m] \in Nat /\ Bonus(m) \in {0, 1}
    BY FaultsAssumption, TriesAssumption DEF IInv, TypeOK, Row, Bonus
  <2>2. Cardinality(Unsent(m)) \in Nat
    BY ReplicasAssumption, FS_Subset, FS_CardinalityType DEF Unsent
  <2>3. CASE Created(m) /\ rows[m].valid
    BY <2>1, <2>2, <2>3 DEF ChargeOK, Charge
  <2>4. CASE ~(Created(m) /\ rows[m].valid)
    <3>1. copies[m] = 0 /\ late[m] = 0
      BY <2>1, <2>4 DEF IInv, RowsOK
    <3> QED
      BY <2>1, <3>1
  <2> QED
    BY <2>3, <2>4
<1> QED
  BY <1>1, <1>2, <1>3, Inductive, PTL DEF Spec

-----------------------------------------------------------------------------
(* The promise of EventDelivery                                            *)

\* Outcomes that count as delivered.
Done == {"published", "archived"}

\* As far as its phase goes, a row of e is what it was.
LEMMA SamePhase ==
  ASSUME NEW e \in Events,
         \A m \in RowIds :
           /\ Created(m) /\ rows[m].event = e <=> rows'[m].st # "none" /\ rows'[m].event = e
           /\ Created(m) /\ rows[m].event = e =>
                /\ rows[m].st = "pending" <=> rows'[m].st = "pending"
                /\ rows[m].st \in Done <=> rows'[m].st \in Done
  PROVE  PhaseOf(e)' = PhaseOf(e)
<1>1. ActiveRow(e)' <=> ActiveRow(e)
  BY DEF ActiveRow, Created
<1>2. EventExists(e)' <=> EventExists(e)
  BY DEF EventExists, Created
<1>3. ASSUME NEW m \in RowIds
      PROVE  /\ rows[m].event = e /\ Newest(m) /\ rows[m].st \in Done
                  <=> (rows[m].event = e /\ Newest(m) /\ rows[m].st \in Done)'
  BY DEF Newest, Created, Done
<1> QED
  BY <1>1, <1>2, <1>3 DEF PhaseOf, Done

\* A pending row decides the phase of its event.
LEMMA PhaseFacts ==
  ASSUME NEW e \in Events
  PROVE  /\ ActiveRow(e) => PhaseOf(e) = "queued"
         /\ ~EventExists(e) => PhaseOf(e) = "absent"
         /\ ~ActiveRow(e) /\ EventExists(e) => PhaseOf(e) \in {"delivered", "failed"}
<1>1. ~EventExists(e) => ~ActiveRow(e) /\ \A m \in RowIds : rows[m].event = e => rows[m].st = "none"
  BY DEF EventExists, ActiveRow
<1> QED
  BY <1>1 DEF PhaseOf

\* The refinement mapping: the variable of EventDelivery.
phase == [e \in Events |-> PhaseOf(e)]

\* One event moves, the others stay.
LEMMA OneMoves ==
  ASSUME NEW e \in Events, \A f \in Events \ {e} : PhaseOf(f)' = PhaseOf(f)
  PROVE  phase' = [phase EXCEPT ![e] = PhaseOf(e)']
BY DEF phase

\* The moves of EventDelivery, and no move, as phases of events.
LEMMA MoveIsStep ==
  ASSUME NEW e \in Events, \A f \in Events \ {e} : PhaseOf(f)' = PhaseOf(f),
         \/ PhaseOf(e)' = PhaseOf(e)
         \/ PhaseOf(e) # "queued" /\ PhaseOf(e)' = "queued"
         \/ PhaseOf(e) = "queued" /\ PhaseOf(e)' \in {"delivered", "failed"}
  PROVE  [Delivery!Next]_phase
<1>1. phase' = [phase EXCEPT ![e] = PhaseOf(e)'] /\ phase[e] = PhaseOf(e)
  BY OneMoves DEF phase
<1>2. PhaseOf(e) \in {"absent", "queued", "delivered", "failed"}
  BY DEF PhaseOf
<1>3. CASE PhaseOf(e)' = PhaseOf(e)
  BY <1>3 DEF phase
<1>4. CASE PhaseOf(e) = "absent" /\ PhaseOf(e)' = "queued"
  BY <1>1, <1>4 DEF phase, Delivery!Next, Delivery!Submit, Delivery!Move
<1>5. CASE PhaseOf(e) \in {"delivered", "failed"} /\ PhaseOf(e)' = "queued"
  BY <1>1, <1>5 DEF phase, Delivery!Next, Delivery!Resubmit, Delivery!Move
<1>6. CASE PhaseOf(e) = "queued" /\ PhaseOf(e)' = "delivered"
  BY <1>1, <1>6 DEF phase, Delivery!Next, Delivery!Deliver, Delivery!Move
<1>7. CASE PhaseOf(e) = "queued" /\ PhaseOf(e)' = "failed"
  BY <1>1, <1>7 DEF phase, Delivery!Next, Delivery!GiveUp, Delivery!Move
<1> QED
  BY <1>2, <1>3, <1>4, <1>5, <1>6, <1>7

\* Settling the pending row of an event moves that event alone, to delivered
\* or failed, or leaves it queued for the next attempt.
LEMMA FinishDelivers ==
  ASSUME IInv, NEW r \in Replicas, Finish(r), StillOwned(r)
  PROVE  [Delivery!Next]_phase
<1>0. pc[r] = "answered" /\ hand[r] \in RowIds /\ rows[hand[r]].event \in Events
  BY FinishWrites, FencePending DEF Finish, Row
<1>p. PICK m \in RowIds, e \in Events : m = hand[r] /\ e = rows[m].event
  BY <1>0
<1>1. /\ rows[m].st = "pending" /\ rows'[m].event = e
      /\ rows'[m].st \in {"published", "folded", "pending"}
      /\ \A n \in RowIds : n # m => rows'[n] = rows[n]
  BY <1>0, <1>p, FinishWrites, FencePending, SettledWrites
<1>2. ASSUME NEW f \in Events \ {e} PROVE PhaseOf(f)' = PhaseOf(f)
  BY <1>p, <1>1, SamePhase DEF Created
<1>3. \A n \in RowIds : rows[n].st = "pending" /\ rows[n].event = e => n = m
  <2>1. \A n \in RowIds : Created(n) /\ rows[n].event = e => n <= m
    BY <1>p, <1>1 DEF IInv, ChainOK
  <2>2. \A n \in RowIds : rows[n].st = "pending" /\ rows[n].event = e => m <= n
    BY <1>p, <1>1 DEF IInv, ChainOK, Created
  <2> QED
    BY <1>p, <2>1, <2>2 DEF RowIds, Created
<1>4. PhaseOf(e) = "queued"
  BY <1>p, <1>1, PhaseFacts DEF ActiveRow
<1>5. CASE rows'[m].st = "pending"
  <2>1. PhaseOf(e)' = PhaseOf(e)
    BY <1>p, <1>1, <1>5, SamePhase DEF Created
  <2> QED
    BY <1>2, <2>1, MoveIsStep
<1>6. CASE rows'[m].st # "pending"
  <2>1. ~ActiveRow(e)' /\ EventExists(e)'
    BY <1>p, <1>1, <1>3, <1>6 DEF ActiveRow, EventExists
  <2>2. PhaseOf(e)' \in {"delivered", "failed"}
    BY <2>1 DEF PhaseOf
  <2> QED
    BY <1>2, <1>4, <2>2, MoveIsStep
<1> QED
  BY <1>5, <1>6

\* A new row of an event that has none pending moves that event alone.
LEMMA NewRowDelivers ==
  ASSUME IInv, NEW e \in Events, ~ActiveRow(e), NEW k \in RowIds, rows[k].st = "none",
         rows'[k].st = "pending", rows'[k].event = e,
         \A n \in RowIds : n # k => \/ rows'[n] = rows[n]
                                    \/ /\ rows[n].st = "folded" /\ rows'[n].st = "replayed"
                                       /\ rows'[n].event = rows[n].event
  PROVE  [Delivery!Next]_phase
<1>1. ASSUME NEW f \in Events \ {e} PROVE PhaseOf(f)' = PhaseOf(f)
  <2>1. ASSUME NEW n \in RowIds
        PROVE /\ Created(n) /\ rows[n].event = f <=> rows'[n].st # "none" /\ rows'[n].event = f
              /\ Created(n) /\ rows[n].event = f =>
                   /\ rows[n].st = "pending" <=> rows'[n].st = "pending"
                   /\ rows[n].st \in Done <=> rows'[n].st \in Done
    BY DEF Created, Done
  <2> QED
    BY <2>1, SamePhase
<1>2. ActiveRow(e)' /\ PhaseOf(e) # "queued"
  BY DEF ActiveRow, PhaseOf
<1>3. PhaseOf(e)' = "queued"
  BY <1>2 DEF PhaseOf
<1> QED
  BY <1>1, <1>2, <1>3, MoveIsStep

\* Steps that keep the phase of every event.
LEMMA NoMove ==
  ASSUME \A e \in Events : PhaseOf(e)' = PhaseOf(e) PROVE [Delivery!Next]_phase
BY DEF phase

\* Every step of the outbox is a step of its promise, or none.
LEMMA NextDelivers == ASSUME IInv, [Next]_vars PROVE [Delivery!Next]_phase
<1>0. rows \in [RowIds -> Row]
  BY DEF IInv, TypeOK
<1>1. Quiet => [Delivery!Next]_phase
  BY SamePhase, NoMove DEF Quiet, Created
<1>2. ASSUME NEW r \in Replicas, Finish(r), StillOwned(r) PROVE [Delivery!Next]_phase
  BY <1>2, FinishDelivers
<1>3. ASSUME NEW r \in Replicas, Tail(r), ~lost[r] PROVE [Delivery!Next]_phase
  <2>1. ASSUME NEW m \in RowIds
        PROVE  /\ rows'[m].event = rows[m].event
               /\ rows'[m].st = rows[m].st \/ (rows[m].st = "published" /\ rows'[m].st = "archived")
    BY <1>0, <1>3, TailWrites, RowWrites
  <2> QED
    BY <2>1, SamePhase, NoMove DEF Created, Done
<1>4. ASSUME NEW e \in Events, Enqueue(e) PROVE [Delivery!Next]_phase
  <2>p. PICK k \in RowIds : k = nrows + 1
    BY <1>4, EnqueueWrites
  <2>1. ~ActiveRow(e)
    BY <1>4 DEF Enqueue, EventExists, ActiveRow
  <2>n. \A ok \in BOOLEAN : NewRow(e, ok).st = "pending" /\ NewRow(e, ok).event = e
    BY DEF NewRow
  <2>2. /\ rows[k].st = "none" /\ rows'[k].st = "pending" /\ rows'[k].event = e
        /\ \A n \in RowIds : n # k => rows'[n] = rows[n]
    BY <1>4, <2>p, <2>n, EnqueueWrites
  <2> QED
    BY <2>1, <2>2, NewRowDelivers
<1>5. ASSUME NEW a \in Operators, CommitReplay(a) PROVE [Delivery!Next]_phase
  <2>0. /\ target[a] \in RowIds \cup Letters
        /\ target[a] \in RowIds => rows[target[a]].st = "folded"
    BY <1>5, CommitWrites
  <2>p. PICK t \in RowIds \cup Letters, e \in Events : t = target[a] /\ e = TargetEvent(t)
    BY <2>0, TargetEventType DEF IInv
  <2>1. \A n \in RowIds : /\ Replayed(rows[n]).st = "replayed"
                          /\ Replayed(rows[n]).event = rows[n].event
    BY <1>0, RowWrites
  <2>2. \/ /\ apc[a] = "fresh" /\ nrows + 1 \in RowIds /\ rows[nrows + 1].st = "none"
           /\ rows'[nrows + 1] = NewRow(e, TRUE)
           /\ \A n \in RowIds : n # nrows + 1 => rows'[n] = IF n = t THEN Replayed(rows[n]) ELSE rows[n]
        \/ \A n \in RowIds : rows'[n] = IF n = t THEN Replayed(rows[n]) ELSE rows[n]
    BY <1>5, <2>p, CommitWrites
  <2>3. CASE /\ apc[a] = "fresh" /\ nrows + 1 \in RowIds /\ rows[nrows + 1].st = "none"
             /\ rows'[nrows + 1] = NewRow(e, TRUE)
             /\ \A n \in RowIds : n # nrows + 1 => rows'[n] = IF n = t THEN Replayed(rows[n]) ELSE rows[n]
    <3>p. PICK k \in RowIds : k = nrows + 1
      BY <2>3
    <3>1. rows[k].st = "none" /\ rows'[k].st = "pending" /\ rows'[k].event = e
      BY <2>3, <3>p DEF NewRow
    <3>2. ~ActiveRow(e)
      BY <2>3, <2>p DEF IInv, OperatorsOK
    <3>3. \A n \in RowIds : n # k => \/ rows'[n] = rows[n]
                                     \/ /\ rows[n].st = "folded" /\ rows'[n].st = "replayed"
                                        /\ rows'[n].event = rows[n].event
      BY <2>0, <2>p, <2>1, <2>3, <3>p
    <3> QED
      BY <3>1, <3>2, <3>3, NewRowDelivers
  <2>4. CASE \A n \in RowIds : rows'[n] = IF n = t THEN Replayed(rows[n]) ELSE rows[n]
    <3>1. ASSUME NEW n \in RowIds
          PROVE  /\ rows'[n].event = rows[n].event
                 /\ rows'[n].st = rows[n].st \/ (rows[n].st = "folded" /\ rows'[n].st = "replayed")
      BY <2>0, <2>p, <2>1, <2>4
    <3> QED
      BY <3>1, SamePhase, NoMove DEF Created, Done
  <2> QED
    BY <2>2, <2>3, <2>4
<1>6. ASSUME NEW r \in Replicas, Lead(r) \/ Relay(r) \/ Failure(r) PROVE [Delivery!Next]_phase
  BY <1>1, <1>2, <1>3, <1>6, QuietRelay DEF Relay
<1>7. ASSUME \/ LeaseExpires \/ UNCHANGED vars
             \/ \E m \in RowIds : Timer(m)
             \/ \E d \in Letters : Discard(d) \/ \E e \in Events : DeadLetter(d, e)
      PROVE  [Delivery!Next]_phase
  BY <1>1, <1>7, QuietOthers
<1>8. ASSUME NEW a \in Operators, Operate(a), ~CommitReplay(a) PROVE [Delivery!Next]_phase
  BY <1>1, <1>8, QuietOthers DEF Operate
<1> QED
  BY <1>4, <1>5, <1>6, <1>7, <1>8 DEF Next

\* The outbox implements the promise of EventDelivery: a queued event is
\* delivered or handed to an operator, never taken back from delivered, and
\* only a submission or an operator queues it.
THEOREM DeliveryImplemented == Spec => DeliveryRefined
<1>1. Init => Delivery!Init
  <2> SUFFICES ASSUME Init PROVE \A e \in Events : PhaseOf(e) = "absent"
    BY DEF Delivery!Init
  <2>1. \A m \in RowIds : rows[m].st = "none"
    BY DEF Init, NewRow
  <2> QED
    BY <2>1 DEF PhaseOf, ActiveRow, EventExists
<1>2. IInv /\ [Next]_vars => [Delivery!Next]_([e \in Events |-> PhaseOf(e)])
  BY NextDelivers DEF phase
<1> QED
  BY <1>1, <1>2, Inductive, PTL DEF Spec, DeliveryRefined, Delivery!Spec

-----------------------------------------------------------------------------
(* The consuming side of the bus                                           *)

\* The advisory lock of a (subscription, event) has one holder, and only
\* tasks with an event id take one.
LockHeldOnce ==
  /\ \A t \in Tasks : task[t].pc \in Consumer!Locked => Consumer!HasEvent(t)
  /\ \A t, u \in Tasks :
       task[t].pc \in Consumer!Locked /\ task[u].pc \in Consumer!Locked
           /\ Consumer!ScopeOf(t) = Consumer!ScopeOf(u) => t = u

\* What the ledger says of a task: a running handler is not entered yet, and
\* a dispatch that ended well is.
LedgerFollows ==
  \A t \in Tasks :
    /\ task[t].pc \in {"handler", "record"} => Consumer!ScopeOf(t) \notin ledger
    /\ task[t].pc = "ok" /\ Consumer!HasEvent(t) => Consumer!ScopeOf(t) \in ledger

\* A dead letter is in its topic, and stored in one row before it leaves it.
DeadStored ==
  \A c \in Consumer!Copies :
    /\ drows[c] \in 0..1
    /\ box[c] = "dead" => dtopic[c] # "none"
    /\ dtopic[c] \in {"stored", "acked"} => drows[c] = 1

\* An acknowledged copy with an event id is in the ledger of its subscription.
AckedProcessed ==
  \A c \in Consumer!Copies :
    box[c] = "acked" /\ EventOf[c[2]] # NoEvent => <<c[1], EventOf[c[2]]>> \in ledger

\* The copy a receive thread waits for is held, and by that thread alone.
HeldByOne ==
  \A t \in Tasks : task[t].pc # "free" /\ task[t].attached =>
    /\ box[task[t].on] = "held"
    /\ \A u \in Tasks : task[u].pc # "free" /\ task[u].attached /\ task[u].on = task[t].on
         => u = t

ConsumerInv ==
  /\ Consumer!TypeOK /\ LockHeldOnce /\ LedgerFollows /\ Consumer!EffectsAccounted
  /\ DeadStored /\ AckedProcessed /\ HeldByOne

-----------------------------------------------------------------------------
(* The initial state and the facts every step uses                          *)

\* Where a task works, its copy is one and its scope is one of the scopes when
\* the message carries an event id (ScopeOf is the key of the lock and ledger).
LEMMA ScopeTyped ==
  ASSUME ConsumerConstants, Consumer!TypeOK, NEW t \in Tasks, task[t].pc # "free"
  PROVE  /\ task[t].on \in Consumer!Copies
         /\ task[t].on = <<task[t].on[1], task[t].on[2]>>
         /\ Consumer!HasEvent(t) => Consumer!ScopeOf(t) \in Consumer!Scopes
BY
   DEF ConsumerConstants, Consumer!TypeOK, Consumer!Task, Consumer!Running, Consumer!Copies, Consumer!Scopes,
       Consumer!HasEvent, Consumer!ScopeOf

\* The empty backlog, the empty ledger and no running coroutine satisfy the
\* invariant.
LEMMA ConsumerInit ==
  ASSUME ConsumerConstants
  PROVE  Consumer!Init => ConsumerInv
<1> SUFFICES ASSUME Consumer!Init PROVE ConsumerInv
  OBVIOUS
<1>1. Consumer!TypeOK
  BY DEF ConsumerConstants, Consumer!Init, Consumer!TypeOK, Consumer!Task, Consumer!Running
<1>2. LockHeldOnce /\ LedgerFollows /\ HeldByOne
  BY DEF Consumer!Init, LockHeldOnce, LedgerFollows, HeldByOne, Consumer!Locked
<1>3. Consumer!EffectsAccounted
  BY DEF Consumer!Init, Consumer!EffectsAccounted
<1>4. DeadStored /\ AckedProcessed
  BY DEF Consumer!Init, DeadStored, AckedProcessed
<1> QED
  BY <1>1, <1>2, <1>3, <1>4 DEF ConsumerInv

-----------------------------------------------------------------------------
(* The broker                                                              *)

\* A message reaching the backlogs preserves the invariant.
LEMMA PublishIInv ==
  ASSUME ConsumerConstants, ConsumerInv, NEW m \in Msgs, Consumer!Publish(m) PROVE ConsumerInv'
<1> USE DEF ConsumerInv, Consumer!Publish
<1>1. Consumer!TypeOK'
  BY DEF Consumer!TypeOK
<1>2. LockHeldOnce' /\ LedgerFollows' /\ Consumer!EffectsAccounted'
  BY DEF LockHeldOnce, LedgerFollows, Consumer!EffectsAccounted, Consumer!HasEvent, Consumer!ScopeOf
<1>3. DeadStored' /\ AckedProcessed'
  BY DEF Consumer!TypeOK, DeadStored, AckedProcessed
<1>4. HeldByOne'
  BY DEF Consumer!TypeOK, HeldByOne, Consumer!Copies, Consumer!Task
<1> QED
  BY <1>1, <1>2, <1>3, <1>4

\* Giving a copy back keeps types, and what is known of dead letters and of
\* acknowledged copies: only that copy changes, to "ready" or to "dead" with
\* its letter in the dead-letter topic.
LEMMA GiveBackFacts ==
  ASSUME ConsumerConstants, ConsumerInv, NEW c \in Consumer!Copies, Consumer!GiveBack(c), ledger' = ledger,
         drows' = drows
  PROVE  /\ box' \in [Consumer!Copies -> {"none", "ready", "held", "acked", "dead"}]
         /\ redel' \in [Consumer!Copies -> 0..MaxRedeliver]
         /\ dtopic' \in [Consumer!Copies -> {"none", "ready", "stored", "acked"}]
         /\ DeadStored' /\ AckedProcessed'
         /\ \A d \in Consumer!Copies : d # c => box'[d] = box[d]
<1>1. CASE redel[c] < MaxRedeliver
  BY <1>1 DEF ConsumerConstants, ConsumerInv, Consumer!TypeOK, Consumer!GiveBack, DeadStored, AckedProcessed
<1>2. CASE ~(redel[c] < MaxRedeliver)
  BY <1>2 DEF ConsumerInv, Consumer!TypeOK, Consumer!GiveBack, DeadStored, AckedProcessed
<1> QED
  BY <1>1, <1>2

\* The broker taking a held copy back, which no attached task works on,
\* preserves the invariant.
LEMMA RedeliverIInv ==
  ASSUME ConsumerConstants, ConsumerInv, NEW c \in Consumer!Copies, Consumer!Redeliver(c) PROVE ConsumerInv'
<1> USE DEF Consumer!Redeliver
<1>0. Consumer!GiveBack(c) /\ ledger' = ledger /\ drows' = drows
  OBVIOUS
<1>1. Consumer!TypeOK'
  BY <1>0, GiveBackFacts DEF ConsumerInv, Consumer!TypeOK
<1>2. LockHeldOnce' /\ LedgerFollows' /\ Consumer!EffectsAccounted'
  BY DEF ConsumerInv, LockHeldOnce, LedgerFollows, Consumer!EffectsAccounted, Consumer!HasEvent, Consumer!ScopeOf
<1>3. DeadStored' /\ AckedProcessed'
  BY <1>0, GiveBackFacts
<1>4. HeldByOne'
  BY <1>0, GiveBackFacts DEF ConsumerInv, HeldByOne, Consumer!TypeOK
<1> QED
  BY <1>1, <1>2, <1>3, <1>4 DEF ConsumerInv

-----------------------------------------------------------------------------
(* The dispatch                                                            *)

\* A task that goes on keeps its copy and its thread; the others do not move.
LEMMA GoFacts ==
  ASSUME ConsumerConstants, Consumer!TypeOK, NEW t \in Tasks, NEW where \in Consumer!Running, task[t].pc # "free",
         Consumer!Go(t, where)
  PROVE  /\ task' \in [Tasks -> Consumer!Task]
         /\ \A u \in Tasks : task'[u].pc # "free" => task'[u].on \in Consumer!Copies
         /\ \A u \in Tasks : /\ task'[u].on = task[u].on
                             /\ task'[u].attached = task[u].attached
                             /\ Consumer!HasEvent(u)' = Consumer!HasEvent(u)
                             /\ Consumer!ScopeOf(u)' = Consumer!ScopeOf(u)
                             /\ task'[u].pc = IF u = t THEN where ELSE task[u].pc
BY DEF Consumer!TypeOK, Consumer!Go, Consumer!Task, Consumer!HasEvent, Consumer!ScopeOf, Consumer!Running

\* A task that ends is free; the others do not move.
LEMMA FreeFacts ==
  ASSUME ConsumerConstants, Consumer!TypeOK, NEW t \in Tasks, Consumer!Free(t)
  PROVE  /\ task' \in [Tasks -> Consumer!Task]
         /\ \A u \in Tasks : task'[u].pc # "free" => task'[u].on \in Consumer!Copies
         /\ task'[t].pc = "free"
         /\ \A u \in Tasks \ {t} : task'[u] = task[u]
         /\ \A u \in Tasks \ {t} : Consumer!HasEvent(u)' = Consumer!HasEvent(u)
             /\ Consumer!ScopeOf(u)' = Consumer!ScopeOf(u)
BY DEF Consumer!TypeOK, Consumer!Free, Consumer!Task, Consumer!HasEvent, Consumer!ScopeOf, Consumer!Running

\* Nothing that depends on the boxes, dead letters or the ledger changes for a
\* task that goes on while they stay as they are.
LEMMA GoKeeps ==
  ASSUME ConsumerConstants, ConsumerInv, NEW t \in Tasks, NEW where \in Consumer!Running, task[t].pc # "free",
         Consumer!Go(t, where),
         UNCHANGED <<box, redel, dtopic, drows>>, ledger \subseteq ledger'
  PROVE  DeadStored' /\ AckedProcessed' /\ HeldByOne'
<1>1. DeadStored' /\ AckedProcessed'
  BY DEF ConsumerInv, DeadStored, AckedProcessed
<1>2. HeldByOne'
  BY GoFacts DEF ConsumerInv, HeldByOne, Consumer!Running
<1> QED
  BY <1>1, <1>2

\* A free thread takes a ready copy: it alone holds it.
LEMMA ReceiveIInv ==
  ASSUME ConsumerConstants, ConsumerInv, NEW t \in Tasks, NEW c \in Consumer!Copies, Consumer!Receive(t, c)
    PROVE ConsumerInv'
<1> DEFINE new == [pc |-> IF c[2] \in Bad THEN "error" ELSE "start", on |-> c, attached |-> TRUE]
<1> USE DEF Consumer!Receive
<1>0. /\ task'[t] = new /\ new \in Consumer!Task /\ new.pc \in {"error", "start"}
      /\ \A u \in Tasks \ {t} : task'[u] = task[u]
      /\ task' \in [Tasks -> Consumer!Task]
  BY DEF ConsumerInv, Consumer!TypeOK, Consumer!Task, Consumer!Running
<1>1. Consumer!TypeOK'
  BY <1>0 DEF ConsumerInv, Consumer!TypeOK
<1>2. LockHeldOnce' /\ LedgerFollows'
  BY <1>0 DEF ConsumerInv, LockHeldOnce, LedgerFollows, Consumer!HasEvent, Consumer!ScopeOf, Consumer!Locked
<1>3. Consumer!EffectsAccounted'
  <2> SUFFICES ASSUME NEW k \in Consumer!Scopes
               PROVE  (\E u \in Tasks : task[u].pc = "record" /\ Consumer!ScopeOf(u) = k)
                      <=> (\E u \in Tasks : task'[u].pc = "record" /\ Consumer!ScopeOf(u)' = k)
    BY DEF ConsumerInv, Consumer!EffectsAccounted
  <2> QED
    BY <1>0 DEF Consumer!ScopeOf
<1>4. DeadStored' /\ AckedProcessed'
  BY DEF ConsumerInv, Consumer!TypeOK, DeadStored, AckedProcessed
<1>5. HeldByOne'
  BY <1>0 DEF ConsumerInv, Consumer!TypeOK, HeldByOne
<1> QED
  BY <1>1, <1>2, <1>3, <1>4, <1>5 DEF ConsumerInv

\* Taking the advisory lock, which nobody holds.
LEMMA LockIInv ==
  ASSUME ConsumerConstants, ConsumerInv, NEW t \in Tasks, Consumer!Lock(t) PROVE ConsumerInv'
<1> USE DEF Consumer!Lock
<1>0. Consumer!Go(t, "check") /\ task[t].pc # "free" /\ "check" \in Consumer!Running /\ Consumer!TypeOK
  BY DEF Consumer!Running, ConsumerInv
<1>1. Consumer!TypeOK'
  BY <1>0, GoFacts DEF Consumer!TypeOK
<1>2. LockHeldOnce' /\ LedgerFollows'
  BY <1>0, GoFacts DEF ConsumerInv, LockHeldOnce, LedgerFollows, Consumer!Locked
<1>3. Consumer!EffectsAccounted'
  BY <1>0, GoFacts DEF ConsumerInv, Consumer!EffectsAccounted
<1>4. DeadStored' /\ AckedProcessed' /\ HeldByOne'
  BY <1>0, GoKeeps
<1> QED
  BY <1>1, <1>2, <1>3, <1>4 DEF ConsumerInv

\* Looking the event up in the ledger.
LEMMA CheckIInv ==
  ASSUME ConsumerConstants, ConsumerInv, NEW t \in Tasks, Consumer!Check(t) PROVE ConsumerInv'
<1> DEFINE where == IF Consumer!ScopeOf(t) \in ledger THEN "ok" ELSE "handler"
<1> USE DEF Consumer!Check
<1>0. Consumer!Go(t, where) /\ task[t].pc # "free" /\ where \in Consumer!Running /\ Consumer!TypeOK
  BY DEF Consumer!Running, ConsumerInv
<1>1. Consumer!TypeOK'
  BY <1>0, GoFacts DEF Consumer!TypeOK
<1>2. LockHeldOnce' /\ LedgerFollows'
  BY <1>0, GoFacts DEF ConsumerInv, LockHeldOnce, LedgerFollows, Consumer!Locked
<1>3. Consumer!EffectsAccounted'
  BY <1>0, GoFacts DEF ConsumerInv, Consumer!EffectsAccounted
<1>4. DeadStored' /\ AckedProcessed' /\ HeldByOne'
  BY <1>0, GoKeeps
<1> QED
  BY <1>1, <1>2, <1>3, <1>4 DEF ConsumerInv

\* The handler commits, or raises before or after its commit: a run that is
\* not going to be recorded is a gap.
LEMMA HandleIInv ==
  ASSUME ConsumerConstants, ConsumerInv, NEW t \in Tasks, Consumer!Handle(t) PROVE ConsumerInv'
<1> DEFINE k0 == Consumer!ScopeOf(t)
<1>0. /\ task[t].pc = "handler" /\ task[t].pc # "free" /\ Consumer!TypeOK
      /\ UNCHANGED <<box, redel, ledger, dtopic, drows, consumerFaults>>
      /\ "record" \in Consumer!Running /\ "error" \in Consumer!Running
  BY DEF Consumer!Handle, ConsumerInv, Consumer!Running
<1>s. k0 \in Consumer!Scopes /\ k0 \notin ledger
  BY <1>0, ScopeTyped DEF ConsumerInv, LockHeldOnce, LedgerFollows, Consumer!Locked
<1>n. \A u \in Tasks : task[u].pc = "record" => Consumer!ScopeOf(u) # k0
  BY <1>0 DEF ConsumerInv, LockHeldOnce, Consumer!Locked
<1>r. PICK where \in {"record", "error"} :
        /\ Consumer!Go(t, where)
        /\ where = "record" => /\ effects' = [effects EXCEPT ![k0] = @ + 1]
                               /\ gaps' = gaps
        /\ where = "error" => \/ /\ effects' = [effects EXCEPT ![k0] = @ + 1]
                                 /\ gaps' = [gaps EXCEPT ![k0] = @ + 1]
                              \/ effects' = effects /\ gaps' = gaps
  BY DEF Consumer!Handle, Consumer!Gap
<1>w. where \in Consumer!Running
  BY DEF Consumer!Running
<1>1. Consumer!TypeOK'
  BY <1>0, <1>r, <1>w, <1>s, GoFacts DEF Consumer!TypeOK
<1>2. LockHeldOnce' /\ LedgerFollows'
  BY <1>0, <1>r, <1>w, GoFacts DEF ConsumerInv, LockHeldOnce, LedgerFollows, Consumer!Locked
<1>3. Consumer!EffectsAccounted'
  <2> SUFFICES ASSUME NEW k \in Consumer!Scopes
               PROVE  effects'[k] = gaps'[k] +
                        (IF k \in ledger \/ \E u \in Tasks : task'[u].pc = "record" /\ Consumer!ScopeOf(u)' = k
                         THEN 1 ELSE 0)
    BY <1>0 DEF Consumer!EffectsAccounted
  <2>1. effects[k] = gaps[k] +
          (IF k \in ledger \/ \E u \in Tasks : task[u].pc = "record" /\ Consumer!ScopeOf(u) = k
           THEN 1 ELSE 0)
    BY DEF ConsumerInv, Consumer!EffectsAccounted
  <2>2. effects[k] \in Nat /\ gaps[k] \in Nat /\ effects \in [Consumer!Scopes -> Nat]
          /\ gaps \in [Consumer!Scopes -> Nat]
    BY <1>0 DEF Consumer!TypeOK
  <2>3. \A u \in Tasks : /\ Consumer!ScopeOf(u)' = Consumer!ScopeOf(u)
                         /\ task'[u].pc = IF u = t THEN where ELSE task[u].pc
    BY <1>0, <1>r, <1>w, GoFacts
  <2>4. CASE k # k0
    BY <2>1, <2>2, <2>3, <2>4, <1>r, <1>0
  <2>5. CASE k = k0 /\ where = "record"
    BY <2>1, <2>2, <2>3, <2>5, <1>r, <1>s, <1>n
  <2>6. CASE k = k0 /\ where = "error"
    BY <2>1, <2>2, <2>3, <2>6, <1>r, <1>s, <1>n
  <2> QED
    BY <2>4, <2>5, <2>6
<1>4. DeadStored' /\ AckedProcessed' /\ HeldByOne'
  BY <1>0, <1>r, <1>w, GoKeeps
<1> QED
  BY <1>1, <1>2, <1>3, <1>4 DEF ConsumerInv

\* A message without event id runs its handler past lock and ledger.
LEMMA HandleDirectIInv ==
  ASSUME ConsumerConstants, ConsumerInv, NEW t \in Tasks, Consumer!HandleDirect(t) PROVE ConsumerInv'
<1>0. PICK where \in {"ok", "error"} : Consumer!Go(t, where)
  BY DEF Consumer!HandleDirect
<1>1. /\ task[t].pc = "start" /\ task[t].pc # "free" /\ ~Consumer!HasEvent(t) /\ where \in Consumer!Running
      /\ Consumer!TypeOK
      /\ UNCHANGED <<box, redel, ledger, effects, gaps, dtopic, drows, consumerFaults>>
  BY DEF Consumer!HandleDirect, Consumer!Running, ConsumerInv
<1>2. Consumer!TypeOK'
  BY <1>0, <1>1, GoFacts DEF Consumer!TypeOK
<1>3. LockHeldOnce' /\ LedgerFollows'
  BY <1>0, <1>1, GoFacts DEF ConsumerInv, LockHeldOnce, LedgerFollows, Consumer!Locked
<1>4. Consumer!EffectsAccounted'
  BY <1>0, <1>1, GoFacts DEF ConsumerInv, Consumer!EffectsAccounted
<1>5. DeadStored' /\ AckedProcessed' /\ HeldByOne'
  BY <1>0, <1>1, GoKeeps
<1> QED
  BY <1>2, <1>3, <1>4, <1>5 DEF ConsumerInv

\* A run leaves the account of its scope when its task stops recording and the
\* run is counted as a gap instead: the step shared by a failing Record and an
\* interruption.
LEMMA GapAccounts ==
  ASSUME ConsumerConstants, ConsumerInv, NEW t \in Tasks, task[t].pc = "record", Consumer!Gap(t), ledger' = ledger,
         effects' = effects, task'[t].pc # "record",
         \A u \in Tasks \ {t} : task'[u].pc = task[u].pc /\ Consumer!ScopeOf(u)' = Consumer!ScopeOf(u)
  PROVE  gaps' \in [Consumer!Scopes -> Nat] /\ Consumer!EffectsAccounted'
<1>1. Consumer!ScopeOf(t) \in Consumer!Scopes /\ Consumer!ScopeOf(t) \notin ledger
  BY ScopeTyped DEF ConsumerInv, LockHeldOnce, LedgerFollows, Consumer!Locked
<1>2. \A u \in Tasks \ {t} : task[u].pc = "record" => Consumer!ScopeOf(u) # Consumer!ScopeOf(t)
  BY DEF ConsumerInv, LockHeldOnce, Consumer!Locked
<1>3. /\ gaps \in [Consumer!Scopes -> Nat] /\ effects \in [Consumer!Scopes -> Nat]
      /\ gaps' = [gaps EXCEPT ![Consumer!ScopeOf(t)] = @ + 1]
  BY DEF ConsumerInv, Consumer!TypeOK, Consumer!Gap
<1>4. ASSUME NEW k \in Consumer!Scopes
      PROVE  effects'[k] = gaps'[k] +
               (IF k \in ledger \/ \E u \in Tasks : task'[u].pc = "record" /\ Consumer!ScopeOf(u)' = k
                THEN 1 ELSE 0)
  <2>1. effects[k] = gaps[k] +
          (IF k \in ledger \/ \E u \in Tasks : task[u].pc = "record" /\ Consumer!ScopeOf(u) = k
           THEN 1 ELSE 0)
    BY DEF ConsumerInv, Consumer!EffectsAccounted
  <2>2. CASE k = Consumer!ScopeOf(t)
    BY <1>1, <1>2, <1>3, <2>1, <2>2
  <2>3. CASE k # Consumer!ScopeOf(t)
    BY <1>1, <1>2, <1>3, <2>1, <2>3
  <2> QED
    BY <2>2, <2>3
<1> QED
  BY <1>3, <1>1, <1>4 DEF Consumer!EffectsAccounted

\* The ledger entry commits and frees the lock, or its transaction fails.
LEMMA RecordIInv ==
  ASSUME ConsumerConstants, ConsumerInv, NEW t \in Tasks, Consumer!Record(t) PROVE ConsumerInv'
<1>0. /\ task[t].pc = "record" /\ task[t].pc # "free" /\ Consumer!TypeOK
      /\ UNCHANGED <<box, redel, effects, dtopic, drows>>
      /\ "ok" \in Consumer!Running /\ "error" \in Consumer!Running
  BY DEF Consumer!Record, ConsumerInv, Consumer!Running
<1>s. Consumer!ScopeOf(t) \in Consumer!Scopes
  BY <1>0, ScopeTyped DEF ConsumerInv, LockHeldOnce, Consumer!Locked
<1>n. \A u \in Tasks \ {t} : task[u].pc \in Consumer!Locked => Consumer!ScopeOf(u) # Consumer!ScopeOf(t)
  BY <1>0 DEF ConsumerInv, LockHeldOnce, Consumer!Locked
<1>1. CASE ledger' = ledger \cup {Consumer!ScopeOf(t)} /\ Consumer!Go(t, "ok") /\ UNCHANGED <<gaps, consumerFaults>>
  <2>1. Consumer!TypeOK'
    BY <1>0, <1>1, <1>s, GoFacts DEF Consumer!TypeOK
  <2>2. LockHeldOnce'
    BY <1>0, <1>1, GoFacts DEF ConsumerInv, LockHeldOnce, Consumer!Locked
  <2>3. LedgerFollows'
    BY <1>0, <1>1, <1>n, GoFacts DEF ConsumerInv, LedgerFollows, Consumer!Locked
  <2>4. Consumer!EffectsAccounted'
    BY <1>0, <1>1, GoFacts DEF ConsumerInv, Consumer!EffectsAccounted
  <2>5. DeadStored' /\ AckedProcessed' /\ HeldByOne'
    BY <1>0, <1>1, GoKeeps
  <2> QED
    BY <2>1, <2>2, <2>3, <2>4, <2>5 DEF ConsumerInv
<1>2. CASE Consumer!Fault /\ Consumer!Gap(t) /\ Consumer!Go(t, "error") /\ UNCHANGED ledger
  <2>0. Consumer!EffectsAccounted' /\ gaps' \in [Consumer!Scopes -> Nat]
    BY <1>0, <1>2, GoFacts, GapAccounts
  <2>1. Consumer!TypeOK'
    BY <1>0, <1>2, <2>0, GoFacts DEF ConsumerConstants, Consumer!TypeOK, Consumer!Fault
  <2>2. LockHeldOnce' /\ LedgerFollows'
    BY <1>0, <1>2, GoFacts DEF ConsumerInv, LockHeldOnce, LedgerFollows, Consumer!Locked
  <2>3. DeadStored' /\ AckedProcessed' /\ HeldByOne'
    BY <1>0, <1>2, GoKeeps
  <2> QED
    BY <2>0, <2>1, <2>2, <2>3 DEF ConsumerInv
<1> QED
  BY <1>1, <1>2 DEF Consumer!Record

\* A task that ends frees its lock and disturbs neither locks nor the ledger.
LEMMA FreeKeeps ==
  ASSUME ConsumerConstants, ConsumerInv, NEW t \in Tasks, Consumer!Free(t), ledger' = ledger
  PROVE  /\ LockHeldOnce' /\ LedgerFollows'
         /\ task[t].pc # "record" /\ effects' = effects /\ gaps' = gaps => Consumer!EffectsAccounted'
<1>0. Consumer!TypeOK
  BY DEF ConsumerInv
<1>1. LockHeldOnce' /\ LedgerFollows'
  BY <1>0, FreeFacts DEF ConsumerInv, LockHeldOnce, LedgerFollows, Consumer!Locked
<1>2. ASSUME task[t].pc # "record", effects' = effects, gaps' = gaps PROVE Consumer!EffectsAccounted'
  <2> SUFFICES ASSUME NEW k \in Consumer!Scopes
               PROVE  (\E u \in Tasks : task[u].pc = "record" /\ Consumer!ScopeOf(u) = k)
                      <=> (\E u \in Tasks : task'[u].pc = "record" /\ Consumer!ScopeOf(u)' = k)
    BY <1>2 DEF ConsumerInv, Consumer!EffectsAccounted
  <2> QED
    BY <1>0, <1>2, FreeFacts
<1> QED
  BY <1>1, <1>2

\* The coroutine ends and its thread, if it still waits, acknowledges or
\* rejects the message, or loses the call.
LEMMA AnswerIInv ==
  ASSUME ConsumerConstants, ConsumerInv, NEW t \in Tasks, Consumer!Answer(t) PROVE ConsumerInv'
<1>0. /\ task[t].pc \in {"ok", "error"} /\ task[t].pc # "free" /\ Consumer!Free(t) /\ Consumer!TypeOK
      /\ UNCHANGED <<ledger, effects, gaps, drows>>
  BY DEF Consumer!Answer, ConsumerInv
<1>c. task[t].on \in Consumer!Copies /\ task[t].on = <<task[t].on[1], task[t].on[2]>>
  BY <1>0, ScopeTyped
<1>1. LockHeldOnce' /\ LedgerFollows' /\ Consumer!EffectsAccounted'
  BY <1>0, FreeKeeps
<1>2. ASSUME task[t].attached
      PROVE  \A u \in Tasks \ {t} : task'[u].pc # "free" /\ task'[u].attached
               => task'[u].on # task[t].on
  BY <1>0, <1>2, FreeFacts DEF ConsumerInv, HeldByOne
<1>3. CASE UNCHANGED <<box, redel, dtopic>> /\ (consumerFaults' = consumerFaults \/ Consumer!Fault)
  <2>1. Consumer!TypeOK'
    BY <1>0, <1>3, FreeFacts DEF ConsumerConstants, Consumer!TypeOK, Consumer!Fault
  <2>2. DeadStored' /\ AckedProcessed' /\ HeldByOne'
    BY <1>0, <1>3, FreeFacts DEF ConsumerInv, DeadStored, AckedProcessed, HeldByOne
  <2> QED
    BY <1>1, <2>1, <2>2 DEF ConsumerInv
<1>4. CASE /\ task[t].attached /\ task[t].pc = "ok"
           /\ box' = [box EXCEPT ![task[t].on] = "acked"]
           /\ UNCHANGED <<redel, dtopic, consumerFaults>>
  <2>1. Consumer!TypeOK'
    BY <1>0, <1>c, <1>4, FreeFacts DEF Consumer!TypeOK
  <2>2. DeadStored'
    BY <1>0, <1>c, <1>4 DEF ConsumerInv, Consumer!TypeOK, DeadStored
  <2>3. AckedProcessed'
    BY <1>0, <1>c, <1>4
       DEF ConsumerInv, Consumer!TypeOK, AckedProcessed, LedgerFollows, Consumer!HasEvent, Consumer!ScopeOf
  <2>4. HeldByOne'
    BY <1>0, <1>2, <1>4, FreeFacts DEF ConsumerInv, Consumer!TypeOK, HeldByOne
  <2> QED
    BY <1>1, <2>1, <2>2, <2>3, <2>4 DEF ConsumerInv
<1>5. CASE task[t].attached /\ task[t].pc = "error" /\ Consumer!GiveBack(task[t].on) /\ UNCHANGED consumerFaults
  <2>1. /\ box' \in [Consumer!Copies -> {"none", "ready", "held", "acked", "dead"}]
        /\ redel' \in [Consumer!Copies -> 0..MaxRedeliver]
        /\ dtopic' \in [Consumer!Copies -> {"none", "ready", "stored", "acked"}]
        /\ DeadStored' /\ AckedProcessed'
        /\ \A d \in Consumer!Copies : d # task[t].on => box'[d] = box[d]
    BY <1>0, <1>c, <1>5, GiveBackFacts
  <2>2. Consumer!TypeOK'
    BY <1>0, <1>5, <2>1, FreeFacts DEF Consumer!TypeOK
  <2>3. HeldByOne'
    BY <1>0, <1>2, <1>5, <2>1, FreeFacts DEF ConsumerInv, Consumer!TypeOK, HeldByOne
  <2> QED
    BY <1>1, <2>1, <2>2, <2>3 DEF ConsumerInv
<1> QED
  BY <1>3, <1>4, <1>5 DEF Consumer!Answer

\* The receive thread stops waiting: the copy goes back while the coroutine,
\* with its lock, is still there.
LEMMA TimeoutIInv ==
  ASSUME ConsumerConstants, ConsumerInv, NEW t \in Tasks, Consumer!Timeout(t) PROVE ConsumerInv'
<1>0. /\ task[t].pc # "free" /\ task[t].attached /\ Consumer!GiveBack(task[t].on) /\ Consumer!TypeOK
      /\ task' = [task EXCEPT ![t].attached = FALSE]
      /\ UNCHANGED <<ledger, effects, gaps, drows, consumerFaults>>
  BY DEF Consumer!Timeout, ConsumerInv, Consumer!Running
<1>1. /\ task[t].on \in Consumer!Copies /\ task' \in [Tasks -> Consumer!Task] /\ task'[t].attached = FALSE
      /\ \A u \in Tasks : /\ task'[u].pc = task[u].pc /\ task'[u].on = task[u].on
                          /\ Consumer!HasEvent(u)' = Consumer!HasEvent(u)
                          /\ Consumer!ScopeOf(u)' = Consumer!ScopeOf(u)
                          /\ u # t => task'[u].attached = task[u].attached
  BY <1>0, ScopeTyped DEF Consumer!TypeOK, Consumer!Task, Consumer!HasEvent, Consumer!ScopeOf
<1>2. /\ box' \in [Consumer!Copies -> {"none", "ready", "held", "acked", "dead"}]
      /\ redel' \in [Consumer!Copies -> 0..MaxRedeliver]
      /\ dtopic' \in [Consumer!Copies -> {"none", "ready", "stored", "acked"}]
      /\ DeadStored' /\ AckedProcessed'
      /\ \A d \in Consumer!Copies : d # task[t].on => box'[d] = box[d]
  BY <1>0, <1>1, GiveBackFacts
<1>3. Consumer!TypeOK'
  BY <1>0, <1>1, <1>2 DEF Consumer!TypeOK
<1>u. ledger' = ledger /\ effects' = effects /\ gaps' = gaps
  BY <1>0
<1>4. LockHeldOnce' /\ LedgerFollows'
  BY <1>u, <1>1 DEF ConsumerInv, LockHeldOnce, LedgerFollows
<1>5. Consumer!EffectsAccounted'
  BY <1>u, <1>1 DEF ConsumerInv, Consumer!EffectsAccounted
<1>6. HeldByOne'
  BY <1>0, <1>1, <1>2 DEF ConsumerInv, Consumer!TypeOK, HeldByOne
<1> QED
  BY <1>2, <1>3, <1>4, <1>5, <1>6 DEF ConsumerInv

\* A cancellation or the death of the process: a run that was about to be
\* recorded becomes a gap.
LEMMA InterruptIInv ==
  ASSUME ConsumerConstants, ConsumerInv, NEW t \in Tasks, Consumer!Interrupt(t) PROVE ConsumerInv'
<1>0. /\ task[t].pc # "free" /\ Consumer!Free(t) /\ Consumer!TypeOK
        /\ (consumerFaults' = consumerFaults \/ Consumer!Fault)
      /\ UNCHANGED <<box, redel, ledger, effects, dtopic, drows>>
  BY DEF Consumer!Interrupt, ConsumerInv, Consumer!Running
<1>1. LockHeldOnce' /\ LedgerFollows'
  BY <1>0, FreeKeeps
<1>2. Consumer!EffectsAccounted' /\ gaps' \in [Consumer!Scopes -> Nat]
  <2>1. CASE task[t].pc = "record"
    BY <1>0, <2>1, FreeFacts, GapAccounts DEF Consumer!Interrupt
  <2>2. CASE task[t].pc # "record"
    BY <1>0, <2>2, FreeKeeps DEF Consumer!Interrupt, Consumer!TypeOK
  <2> QED
    BY <2>1, <2>2
<1>3. Consumer!TypeOK'
  BY <1>0, <1>2, FreeFacts DEF ConsumerConstants, Consumer!TypeOK, Consumer!Fault
<1>4. DeadStored' /\ AckedProcessed' /\ HeldByOne'
  BY <1>0, FreeFacts DEF ConsumerInv, DeadStored, AckedProcessed, HeldByOne
<1> QED
  BY <1>1, <1>2, <1>3, <1>4 DEF ConsumerInv

-----------------------------------------------------------------------------
(* The dead-letter worker and the theorems                                 *)

\* Storing a dead letter and acknowledging it, or losing the acknowledgement.
LEMMA DlqIInv ==
  ASSUME ConsumerConstants, ConsumerInv, NEW c \in Consumer!Copies, Consumer!Dlq(c) PROVE ConsumerInv'
<1>1. UNCHANGED <<box, redel, task, ledger, effects, gaps>>
  BY DEF Consumer!Dlq, Consumer!DlqPersist, Consumer!DlqAck
<1>2. Consumer!TypeOK'
  BY <1>1
     DEF ConsumerConstants, ConsumerInv, Consumer!TypeOK, DeadStored, Consumer!Dlq, Consumer!DlqPersist,
         Consumer!DlqAck, Consumer!Fault
<1>3. DeadStored'
  BY <1>1 DEF ConsumerInv, Consumer!TypeOK, DeadStored, Consumer!Dlq, Consumer!DlqPersist, Consumer!DlqAck
<1>4. LockHeldOnce' /\ LedgerFollows' /\ Consumer!EffectsAccounted' /\ AckedProcessed' /\ HeldByOne'
  BY <1>1 DEF ConsumerInv, LockHeldOnce, LedgerFollows, Consumer!EffectsAccounted, AckedProcessed, HeldByOne,
              Consumer!HasEvent, Consumer!ScopeOf
<1> QED
  BY <1>2, <1>3, <1>4 DEF ConsumerInv

\* Every step of the consumer preserves the inductive invariant.
LEMMA ConsumerNext ==
  ASSUME ConsumerConstants
  PROVE  ConsumerInv /\ [Consumer!Next]_(Consumer!consumerVars) => ConsumerInv'
<1> SUFFICES ASSUME ConsumerInv, [Consumer!Next]_(Consumer!consumerVars) PROVE ConsumerInv'
  OBVIOUS
<1>1. CASE UNCHANGED Consumer!consumerVars
  BY <1>1
     DEF Consumer!consumerVars, ConsumerInv, Consumer!TypeOK, LockHeldOnce, LedgerFollows,
         Consumer!EffectsAccounted,
              DeadStored, AckedProcessed, HeldByOne, Consumer!HasEvent, Consumer!ScopeOf
<1>2. ASSUME NEW t \in Tasks, Consumer!Step(t) PROVE ConsumerInv'
  BY <1>2, LockIInv, CheckIInv, HandleIInv, HandleDirectIInv, RecordIInv, AnswerIInv DEF Consumer!Step
<1>3. ASSUME NEW t \in Tasks,
               Consumer!Timeout(t) \/ Consumer!Interrupt(t) \/ \E c \in Consumer!Copies : Consumer!Receive(t, c)
      PROVE  ConsumerInv'
  BY <1>3, TimeoutIInv, InterruptIInv, ReceiveIInv
<1>4. ASSUME NEW c \in Consumer!Copies, Consumer!Redeliver(c) \/ Consumer!Dlq(c) PROVE ConsumerInv'
  BY <1>4, RedeliverIInv, DlqIInv
<1>5. ASSUME NEW m \in Msgs, Consumer!Publish(m) PROVE ConsumerInv'
  BY <1>5, PublishIInv
<1> QED
  BY <1>1, <1>2, <1>3, <1>4, <1>5 DEF Consumer!Next, Consumer!Consume

\* The invariant says at least what the run checks.
LEMMA ConsumerKept ==
  ASSUME ConsumerConstants
  PROVE  ConsumerInv => Consumer!ConsumerSound
<1> SUFFICES ASSUME ConsumerInv PROVE Consumer!ConsumerSound
  OBVIOUS
<1>1. Consumer!HandlersSerialised
  BY DEF ConsumerInv, LockHeldOnce, Consumer!HandlersSerialised, Consumer!Locked
<1>2. Consumer!NoMessageLost
  BY DEF ConsumerInv, Consumer!TypeOK, DeadStored, AckedProcessed, Consumer!NoMessageLost
<1> QED
  BY <1>1, <1>2 DEF ConsumerInv, Consumer!ConsumerSound

\* The inductive invariant holds in every reachable state.
THEOREM ConsumerInductive == Consumer!Spec => []ConsumerInv
<1>1. Consumer!Init => ConsumerInv
  BY ConsumerAssumption, ConsumerInit
<1>2. ConsumerInv /\ [Consumer!Next]_(Consumer!consumerVars) => ConsumerInv'
  BY ConsumerAssumption, ConsumerNext
<1> QED
  BY <1>1, <1>2, PTL DEF Consumer!Spec

\* The state of the bus keeps its types, whatever fails.
THEOREM ConsumerTyped == Consumer!Spec => []Consumer!TypeOK
<1>1. ConsumerInv => Consumer!TypeOK
  BY DEF ConsumerInv
<1> QED
  BY <1>1, ConsumerInductive, PTL

\* The dispatch is serialised by the advisory lock, the ledger accounts for
\* every committed run of a handler, and no message is lost, for any number of
\* subscriptions, coroutines, redeliveries and faults (_dispatch_with_dedup,
\* _handle_message, worker_dlq._persist).
THEOREM ConsumerCorrect == Consumer!Spec => []ConsumerSound
<1>1. ConsumerInv => ConsumerSound
  BY ConsumerAssumption, ConsumerKept DEF ConsumerSound
<1> QED
  BY <1>1, ConsumerInductive, PTL

\* No two receive threads wait for one copy, so an acknowledgement or a
\* rejection is never of a copy that another thread still works on
\* (_handle_message).
THEOREM OneThreadPerCopy == Consumer!Spec => []HeldByOne
<1>1. ConsumerInv => HeldByOne
  BY DEF ConsumerInv
<1> QED
  BY <1>1, ConsumerInductive, PTL
==============================================================================
