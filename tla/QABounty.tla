------------------------------ MODULE QABounty ------------------------------
(***************************************************************************)
(* Bounties of the question-and-answer module on top of the points ledger: *)
(* app/modules/qa/service.py and app/modules/points/service.py.            *)
(*                                                                         *)
(* Asking locks people * per-person points of the author (spend), every    *)
(* accepted answer pays one share out, and closing or expiring a question  *)
(* refunds the rest.  Each request is one PostgreSQL transaction (READ     *)
(* COMMITTED): it takes row locks as it goes, what it writes shows when it *)
(* commits, and any error rolls it back.  A slot is a connection that runs *)
(* one transaction after another.                                          *)
(***************************************************************************)
EXTENDS Integers, Sequences, FiniteSets, FiniteSetsExt, TLC

CONSTANTS
  Users, Questions, Answers, Events, Slots,
  None,
  Author,       \* [Questions -> Users]
  People,       \* [Questions -> Nat \ {0}]  bounty_people
  PerPerson,    \* [Questions -> Nat]        bounty_per_person
  QuestionOf,   \* [Answers -> Questions]
  AnswerBy,     \* [Answers -> Users]
  EventUser,    \* [Events -> Users]         points events, apply_point_reward
  EventDelta,   \* [Events -> Nat \ {0}]     RULE_DELTAS
  MaxAborts     \* bound: failures of the environment

ASSUME BountyAssumption ==
  /\ Author \in [Questions -> Users]
  /\ People \in [Questions -> Nat \ {0}]
  /\ PerPerson \in [Questions -> Nat]
  /\ QuestionOf \in [Answers -> Questions]
  /\ AnswerBy \in [Answers -> Users]
  /\ EventUser \in [Events -> Users]
  /\ EventDelta \in [Events -> Nat \ {0}]
  /\ MaxAborts \in Nat
  /\ IsFiniteSet(Questions) /\ IsFiniteSet(Answers)
  /\ None \notin Slots /\ None \notin Answers

VARIABLES
  balance,    \* committed balances
  ledger,     \* committed ledger rows
  question,   \* committed: status, bounty_distributed, accepted_answer_id
  due,        \* questions whose bounty_expires_at has passed
  posted,     \* committed answers
  accepted,   \* committed answers with is_accepted
  holder,     \* row locks: the slot holding a question or balance row
  tx,         \* per slot: the transaction it runs
  aborts      \* failures so far

vars == <<balance, ledger, question, due, posted, accepted, holder, tx, aborts>>
rows == <<balance, ledger, question, due, posted, accepted>>

Total(q) == People[q] * PerPerson[q]

(* Idempotency keys (ref_type, ref_id) of the ledger.                      *)
EscrowRef(q) == <<"qa_question", q>>
AcceptRef(a) == <<"qa_accept", a>>
RefundRef(q) == <<"qa_refund", q>>
EventRef(e)  == <<"event", e>>

Refs == {EscrowRef(q) : q \in Questions} \cup {RefundRef(q) : q \in Questions}
        \cup {AcceptRef(a) : a \in Answers} \cup {EventRef(e) : e \in Events}

(* copy : which of the rows of one user and key it is.  The key is unique  *)
(* only together with created_at, so the table takes any number of them.   *)
LedgerRows == [user : Users, ref : Refs, delta : Int, copy : Nat]
Entries    == {e \in LedgerRows : e.copy = 0}
Row(u, ref, delta) == [user |-> u, ref |-> ref, delta |-> delta, copy |-> 0]
Booked(u, ref) == {e \in ledger : e.user = u /\ e.ref = ref}
Deltas(S) == MapThenSumSet(LAMBDA e : e.delta, S)

Statuses == {"absent", "open", "accepted", "closed"}

(* op    : the request;  q, a : its arguments                              *)
(* at    : "lock" the question, "decide", then "pay", "look" and "book"    *)
(*         for every ledger row to be booked, in order                     *)
(* batch : the questions to settle                                         *)
(* pay   : ledger rows still to be booked                                  *)
(* done  : ledger rows booked by this transaction                          *)
(* take  : answers this transaction accepts                                *)
Txs == [op : {"free", "ask", "answer", "accept", "close", "event", "expire"},
        q : Questions \cup {None}, a : Answers \cup {None},
        at : {"lock", "decide", "pay", "look", "book"}, batch : SUBSET Questions,
        pay : Seq(Entries), done : SUBSET Entries, take : SUBSET Answers]
Free == [op |-> "free", q |-> None, a |-> None, at |-> "decide", batch |-> {},
         pay |-> <<>>, done |-> {}, take |-> {}]

Init ==
  /\ balance = [u \in Users |-> 0]
  /\ ledger = {} /\ due = {} /\ posted = {} /\ accepted = {}
  /\ question = [q \in Questions |->
                   [status |-> "absent", paid |-> 0, answer |-> None]]
  /\ holder = [x \in Questions \cup Users |-> None]
  /\ tx = [t \in Slots |-> Free]
  /\ aborts = 0

-----------------------------------------------------------------------------
Released(t) == [x \in DOMAIN holder |-> IF holder[x] = t THEN None ELSE holder[x]]
Available(t, x) == holder[x] \in {None, t}

Start(t, req) ==
  /\ tx[t].op = "free"
  /\ tx' = [tx EXCEPT ![t] = req]
  /\ UNCHANGED <<rows, holder, aborts>>

(* Any error: the session is rolled back and its locks are released.       *)
Rollback(t) ==
  /\ tx' = [tx EXCEPT ![t] = Free]
  /\ holder' = Released(t)
  /\ UNCHANGED <<rows, aborts>>

(* create_question inserts a new row, so no other transaction sees it;     *)
(* spend books the escrow.                                                 *)
Ask(t, q) ==
  /\ question[q].status = "absent"
  /\ \A s \in Slots : ~ (tx[s].op = "ask" /\ tx[s].q = q)
  /\ Start(t, [Free EXCEPT !.op = "ask", !.q = q, !.at = "pay",
                 !.pay = IF Total(q) > 0
                           THEN <<Row(Author[q], EscrowRef(q), - Total(q))>> ELSE <<>>])

PostAnswer(t, a) ==
  /\ a \notin posted
  /\ \A s \in Slots : ~ (tx[s].op = "answer" /\ tx[s].a = a)
  /\ Start(t, [Free EXCEPT !.op = "answer", !.q = QuestionOf[a], !.a = a, !.at = "lock"])

Accept(t, a) ==
  Start(t, [Free EXCEPT !.op = "accept", !.q = QuestionOf[a], !.a = a, !.at = "lock"])

(* close_question, alone or together with the acceptance of an answer.     *)
Close(t, q, a) ==
  Start(t, [Free EXCEPT !.op = "close", !.q = q, !.a = a, !.at = "lock"])

(* apply_point_reward: the consumer of a points event, possibly delivered  *)
(* more than once.                                                         *)
Consume(t, e) ==
  Start(t, [Free EXCEPT !.op = "event", !.at = "pay",
              !.pay = <<Row(EventUser[e], EventRef(e), EventDelta[e])>>])

(* get_locked: SELECT ... FOR UPDATE on the question.                      *)
LockQuestion(t) ==
  /\ tx[t].at = "lock"
  /\ Available(t, tx[t].q)
  /\ holder' = [holder EXCEPT ![tx[t].q] = t]
  /\ tx' = [tx EXCEPT ![t].at = "decide"]
  /\ UNCHANGED <<rows, aborts>>

-----------------------------------------------------------------------------
Missing(q) == question[q].status = "absent"
NotOpen(q) == question[q].status # "open"

DecideAnswer(t) ==
  LET q == tx[t].q IN
  /\ tx[t].op = "answer" /\ tx[t].at = "decide"
  /\ IF Missing(q) \/ Author[q] = AnswerBy[tx[t].a] \/ NotOpen(q) \/ q \in due
       THEN Rollback(t)
       ELSE /\ tx' = [tx EXCEPT ![t].at = "pay"]
            /\ UNCHANGED <<rows, holder, aborts>>

AcceptedOf(q) == {a \in accepted : QuestionOf[a] = q}

(* The errors of accept_answer after it has locked the question; closing   *)
(* with an answer runs the same checks.                                    *)
AcceptRefused(q, a) ==
  \/ Missing(q) \/ NotOpen(q) \/ q \in due
  \/ a \notin posted
  \/ a \notin accepted /\ AnswerBy[a] = Author[q]
  \/ a \notin accepted /\ Cardinality(AcceptedOf(q)) >= People[q]

Share(q, a) ==
  IF a \in accepted \/ PerPerson[q] = 0 THEN <<>>
  ELSE <<Row(AnswerBy[a], AcceptRef(a), PerPerson[q])>>

(* Faulty variant of DecideAccept: a question that was settled while this  *)
(* request waited for the lock is not noticed.                             *)
DecideAcceptSettled(t) ==
  LET q == tx[t].q
      a == tx[t].a
  IN /\ tx[t].op = "accept" /\ tx[t].at = "decide"
     /\ IF Missing(q) \/ a \notin posted \/ AnswerBy[a] = Author[q]
             \/ Cardinality(AcceptedOf(q)) >= People[q]
          THEN Rollback(t)
          ELSE /\ tx' = [tx EXCEPT ![t].at = "pay", ![t].take = {a} \ accepted,
                                   ![t].pay = Share(q, a)]
               /\ UNCHANGED <<rows, holder, aborts>>

DecideAccept(t) ==
  LET q == tx[t].q
      a == tx[t].a
  IN /\ tx[t].op = "accept" /\ tx[t].at = "decide"
     /\ IF AcceptRefused(q, a)
          THEN Rollback(t)
          ELSE /\ tx' = [tx EXCEPT ![t].at = "pay", ![t].take = {a} \ accepted,
                                   ![t].pay = Share(q, a)]
               /\ UNCHANGED <<rows, holder, aborts>>

(* _settle_question: what has not been paid out goes back.                 *)
RefundRow(q, paid) == Row(Author[q], RefundRef(q), Total(q) - paid)
Refund(q, paid) == IF Total(q) > paid THEN <<RefundRow(q, paid)>> ELSE <<>>

DecideClose(t) ==
  LET q     == tx[t].q
      a     == tx[t].a
      with  == a # None /\ a # question[q].answer
      share == IF with THEN Share(q, a) ELSE <<>>
      paid  == question[q].paid + (IF share = <<>> THEN 0 ELSE PerPerson[q])
  IN /\ tx[t].op = "close" /\ tx[t].at = "decide"
     /\ IF Missing(q) \/ NotOpen(q) \/ (with /\ AcceptRefused(q, a))
          THEN Rollback(t)
          ELSE /\ tx' = [tx EXCEPT ![t].at = "pay", ![t].batch = {q},
                                   ![t].take = IF with THEN {a} \ accepted ELSE {},
                                   ![t].pay = share \o Refund(q, paid)]
               /\ UNCHANGED <<rows, holder, aborts>>

(* expire_due_questions: due, open questions that nobody holds (SKIP       *)
(* LOCKED), settled one after the other in one transaction.                *)
Expirable == {q \in due : question[q].status = "open" /\ holder[q] = None}

InSomeOrder(S) == {f \in [1 .. Cardinality(S) -> S] : \A x \in S : \E i \in DOMAIN f : f[i] = x}

Expire(t) ==
  /\ tx[t].op = "free" /\ Expirable # {}
  /\ \E order \in InSomeOrder({q \in Expirable : Total(q) > question[q].paid}) :
       tx' = [tx EXCEPT ![t] = [Free EXCEPT !.op = "expire", !.at = "pay", !.batch = Expirable,
                !.pay = [i \in DOMAIN order |-> RefundRow(order[i], question[order[i]].paid)]]]
  /\ holder' = [x \in DOMAIN holder |-> IF x \in Expirable THEN t ELSE holder[x]]
  /\ UNCHANGED <<rows, aborts>>

-----------------------------------------------------------------------------
(* reward, once for each row to book: lock the balance row, look for the   *)
(* idempotency key, change the balance, insert the ledger row.             *)
Paying(t, at) == tx[t].at = at /\ tx[t].pay # <<>>
Due(t) == Head(tx[t].pay)

(* Faulty variant of LockBalance: the key is looked up without the lock.   *)
LockBalanceNot(t) ==
  /\ Paying(t, "pay")
  /\ tx' = [tx EXCEPT ![t].at = "look"]
  /\ UNCHANGED <<rows, holder, aborts>>

LockBalance(t) ==
  /\ Paying(t, "pay")
  /\ Available(t, Due(t).user)
  /\ holder' = [holder EXCEPT ![Due(t).user] = t]
  /\ tx' = [tx EXCEPT ![t].at = "look"]
  /\ UNCHANGED <<rows, aborts>>

(* get_by_ref.  Booked before with the same amount: nothing to do; with    *)
(* another one: DUPLICATE_REWARD.                                          *)
LookUp(t) ==
  LET old == Booked(Due(t).user, Due(t).ref) IN
  /\ Paying(t, "look")
  /\ IF \E e \in old : e.delta # Due(t).delta
       THEN Rollback(t)
       ELSE /\ tx' = [tx EXCEPT ![t].at = IF old = {} THEN "book" ELSE "pay",
                                ![t].pay = IF old = {} THEN @ ELSE Tail(@)]
            /\ UNCHANGED <<rows, holder, aborts>>

OwnDelta(t, u) == Deltas({e \in tx[t].done : e.user = u})

Overdrawn(t) == balance[Due(t).user] + OwnDelta(t, Due(t).user) + Due(t).delta < 0

(* UPDATE ... WHERE balance + delta >= 0, which holds the row from here on *)
(* at the latest, and the ledger row.                                      *)
Book(t) ==
  /\ Paying(t, "book")
  /\ Available(t, Due(t).user)
  /\ IF Overdrawn(t)
       THEN Rollback(t)
       ELSE /\ tx' = [tx EXCEPT ![t].at = "pay", ![t].pay = Tail(@),
                                ![t].done = @ \cup {Due(t)}]
            /\ holder' = [holder EXCEPT ![Due(t).user] = t]
            /\ UNCHANGED <<rows, aborts>>

-----------------------------------------------------------------------------
(* The question row the transaction leaves behind.                         *)
Taken(t, q) == {a \in tx[t].take : QuestionOf[a] = q}
AfterAccept(t, q) ==
  [question[q] EXCEPT !.paid = @ + Cardinality(Taken(t, q)) * PerPerson[q],
                      !.answer = IF Taken(t, q) = {} THEN @
                                 ELSE CHOOSE a \in Taken(t, q) : TRUE]
AfterSettle(t, q) ==
  LET row == AfterAccept(t, q) IN
  IF q \in tx[t].batch
    THEN [row EXCEPT !.status = IF row.answer # None THEN "accepted" ELSE "closed"]
    ELSE row

(* The row as it is inserted: next to those its key has already.           *)
Inserted(e) == [e EXCEPT !.copy = Cardinality(Booked(e.user, e.ref))]

(* get_session commits after the endpoint, the workers commit themselves.  *)
Commit(t) ==
  /\ tx[t].op # "free" /\ tx[t].at = "pay" /\ tx[t].pay = <<>>
  /\ balance' = [u \in Users |-> balance[u] + OwnDelta(t, u)]
  /\ ledger' = ledger \cup {Inserted(e) : e \in tx[t].done}
  /\ question' = [q \in Questions |->
                    IF tx[t].op = "ask" /\ tx[t].q = q
                      THEN [question[q] EXCEPT !.status = "open"]
                      ELSE AfterSettle(t, q)]
  /\ posted' = IF tx[t].op = "answer" THEN posted \cup {tx[t].a} ELSE posted
  /\ accepted' = accepted \cup tx[t].take
  /\ holder' = Released(t)
  /\ tx' = [tx EXCEPT ![t] = Free]
  /\ UNCHANGED <<due, aborts>>

(* A crash, a timeout or a lost connection.                                *)
Abort(t) ==
  /\ tx[t].op # "free" /\ aborts < MaxAborts
  /\ aborts' = aborts + 1
  /\ tx' = [tx EXCEPT ![t] = Free]
  /\ holder' = Released(t)
  /\ UNCHANGED rows

(* The row t waits for; a circle of waiting transactions is broken by the  *)
(* database, which fails one of them.                                      *)
WaitsFor(t) ==
  IF tx[t].at = "lock" THEN holder[tx[t].q]
  ELSE IF Paying(t, "pay") \/ Paying(t, "book") THEN holder[Due(t).user] ELSE None
Deadlocked(t) ==
  \E S \in SUBSET Slots : t \in S /\ \A s \in S : WaitsFor(s) \in S \ {s}

BreakDeadlock(t) == Deadlocked(t) /\ Rollback(t)

BecomeDue(q) ==
  /\ question[q].status = "open" /\ Total(q) > 0 /\ q \notin due
  /\ due' = due \cup {q}
  /\ UNCHANGED <<balance, ledger, question, posted, accepted, holder, tx, aborts>>

-----------------------------------------------------------------------------
Working(t) ==
  \/ LockQuestion(t) \/ DecideAnswer(t) \/ DecideAccept(t) \/ DecideClose(t)
  \/ LockBalance(t) \/ LookUp(t) \/ Book(t) \/ Commit(t) \/ BreakDeadlock(t)

Next ==
  \/ \E q \in Questions : BecomeDue(q)
  \/ \E t \in Slots :
       \/ Working(t) \/ Abort(t) \/ Expire(t)
       \/ \E q \in Questions : Ask(t, q)
       \/ \E q \in Questions :
            \E a \in {b \in Answers : QuestionOf[b] = q} \cup {None} : Close(t, q, a)
       \/ \E a \in Answers : PostAnswer(t, a) \/ Accept(t, a)
       \/ \E e \in Events : Consume(t, e)

Spec == Init /\ [][Next]_vars

-----------------------------------------------------------------------------
(* The types; a lock is held by a transaction that is running.             *)
TypeOK ==
  /\ balance \in [Users -> Int] /\ ledger \subseteq LedgerRows
  /\ question \in [Questions -> [status : Statuses, paid : Nat, answer : Answers \cup {None}]]
  /\ due \subseteq Questions /\ accepted \subseteq posted /\ posted \subseteq Answers
  /\ tx \in [Slots -> Txs] /\ aborts \in 0 .. MaxAborts
  /\ holder \in [Questions \cup Users -> Slots \cup {None}]
  /\ \A x \in DOMAIN holder : holder[x] # None => tx[holder[x]].op # "free"

(* No reward is booked twice, although the table would take a second row   *)
(* of its key: the balance row is locked before the key is looked up.      *)
BookedOnce == \A e, f \in ledger : e.user = f.user /\ e.ref = f.ref => e = f

(* The ledger explains every balance: retries, rollbacks and failures      *)
(* never change a balance without its ledger row.                          *)
LedgerExplains ==
  \A u \in Users : balance[u] = Deltas({e \in ledger : e.user = u})

(* No balance is overdrawn, however many requests spend at the same time.  *)
NoOverdraft == \A u \in Users : balance[u] >= 0

PaidOut(q) == Deltas({e \in ledger : \E a \in Answers : QuestionOf[a] = q /\ e.ref = AcceptRef(a)})
Refunded(q) == Deltas({e \in ledger : e.ref = RefundRef(q)})
Escrowed(q) == - Deltas({e \in ledger : e.ref = EscrowRef(q)})

(* The escrow of a question is given away exactly once: what its author    *)
(* paid covers the shares paid out while it is open, and equals shares     *)
(* plus refund once it is settled by close or by expiry.                   *)
EscrowExact ==
  \A q \in Questions :
    /\ question[q].status # "absent" => Escrowed(q) = Total(q)
    /\ question[q].status = "open" => PaidOut(q) = question[q].paid /\ Refunded(q) = 0
    /\ question[q].status \in {"accepted", "closed"} => PaidOut(q) + Refunded(q) = Total(q)

(* Every share went to an accepted answer, and no more answers are         *)
(* accepted than the author offered to pay.                                *)
SharesEarned ==
  \A q \in Questions :
    /\ Cardinality(AcceptedOf(q)) <= People[q]
    /\ PaidOut(q) = Cardinality(AcceptedOf(q)) * PerPerson[q]

(* Points are conserved: a reward is booked at most once however often it  *)
(* is delivered and retried, every balance is the sum of its ledger rows   *)
(* and none is overdrawn (reward, spend, accept, close and expiry).        *)
LedgerSound == BookedOnce /\ LedgerExplains /\ NoOverdraft

(* The escrow is given away exactly once and only for accepted answers     *)
(* (accept_answer, close_question, expire_questions).                      *)
BountyFair == EscrowExact /\ SharesEarned
-----------------------------------------------------------------------------
(* The small instance: two authors, with a question and a points event     *)
(* each, who answer each other.  One question has three answers for its    *)
(* two shares, of the other two shares one is earned by nobody.            *)
MutualAuthor     == CHOOSE f \in [Questions -> Users] : \A u \in Users : \E q \in Questions : f[q] = u
MutualPeople     == [q \in Questions |-> 2]
MutualPerPerson  == [q \in Questions |-> 1]
OneOf(S)         == CHOOSE x \in S : TRUE
MutualQuestionOf == [a \in Answers |->
                       IF a = OneOf(Answers) THEN OneOf(Questions) ELSE OneOf(Questions \ {OneOf(Questions)})]
MutualAnswerBy   == CHOOSE f \in [Answers -> Users] : \A a \in Answers : f[a] # MutualAuthor[MutualQuestionOf[a]]
MutualEventUser  == CHOOSE f \in [Events -> Users] : \A u \in Users : \E e \in Events : f[e] = u
MutualEventDelta == [e \in Events |-> 2]

Alike == Permutations(Slots) \cup Permutations(Answers \ {OneOf(Answers)})
=============================================================================
